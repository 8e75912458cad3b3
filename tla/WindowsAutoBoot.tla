-------------------------- MODULE WindowsAutoBoot --------------------------
(***************************************************************************)
(* WindowsAutoBootDxe: a driver that starts the Windows fallback loader    *)
(* from an internal volume, from two event handlers: one for every file    *)
(* system installed after the driver, one for the first ReadyToBoot.       *)
(*                                                                         *)
(* Both handlers run at TPL_CALLBACK.  The boot manager runs at            *)
(* TPL_APPLICATION and is preempted as soon as one of them is signalled;   *)
(* the loader that a handler starts runs inside that handler, so that an   *)
(* event signalled meanwhile waits for the handler's return.               *)
(***************************************************************************)
EXTENDS Integers, FiniteSets

CONSTANTS
    Volumes,        \* partitions, each the handle of its BlockIo and file system
    Internal,       \* volumes with media present and not removable
    WithLoader,     \* volumes that hold \EFI\BOOT\BOOTAA64.EFI
    Mountable,      \* volumes a file system driver accepts
    None,           \* no volume
    MaxInstalls     \* bound on the installations of one file system

ASSUME VolumesAssumption ==
    /\ Internal \subseteq Volumes /\ WithLoader \subseteq Volumes
    /\ Mountable \subseteq Volumes
    /\ None \notin Volumes
    /\ MaxInstalls \in Nat

Bootable == Internal \cap WithLoader

VARIABLES
    driver,         \* "absent", "ready", or "failed"
    disks,          \* volumes whose BlockIo ancestry exists
    fs,             \* volumes with SimpleFileSystem installed
    unseen,         \* of those, the ones ByRegisterNotify has yet to return
    fsSignal,       \* mSimpleFileSystemEvent is queued
    rtb,            \* mReadyToBootEvent: "none", "armed", "queued", "closed"
    handler,        \* the handler running: "none", "notify", "readyToBoot"
    step,           \* where it is: "idle", "loop", "try", "load", "run"
    vol,            \* the handle it is trying
    todo,           \* what is left of ReadyToBoot's handle buffer
    mWindowsStarted,
    os,             \* boot services have ended
    succeeded,      \* history: a loader has returned EFI_SUCCESS
    owed,           \* history: bootable volumes announced and not tried since
    installs,       \* history: installations of each file system
    attempts        \* history: launches from each volume

dbVars   == <<disks, fs, installs>>
evtVars  == <<unseen, fsSignal, rtb>>
runVars  == <<handler, step, vol, todo, mWindowsStarted>>
histVars == <<succeeded, owed, attempts>>
vars == <<driver, os, dbVars, evtVars, runVars, histVars>>

----------------------------------------------------------------------------
Init ==
    /\ driver = "absent"
    /\ disks \in SUBSET Volumes /\ fs \in SUBSET (disks \cap Mountable)
    /\ unseen = {} /\ fsSignal = FALSE /\ rtb = "none"
    /\ handler = "none" /\ step = "idle" /\ vol = None /\ todo = {}
    /\ mWindowsStarted = FALSE /\ os = FALSE
    /\ succeeded = FALSE /\ owed = {}
    /\ installs = [v \in Volumes |-> IF v \in fs THEN 1 ELSE 0]
    /\ attempts = [v \in Volumes |-> 0]

\* The boot manager runs: no handler does and none is queued.
InBds == handler = "none" /\ ~fsSignal /\ rtb # "queued" /\ ~os

\* File systems appear and disappear when the boot manager, or a loader that
\* a handler started, connects and disconnects controllers.
Connecting == InBds \/ step = "run"

\* WindowsAutoBootDxeInitialize.  The file system event and its registration
\* come first, and stay when the ReadyToBoot event cannot be created.
WindowsAutoBootDxeInitialize ==
    /\ driver = "absent" /\ InBds
    /\ \/ driver' = "ready" /\ rtb' \in {"armed", "none"}
       \/ driver' = "failed" /\ rtb' = rtb
    /\ mWindowsStarted' = FALSE
    /\ UNCHANGED <<os, dbVars, unseen, fsSignal, handler, step, vol, todo, histVars>>

\* What installing file systems does to the database and to the registration:
\* every new handle is appended behind the registration's position.
Install(new) ==
    /\ \A v \in new : installs[v] < MaxInstalls
    /\ fs' = fs \cup new
    /\ installs' = [v \in Volumes |-> installs[v] + IF v \in new THEN 1 ELSE 0]
    /\ IF driver = "ready" /\ new # {}
         THEN unseen' = unseen \cup new /\ fsSignal' = TRUE
         ELSE UNCHANGED <<unseen, fsSignal>>

Connect(v) ==
    /\ Connecting /\ v \in (disks \cap Mountable) \ fs
    /\ Install({v})
    /\ owed' = IF driver = "ready" THEN owed \cup ({v} \cap Bootable) ELSE owed
    /\ UNCHANGED <<driver, os, disks, rtb, runVars, succeeded, attempts>>

\* Uninstalling a handle moves the registration's position off it.
Disconnect(v) ==
    /\ Connecting /\ v \in fs
    /\ fs' = fs \ {v}
    /\ unseen' = unseen \ {v}
    /\ owed' = owed \ {v}
    /\ UNCHANGED <<driver, os, disks, installs, fsSignal, rtb, runVars,
                   succeeded, attempts>>

\* A disk's driver starts.
AttachDisk(v) ==
    /\ Connecting /\ v \notin disks
    /\ disks' = disks \cup {v}
    /\ UNCHANGED <<driver, os, fs, installs, evtVars, runVars, histVars>>

\* The boot manager signals ReadyToBoot before every boot option.
SignalReadyToBoot ==
    /\ InBds /\ rtb = "armed"
    /\ rtb' = "queued"
    /\ UNCHANGED <<driver, os, dbVars, unseen, fsSignal, runVars, histVars>>

\* An option the boot manager started ends boot services.
BootOption ==
    /\ InBds /\ os' = TRUE
    /\ UNCHANGED <<driver, dbVars, evtVars, runVars, histVars>>

----------------------------------------------------------------------------
(* The handlers.                                                           *)

\* The core takes an event off its queue and calls its handler.
FileSystemNotify ==
    /\ handler = "none" /\ fsSignal /\ ~os
    /\ fsSignal' = FALSE
    /\ handler' = "notify" /\ step' = "loop"
    /\ UNCHANGED <<driver, os, dbVars, unseen, rtb, vol, todo, mWindowsStarted,
                   histVars>>

\* WindowsAutoBootReadyToBoot up to its loop: the event is closed, every
\* BlockIo handle is connected recursively unless their buffer cannot be
\* had, and the file systems are listed unless theirs cannot.
ReadyToBoot ==
    /\ handler = "none" /\ rtb = "queued" /\ ~os
    /\ rtb' = "closed"
    /\ handler' = "readyToBoot" /\ step' = "loop"
    /\ \E connected, listed \in BOOLEAN :
         LET new == IF connected THEN (disks \cap Mountable) \ fs ELSE {}
         IN  /\ Install(new)
             /\ todo' = IF listed THEN fs \cup new ELSE {}
             /\ owed' = (owed \cup new \cup todo') \cap Bootable
    /\ UNCHANGED <<driver, os, disks, vol, mWindowsStarted, succeeded, attempts>>

\* Mutant: the notification looks its handle up by protocol.
NextHandleByProtocol(v) ==
    /\ step = "loop" /\ handler = "notify" /\ ~mWindowsStarted
    /\ v \in fs
    /\ vol' = v /\ step' = "try"
    /\ UNCHANGED <<driver, os, dbVars, evtVars, handler, todo, mWindowsStarted,
                   histVars>>

\* One turn of a handler's loop: the next handle, or the return.
NextHandle(v) ==
    /\ step = "loop"
    /\ \/ /\ handler = "notify" /\ ~mWindowsStarted
          /\ v \in unseen /\ unseen' = unseen \ {v}
          /\ UNCHANGED todo
       \/ /\ handler = "readyToBoot"
          /\ v \in todo /\ todo' = todo \ {v}
          /\ UNCHANGED unseen
    /\ vol' = v /\ step' = "try"
    /\ UNCHANGED <<driver, os, dbVars, fsSignal, rtb, handler, mWindowsStarted,
                   histVars>>

\* Mutant: the notification's loop does not end on an error.
HandlerReturnOnlyOnSuccess ==
    /\ step = "loop"
    /\ handler = "notify" => mWindowsStarted
    /\ handler = "readyToBoot" => todo = {}
    /\ handler' = "none" /\ step' = "idle" /\ vol' = None
    /\ UNCHANGED <<driver, os, dbVars, evtVars, todo, mWindowsStarted, histVars>>

HandlerReturn ==
    /\ step = "loop"
    /\ \/ handler = "notify" /\ (mWindowsStarted \/ unseen = {})
       \/ handler = "readyToBoot" /\ todo = {}
    /\ handler' = "none" /\ step' = "idle" /\ vol' = None
    /\ UNCHANGED <<driver, os, dbVars, evtVars, todo, mWindowsStarted, histVars>>

\* Mutant: ReadyToBoot gives up after the first file system.
BackInLoopOnce(result) == step' = "loop" /\ todo' = {}

\* Back in the loop of the handler: ReadyToBoot leaves it when TryStart says so.
BackInLoop(result) ==
    /\ step' = "loop"
    /\ todo' = IF result THEN {} ELSE todo

\* TryStartWindowsFromHandle up to the launch.  A handle of the buffer may have
\* lost its protocols since the buffer was filled.
TryStartWindowsFromHandle ==
    /\ step = "try"
    /\ IF mWindowsStarted
         THEN BackInLoop(TRUE) /\ UNCHANGED mWindowsStarted
         ELSE IF vol \notin fs \/ vol \notin Bootable
           THEN BackInLoop(FALSE) /\ UNCHANGED mWindowsStarted
           ELSE mWindowsStarted' = TRUE /\ step' = "load" /\ UNCHANGED todo
    /\ UNCHANGED <<driver, os, dbVars, evtVars, handler, vol, histVars>>

\* Mutant: an error before StartImage leaves the flag set.
LoadLoaderKeepsFlag ==
    /\ step = "load"
    /\ owed' = owed \ {vol}
    /\ attempts' = [attempts EXCEPT ![vol] = @ + 1]
    /\ step' \in {"run", "loop"}
    /\ UNCHANGED <<driver, os, dbVars, evtVars, handler, vol, todo,
                   mWindowsStarted, succeeded>>

\* StartWindowsFromHandle up to StartImage: no path, image or loaded-image
\* protocol is an error; otherwise the loader runs.
LoadLoader ==
    /\ step = "load"
    /\ owed' = owed \ {vol}
    /\ attempts' = [attempts EXCEPT ![vol] = @ + 1]
    /\ \/ step' = "run" /\ UNCHANGED <<todo, mWindowsStarted>>
       \/ mWindowsStarted' = FALSE /\ BackInLoop(FALSE)
    /\ UNCHANGED <<driver, os, dbVars, evtVars, handler, vol, succeeded>>

\* StartImage returns, and the image is unloaded.
LoaderReturns(ok) ==
    /\ step = "run"
    /\ mWindowsStarted' = ok
    /\ succeeded' = (succeeded \/ ok)
    /\ BackInLoop(ok)
    /\ UNCHANGED <<driver, os, dbVars, evtVars, handler, vol, owed, attempts>>

\* Windows takes over, and StartImage never returns.
LoaderExitsBootServices ==
    /\ step = "run" /\ ~os
    /\ os' = TRUE /\ step' = "idle" /\ handler' = "none"
    /\ UNCHANGED <<driver, dbVars, evtVars, vol, todo, mWindowsStarted, histVars>>

----------------------------------------------------------------------------
Bds ==
    \/ WindowsAutoBootDxeInitialize \/ SignalReadyToBoot \/ BootOption
    \/ \E v \in Volumes : Connect(v) \/ Disconnect(v) \/ AttachDisk(v)

LoaderEnds ==
    (\E ok \in BOOLEAN : LoaderReturns(ok)) \/ LoaderExitsBootServices

Handlers ==
    \/ FileSystemNotify \/ ReadyToBoot
    \/ \E v \in Volumes : NextHandle(v)
    \/ HandlerReturn \/ TryStartWindowsFromHandle \/ LoadLoader

Next == Bds \/ Handlers \/ LoaderEnds

Spec == Init /\ [][Next]_vars

\* The core dispatches and a handler runs on; a loader returns or takes over.
FairSpec == Spec /\ WF_vars(Handlers) /\ WF_vars(LoaderEnds)

----------------------------------------------------------------------------
TypeOK ==
    /\ driver \in {"absent", "ready", "failed"}
    /\ disks \subseteq Volumes /\ fs \subseteq disks
    /\ unseen \subseteq fs
    /\ fsSignal \in BOOLEAN
    /\ rtb \in {"none", "armed", "queued", "closed"}
    /\ handler \in {"none", "notify", "readyToBoot"}
    /\ (handler = "readyToBoot" => rtb = "closed")
    /\ step \in {"idle", "loop", "try", "load", "run"}
    /\ vol \in Volumes \cup {None}
    /\ todo \subseteq Volumes
    /\ mWindowsStarted \in BOOLEAN /\ os \in BOOLEAN /\ succeeded \in BOOLEAN
    /\ owed \subseteq Bootable
    /\ installs \in [Volumes -> Nat] /\ attempts \in [Volumes -> Nat]

\* mWindowsStarted says exactly that a loader is being launched, runs, or has
\* succeeded: an error on any path of StartWindowsFromHandle clears it, so that
\* a loader that fails never keeps another volume from being tried.
FlagTracksLoader ==
    ~os => (mWindowsStarted <=> (step \in {"load", "run"} \/ succeeded))

\* Whenever the boot manager has control and no loader has succeeded, every
\* bootable internal volume whose file system was announced, or which was
\* connected or listed by ReadyToBoot, has been tried since: none is lost
\* between the two handlers, whatever a failing loader connects or removes.
NoneOverlooked == InBds /\ ~mWindowsStarted => owed = {}

\* Only internal volumes with a loader are launched, and a loader that keeps
\* failing is not launched for ever: each launch uses up one installation of
\* the file system or the only ReadyToBoot.
AttemptsBounded ==
    \A v \in Volumes :
        attempts[v] <= IF v \in Bootable THEN installs[v] + 1 ELSE 0

\* The handlers give the boot manager its CPU back unless Windows takes over.
BdsResumes == handler # "none" ~> (InBds \/ os)
=============================================================================
