---------------------------- MODULE ServiceHooks ----------------------------
(***************************************************************************)
(* Who stands in the Boot Services and Runtime Services tables: the boot   *)
(* policy library's filter on LoadImage, and any number of instances of    *)
(* BootLaunchApp, each of which puts a tracing wrapper before every        *)
(* service while the image it was given runs.  That image may itself be a  *)
(* shell that starts another instance.                                     *)
(*                                                                         *)
(* A call of a service is a stack of activations, since a wrapper's DEBUG  *)
(* may print through services again.  Calls are made by the image that     *)
(* runs and by event notifications, between any two pointer writes.        *)
(***************************************************************************)
EXTENDS Integers, Sequences, SequencesExt

CONSTANTS
    Apps,           \* instances of BootLaunchApp
    Hooked,         \* the services, in the order in which they are hooked
    Output,         \* the one that printing calls
    Devices,        \* what images are loaded from
    SdCards,        \* those on the platform's SD card slot
    UsbDevices,     \* those with a USB node in their path
    UsbBoot,        \* the setting ENABLE_USB_BOOT: "on", "off", "unreadable"
    MaxCalls        \* bound on the calls made in a boot, for TLC

Services == {Hooked[i] : i \in DOMAIN Hooked}
\* Their wrappers print before they call, without a look at the guard.
Unguarded == {"Exit", "ExitBootServices"}

Policy == "policy"
Core == "core"
Null == "null"
NoDevice == "no device"

ASSUME ConstantsAssumption ==
    /\ Hooked \in Seq(Services)
    /\ \A i, j \in DOMAIN Hooked : Hooked[i] = Hooked[j] => i = j
    /\ "LoadImage" \in Services /\ Output \in Services \ ({"LoadImage"} \cup Unguarded)
    /\ SdCards \cup UsbDevices \subseteq Devices /\ NoDevice \notin Devices
    /\ Apps \cap {Policy, Core, Null} = {}

VARIABLES
    entry,          \* the pointers in the two tables
    saved,          \* each wrapper's copies of the pointers it replaced
    checked,        \* the tables' checksums are right
    running,        \* the instances under way, innermost last
    pc, field,      \* where each is, and in which service's HOOK or UNHOOK
    quiet,          \* mFailuresOnly
    inTrace,        \* mInTrace
    calls,          \* activations of services, innermost last
    result,         \* what the latest activation returned: "ok", "error"
    loaded,         \* the devices images were loaded from since BDS was there
    made            \* bounds the calls

tableVars == <<entry, saved, checked>>
appVars == <<running, pc, field, quiet>>
callVars == <<calls, result, inTrace, loaded, made>>
vars == <<tableVars, appVars, callVars>>

Wrappers == Apps \cup {Policy}

(***************************************************************************)
(* Calls                                                                   *)
(***************************************************************************)
Activation(service, device, at) ==
    [service |-> service, device |-> device, at |-> at, phase |-> "enter", status |-> "ok"]

Idle == calls = <<>>
Current == calls[Len(calls)]
Enters(wrappers) == ~Idle /\ Current.phase = "enter" /\ Current.at \in wrappers

\* The image that runs, or a notification, calls a service.
Call(service, device) ==
    /\ Idle /\ made < MaxCalls
    /\ made' = made + 1
    /\ calls' = <<Activation(service, device, entry[service])>>
    /\ UNCHANGED <<tableVars, appVars, result, inTrace, loaded>>

CallService ==
    \/ \E s \in Services \ {"LoadImage"} : Call(s, NoDevice)
    \/ \E d \in Devices : Call("LoadImage", d)

\* The firmware's own routine succeeds or fails.  An ExitBootServices that succeeds is
\* the end of all that is modelled here; Exit ends its caller, and with it the call.
CoreReturns ==
    /\ Enters({Core})
    /\ result' \in {"ok", "error"}
    /\ Current.service = "ExitBootServices" => result' = "error"
    /\ loaded' = IF Current.service = "LoadImage" /\ result' = "ok"
                 THEN loaded \cup {Current.device} ELSE loaded
    /\ calls' = Front(calls)
    /\ UNCHANGED <<tableVars, appVars, inTrace, made>>

\* SD cards never boot; USB devices boot unless the setting could be read and is off.
MsBootPolicyLibIsDevicePathBootable(device) ==
    /\ device \notin SdCards
    /\ device \in UsbDevices => UsbBoot # "off"

\* A path that may not be booted is refused, any other call is passed on.
LocalLoadImage ==
    /\ Enters({Policy})
    /\ IF MsBootPolicyLibIsDevicePathBootable(Current.device)
       THEN /\ calls' = [calls EXCEPT ![Len(calls)].at = saved[Policy]["LoadImage"]]
            /\ UNCHANGED result
       ELSE calls' = Front(calls) /\ result' = "error"
    /\ UNCHANGED <<tableVars, appVars, inTrace, loaded, made>>

\* Mutant: the wrapper calls the firmware's routine itself.
TraceCallsCore ==
    /\ Enters(Apps) /\ Current.service \notin Unguarded
    /\ calls' = Append([calls EXCEPT ![Len(calls)].phase = "called"],
                       Activation(Current.service, Current.device, Core))
    /\ UNCHANGED <<tableVars, appVars, result, inTrace, loaded, made>>

\* A wrapper first calls what it replaced ...
TraceCall ==
    /\ Enters(Apps) /\ Current.service \notin Unguarded
    /\ calls' = Append([calls EXCEPT ![Len(calls)].phase = "called"],
                       Activation(Current.service, Current.device,
                                  saved[Current.at][Current.service]))
    /\ UNCHANGED <<tableVars, appVars, result, inTrace, loaded, made>>

\* Mutant: nothing keeps a wrapper from tracing its own printing.
PrintsAlways(app) == quiet[app] => result = "error"

\* ... then prints the result, unless it is already printing ...
Prints(app) == inTrace[app] = 0 /\ (quiet[app] => result = "error")

TracePrint ==
    /\ ~Idle /\ Current.phase = "called" /\ Prints(Current.at)
    /\ inTrace' = [inTrace EXCEPT ![Current.at] = @ + 1]
    /\ calls' = Append([calls EXCEPT ![Len(calls)].phase = "printing",
                                     ![Len(calls)].status = result],
                       Activation(Output, NoDevice, entry[Output]))
    /\ UNCHANGED <<tableVars, appVars, result, loaded, made>>

TracePrinted ==
    /\ ~Idle /\ Current.phase = "printing"
    /\ inTrace' = [inTrace EXCEPT ![Current.at] = @ - 1]
    /\ result' = Current.status
    /\ calls' = Front(calls)
    /\ UNCHANGED <<tableVars, appVars, loaded, made>>

\* Mutant: the guard is a lock that a nested call waits for.
TraceReturnWaits ==
    /\ ~Idle /\ Current.phase = "called" /\ ~Prints(Current.at)
    /\ inTrace[Current.at] = 0
    /\ calls' = Front(calls)
    /\ UNCHANGED <<tableVars, appVars, result, inTrace, loaded, made>>

\* ... and returns it.
TraceReturn ==
    /\ ~Idle /\ Current.phase = "called" /\ ~Prints(Current.at)
    /\ calls' = Front(calls)
    /\ UNCHANGED <<tableVars, appVars, result, inTrace, loaded, made>>

\* TraceExit and TraceExitBootServices print whatever the guard and -q say ...
TraceExit ==
    /\ Enters(Apps) /\ Current.service \in Unguarded
    /\ calls' = Append([calls EXCEPT ![Len(calls)].phase = "announcing"],
                       Activation(Output, NoDevice, entry[Output]))
    /\ UNCHANGED <<tableVars, appVars, result, inTrace, loaded, made>>

\* ... and pass the call on, with nothing left to do after it.
TraceExitCalls ==
    /\ ~Idle /\ Current.phase = "announcing"
    /\ calls' = [calls EXCEPT ![Len(calls)] =
                    Activation(Current.service, Current.device,
                               saved[Current.at][Current.service])]
    /\ UNCHANGED <<tableVars, appVars, result, inTrace, loaded, made>>

CallStep ==
    \/ CoreReturns \/ LocalLoadImage
    \/ TraceCall \/ TracePrint \/ TracePrinted \/ TraceReturn
    \/ TraceExit \/ TraceExitCalls

(***************************************************************************)
(* The hooks                                                               *)
(***************************************************************************)
\* BdsDxe's constructor, with every notification shut out.
MsBootPolicyLibConstructor ==
    /\ Idle /\ running = <<>> /\ saved[Policy]["LoadImage"] = Null
    /\ saved' = [saved EXCEPT ![Policy]["LoadImage"] = entry["LoadImage"]]
    /\ entry' = [entry EXCEPT !["LoadImage"] = Policy]
    /\ checked' = TRUE
    /\ loaded' = {}
    /\ UNCHANGED <<appVars, calls, result, inTrace, made>>

Top == running[Len(running)]
At(app, where) == Idle /\ running # <<>> /\ Top = app /\ pc[app] = where

\* The image that runs (a shell, to begin with) starts another instance, whose
\* variables are fresh.  -q is an argument of its command line.
StartApp(app) ==
    /\ Idle
    /\ pc[app] = "out"
    /\ running # <<>> => pc[Top] = "started"
    /\ running' = Append(running, app)
    /\ pc' = [pc EXCEPT ![app] = "entry"]
    /\ \E q \in BOOLEAN : quiet' = [quiet EXCEPT ![app] = q]
    /\ saved' = [saved EXCEPT ![app] = [s \in Services |-> Null]]
    /\ inTrace' = [inTrace EXCEPT ![app] = 0]
    /\ UNCHANGED <<entry, checked, field, calls, result, loaded, made>>

\* The path is built on the first volume whose own path leads back to it; whether the
\* file is there shows only when it is loaded.
BuildPathFromShellArg == Devices

\* No arguments, no volume, or the image is loaded: like any other, by a call.
LoadProgram(app) ==
    /\ At(app, "entry")
    /\ \/ /\ pc' = [pc EXCEPT ![app] = "leaving"]
          /\ UNCHANGED calls
       \/ /\ pc' = [pc EXCEPT ![app] = "loading"]
          /\ \E d \in BuildPathFromShellArg :
                calls' = <<Activation("LoadImage", d, entry["LoadImage"])>>
    /\ UNCHANGED <<tableVars, running, field, quiet, result, inTrace, loaded, made>>

\* The status of LoadImage is the one thing known of the image.
ProgramLoaded(app) ==
    /\ At(app, "loading")
    /\ pc' = [pc EXCEPT ![app] = IF result = "ok" THEN "save" ELSE "leaving"]
    /\ field' = [field EXCEPT ![app] = 1]
    /\ UNCHANGED <<tableVars, running, quiet, callVars>>

\* Mutant: the pointer is replaced without having been saved.
HookSaveNothing(app) ==
    /\ At(app, "save")
    /\ pc' = [pc EXCEPT ![app] = "replace"]
    /\ UNCHANGED <<tableVars, running, field, quiet, callVars>>

\* HOOK: save the pointer, then replace it.
HookSave(app) ==
    /\ At(app, "save")
    /\ saved' = [saved EXCEPT ![app][Hooked[field[app]]] = entry[Hooked[field[app]]]]
    /\ pc' = [pc EXCEPT ![app] = "replace"]
    /\ UNCHANGED <<entry, checked, running, field, quiet, callVars>>

HookReplace(app) ==
    /\ At(app, "replace")
    /\ entry' = [entry EXCEPT ![Hooked[field[app]]] = app]
    /\ checked' = FALSE
    /\ field' = [field EXCEPT ![app] = @ + 1]
    /\ pc' = [pc EXCEPT ![app] = IF field[app] < Len(Hooked) THEN "save" ELSE "hooked"]
    /\ UNCHANGED <<saved, running, quiet, callVars>>

\* FixCrc, then the image is started through the saved pointer.
FixCrcAndStart(app) ==
    /\ At(app, "hooked")
    /\ checked' = TRUE
    /\ pc' = [pc EXCEPT ![app] = "started"]
    /\ UNCHANGED <<entry, saved, running, field, quiet, callVars>>

\* StartImage returns.
ProgramReturns(app) ==
    /\ At(app, "started")
    /\ field' = [field EXCEPT ![app] = 1]
    /\ pc' = [pc EXCEPT ![app] = "unhook"]
    /\ UNCHANGED <<tableVars, running, quiet, callVars>>

\* Mutant: the firmware's own pointer is written back.
UnhookAll(app) ==
    /\ At(app, "unhook")
    /\ entry' = [entry EXCEPT ![Hooked[field[app]]] = Core]
    /\ checked' = FALSE
    /\ field' = [field EXCEPT ![app] = @ + 1]
    /\ pc' = [pc EXCEPT ![app] = IF field[app] < Len(Hooked) THEN "unhook" ELSE "unhooked"]
    /\ UNCHANGED <<saved, running, quiet, callVars>>

\* UNHOOK: the saved pointer is written back, whatever stands there by now.
Unhook(app) ==
    /\ At(app, "unhook")
    /\ entry' = [entry EXCEPT ![Hooked[field[app]]] = saved[app][Hooked[field[app]]]]
    /\ checked' = FALSE
    /\ field' = [field EXCEPT ![app] = @ + 1]
    /\ pc' = [pc EXCEPT ![app] = IF field[app] < Len(Hooked) THEN "unhook" ELSE "unhooked"]
    /\ UNCHANGED <<saved, running, quiet, callVars>>

FixCrcAndLeave(app) ==
    /\ At(app, "unhooked")
    /\ checked' = TRUE
    /\ pc' = [pc EXCEPT ![app] = "leaving"]
    /\ UNCHANGED <<entry, saved, running, field, quiet, callVars>>

\* The application returns and is unloaded.
Leave(app) ==
    /\ At(app, "leaving")
    /\ running' = Front(running)
    /\ pc' = [pc EXCEPT ![app] = "out"]
    /\ UNCHANGED <<tableVars, field, quiet, callVars>>

AppStep(app) ==
    \/ LoadProgram(app) \/ ProgramLoaded(app)
    \/ HookSave(app) \/ HookReplace(app) \/ FixCrcAndStart(app)
    \/ ProgramReturns(app)
    \/ Unhook(app) \/ FixCrcAndLeave(app) \/ Leave(app)

Init ==
    /\ entry = [s \in Services |-> Core]
    /\ saved = [w \in Wrappers |-> [s \in Services |-> Null]]
    /\ checked = TRUE
    /\ running = <<>> /\ pc = [a \in Apps |-> "out"] /\ field = [a \in Apps |-> 1]
    /\ quiet = [a \in Apps |-> FALSE] /\ inTrace = [a \in Apps |-> 0]
    /\ calls = <<>> /\ result = "ok" /\ loaded = {} /\ made = 0

Next ==
    \/ MsBootPolicyLibConstructor
    \/ CallService
    \/ CallStep
    \/ \E app \in Apps : StartApp(app) \/ AppStep(app)

Spec == Init /\ [][Next]_vars

\* A call runs until it returns: nothing else runs meanwhile.
FairSpec == Spec /\ WF_vars(CallStep)

(***************************************************************************)
(* Properties                                                              *)
(***************************************************************************)
\* Type correctness of pointers, guards and activations.
TypeOk ==
    /\ entry \in [Services -> Wrappers \cup {Core}]
    /\ saved \in [Wrappers -> [Services -> Wrappers \cup {Core, Null}]]
    /\ running \in Seq(Apps) /\ field \in [Apps -> 1..(Len(Hooked) + 1)]
    /\ inTrace \in [Apps -> {0, 1}]
    /\ result \in {"ok", "error"} /\ loaded \subseteq Devices

Live(w) == w = Policy \/ \E i \in DOMAIN running : running[i] = w

\* No call ever goes through a pointer that was not saved, or into the code of an
\* application that has been unloaded: HOOK saves before it replaces, UNHOOK restores
\* before the application returns, and a nested instance is gone before its caller is.
CallsLand ==
    \A i \in DOMAIN calls : calls[i].at = Core \/ (calls[i].at # Null /\ Live(calls[i].at))

\* No image is loaded from a device that policy excludes, whichever applications have
\* hooked LoadImage over the filter, restored it, or called it through their wrapper.
PolicyEnforced ==
    \A d \in loaded :
        d \in SdCards \/ (d \in UsbDevices /\ UsbBoot = "off")
            => saved[Policy]["LoadImage"] = Null

\* The tables' checksums are right whenever no instance is in the middle of writing to
\* them (every HOOK and UNHOOK is followed by FixCrc).
ChecksumsRight ==
    (\A a \in Apps : pc[a] \notin {"save", "replace", "hooked", "unhook", "unhooked"}) => checked

\* Printing from inside a wrapper calls services, and so wrappers, again.  The guard of
\* each instance bounds that, also below the two wrappers that print without it: a call
\* is never deeper than the wrappers of a call times the wrappers that may be printing,
\* and one such wrapper under them.
DepthBounded == Len(calls) <= (Len(running) + 1) * (Len(running) + 1) + 1

\* Every call returns, however many wrappers trace it.
CallReturns == ~Idle ~> Idle

\* The wrappers in front of service s are those of q: its pointer leads to the first,
\* what each has saved to the next, and the last one calls the firmware.
InFront(q, s) ==
    /\ \A i \in DOMAIN q : q[i] = IF i = 1 THEN entry[s] ELSE saved[q[i - 1]][s]
    /\ (IF q = <<>> THEN entry[s] ELSE saved[q[Len(q)]][s]) \notin Wrappers

\* The chain of wrappers before each service, read off the pointers.
PointerChain ==
    [s \in Services |-> CHOOSE q \in SeqOf(Wrappers, Len(running) + 1) : InFront(q, s)]

Chain == INSTANCE ServiceChain WITH Wrappers <- Wrappers, Services <- Services,
                                    chain <- PointerChain

\* The two pointers of each wrapper implement a stack of wrappers: hooking puts one on
\* top, and unhooking takes exactly that one away again.
ImplementsChain == Chain!Spec
=============================================================================
