------------------------- MODULE ServiceHooks_proofs -------------------------
(***************************************************************************)
(* For any number of services and of nested instances of BootLaunchApp: no *)
(* call goes through a pointer that was not saved or into an application   *)
(* that has been unloaded, and no image is loaded from a device that       *)
(* policy excludes.                                                        *)
(*                                                                         *)
(* The argument: the instances form a stack in which all but the innermost *)
(* have hooked every service, so the pointer before a service, and each    *)
(* pointer a wrapper has saved, is the wrapper next in the stack, and the  *)
(* boot policy's filter lies under all of them.                            *)
(*                                                                         *)
(* From the same stack: how deep calls nest (a call only goes down in it   *)
(* until some wrapper prints, and no instance prints twice), and that the  *)
(* pointers implement ServiceChain (they spell out the stack, and nothing  *)
(* else can be read off them).                                             *)
(***************************************************************************)
EXTENDS ServiceHooks, TLAPS, FiniteSetTheorems, SequenceTheorems

Pcs == {"out", "entry", "loading", "save", "replace", "hooked", "started",
        "unhook", "unhooked", "leaving"}

Activations == [service : Services, device : Devices \cup {NoDevice},
                at : Wrappers \cup {Core, Null},
                phase : {"enter", "called", "printing", "announcing"}, status : {"ok", "error"}]

\* An instance's wrapper stands before service s, or under a later instance's.
HookedBy(app, s) ==
    \E j \in DOMAIN Hooked :
        /\ Hooked[j] = s
        /\ \/ pc[app] \in {"save", "replace"} /\ j < field[app]
           \/ pc[app] \in {"hooked", "started"}
           \/ pc[app] = "unhook" /\ j >= field[app]

Filtered == saved[Policy]["LoadImage"] # Null

\* What lies under all instances, and what under the i-th.
Base(s) == IF s = "LoadImage" /\ Filtered THEN Policy ELSE Core
Under(i, s) == IF i = 1 THEN Base(s) ELSE running[i - 1]

TypesOk ==
    /\ entry \in [Services -> Wrappers \cup {Core}]
    /\ saved \in [Wrappers -> [Services -> Wrappers \cup {Core, Null}]]
    /\ running \in Seq(Apps) /\ pc \in [Apps -> Pcs]
    /\ field \in [Apps -> 1..(Len(Hooked) + 1)]

\* The instances under way are a stack; all but the innermost have started their image.
StackOk ==
    /\ \A i, j \in DOMAIN running : running[i] = running[j] => i = j
    /\ \A i \in DOMAIN running : pc[running[i]] # "out"
    /\ \A i \in DOMAIN running : i < Len(running) => pc[running[i]] = "started"
    /\ \A a \in Apps : pc[a] \in {"save", "replace", "unhook"} => field[a] \in 1..Len(Hooked)

\* The wrapper next in the stack is what each pointer holds.
ChainOk ==
    /\ \A s \in Services :
          entry[s] = IF running = <<>> THEN Base(s)
                     ELSE IF HookedBy(Top, s) THEN Top ELSE Under(Len(running), s)
    /\ \A i \in DOMAIN running, s \in Services :
          HookedBy(running[i], s) => saved[running[i]][s] = Under(i, s)
    /\ \A i \in DOMAIN running :
          pc[running[i]] = "replace" =>
              saved[running[i]][Hooked[field[running[i]]]] = Under(i, Hooked[field[running[i]]])
    /\ saved[Policy]["LoadImage"] \in {Null, Core}

PointersOk == TypesOk /\ StackOk /\ ChainOk

\* Pointer p may be called for service s.
Lands(s, p) ==
    \/ p = Core
    \/ p = Policy /\ s = "LoadImage" /\ Filtered
    \/ \E i \in DOMAIN running : p = running[i] /\ HookedBy(running[i], s)

Excluded(d) == d \in SdCards \/ (d \in UsbDevices /\ UsbBoot = "off")

ActivationOk(c) ==
    /\ Lands(c.service, c.at)
    /\ c.phase # "enter" => c.at \in Apps
    /\ c.service = "LoadImage" => c.device \in Devices
    /\ c.service = "LoadImage" /\ c.at = Core /\ Filtered => ~Excluded(c.device)

CallsOk ==
    /\ calls \in Seq(Activations)
    /\ \A k \in DOMAIN calls : ActivationOk(calls[k])

\* An activation that prints holds its instance's guard, and no other does.
GuardsOk ==
    /\ inTrace \in [Apps -> {0, 1}]
    /\ \A k \in DOMAIN calls : calls[k].phase = "printing" => inTrace[calls[k].at] = 1
    /\ \A j, k \in DOMAIN calls :
          calls[j].phase = "printing" /\ calls[k].phase = "printing" /\ calls[j].at = calls[k].at
              => j = k

ResultsOk == result \in {"ok", "error"} /\ loaded \subseteq Devices

Inv == PointersOk /\ CallsOk /\ GuardsOk /\ ResultsOk /\ PolicyEnforced

-----------------------------------------------------------------------------

LEMMA FrontFacts ==
  ASSUME NEW S, NEW q \in Seq(S), q # <<>>
  PROVE  /\ Len(q) \in Nat \ {0} /\ Front(q) \in Seq(S) /\ Len(Front(q)) = Len(q) - 1
         /\ \A i \in 1..(Len(q) - 1) : Front(q)[i] = q[i]
         /\ DOMAIN Front(q) = 1..(Len(q) - 1) /\ DOMAIN q = 1..Len(q)
  BY SMTT(30) DEF Front

LEMMA AppendFacts ==
  ASSUME NEW S, NEW q \in Seq(S), NEW x \in S
  PROVE  /\ Append(q, x) \in Seq(S) /\ Len(Append(q, x)) = Len(q) + 1 /\ Len(q) \in Nat
         /\ \A i \in 1..Len(q) : Append(q, x)[i] = q[i]
         /\ Append(q, x)[Len(q) + 1] = x
         /\ DOMAIN Append(q, x) = 1..(Len(q) + 1) /\ DOMAIN q = 1..Len(q)
  OBVIOUS

LEMMA HookedFacts ==
  /\ Len(Hooked) \in Nat \ {0} /\ DOMAIN Hooked = 1..Len(Hooked)
  /\ \A j \in 1..Len(Hooked) : Hooked[j] \in Services
  /\ \A s \in Services : \E j \in 1..Len(Hooked) : Hooked[j] = s
  BY ConstantsAssumption DEF Services

LEMMA NamesDiffer ==
  /\ Policy \notin Apps /\ Core \notin Apps /\ Null \notin Apps
  /\ Policy # Core /\ Policy # Null /\ Core # Null /\ NoDevice \notin Devices
  /\ "LoadImage" \in Services /\ Output \in Services /\ Output # "LoadImage"
  /\ Output \notin Unguarded
  BY ConstantsAssumption DEF Policy, Core, Null

\* The pointer before a service, and one a wrapper has saved, may be called; with the
\* filter in place neither is the firmware's LoadImage.
LEMMA EntryLands ==
  ASSUME PointersOk, NEW s \in Services
  PROVE  /\ Lands(s, entry[s])
         /\ s = "LoadImage" /\ Filtered => entry[s] # Core
  <1>1. CASE running = <<>>
    BY <1>1, NamesDiffer DEF PointersOk, ChainOk, Base, Lands
  <1>2. CASE running # <<>>
    <2>1. /\ Len(running) \in Nat \ {0} /\ DOMAIN running = 1..Len(running)
          /\ \A i \in DOMAIN running : running[i] \in Apps
      BY <1>2 DEF PointersOk, TypesOk
    <2>2. CASE HookedBy(Top, s)
      BY <1>2, <2>1, <2>2, NamesDiffer DEF PointersOk, ChainOk, Lands, Top
    <2>3. CASE ~HookedBy(Top, s) /\ Len(running) = 1
      BY <1>2, <2>1, <2>3, NamesDiffer DEF PointersOk, ChainOk, Base, Under, Lands
    <2>4. CASE ~HookedBy(Top, s) /\ Len(running) # 1
      <3>1. pc[running[Len(running) - 1]] = "started" /\ Len(running) - 1 \in DOMAIN running
        BY <2>1, <2>4 DEF PointersOk, StackOk
      <3>2. HookedBy(running[Len(running) - 1], s)
        BY <3>1, HookedFacts DEF HookedBy
      <3>3. entry[s] = running[Len(running) - 1]
        BY <1>2, <2>1, <2>4 DEF PointersOk, ChainOk, Under
      <3> QED BY <2>1, <3>1, <3>2, <3>3, NamesDiffer DEF Lands
    <2> QED BY <2>2, <2>3, <2>4
  <1> QED BY <1>1, <1>2

LEMMA SavedLands ==
  ASSUME PointersOk, NEW s \in Services, NEW i \in DOMAIN running, HookedBy(running[i], s)
  PROVE  /\ Lands(s, saved[running[i]][s])
         /\ s = "LoadImage" /\ Filtered => saved[running[i]][s] # Core
  <1>1. /\ DOMAIN running = 1..Len(running) /\ Len(running) \in Nat
        /\ \A j \in DOMAIN running : running[j] \in Apps
    BY DEF PointersOk, TypesOk
  <1>2. saved[running[i]][s] = Under(i, s)
    BY DEF PointersOk, ChainOk
  <1>3. CASE i = 1
    BY <1>2, <1>3, NamesDiffer DEF Under, Base, Lands
  <1>4. CASE i # 1
    <2>1. pc[running[i - 1]] = "started" /\ i - 1 \in DOMAIN running
      BY <1>1, <1>4 DEF PointersOk, StackOk
    <2>2. HookedBy(running[i - 1], s)
      BY <2>1, HookedFacts DEF HookedBy
    <2> QED BY <1>1, <1>2, <1>4, <2>1, <2>2, NamesDiffer DEF Under, Lands
  <1> QED BY <1>3, <1>4

-----------------------------------------------------------------------------
\* The pointers stay as they are while anything is being called.

LEMMA PointersKept ==
  ASSUME PointersOk, UNCHANGED <<tableVars, appVars>>
  PROVE  /\ PointersOk'
         /\ \A s, p : Lands(s, p)' <=> Lands(s, p)
         /\ \A c : ActivationOk(c)' <=> ActivationOk(c)
  BY DEF PointersOk, TypesOk, StackOk, ChainOk, HookedBy, Base, Under, Filtered, Top, Lands,
         ActivationOk, Excluded, tableVars, appVars, Wrappers

LEMMA CallsFacts ==
  ASSUME CallsOk, calls # <<>>
  PROVE  /\ Len(calls) \in Nat \ {0} /\ DOMAIN calls = 1..Len(calls)
         /\ Current \in Activations /\ ActivationOk(Current)
  BY DEF CallsOk, Current

\* A call's phase and the pointer it is at are all that changes of it.
LEMMA TopReplaced ==
  ASSUME CallsOk, calls # <<>>, NEW c \in Activations
  PROVE  LET q == [calls EXCEPT ![Len(calls)] = c]
         IN  /\ q \in Seq(Activations) /\ Len(q) = Len(calls) /\ DOMAIN q = DOMAIN calls
             /\ q[Len(calls)] = c
             /\ \A k \in DOMAIN calls : k # Len(calls) => q[k] = calls[k]
  BY CallsFacts DEF CallsOk

\* The invariant holds when the firmware starts: nobody has hooked anything and
\* nobody calls.
THEOREM InitInv == Init => Inv
  <1> SUFFICES ASSUME Init PROVE Inv
    OBVIOUS
  <1> USE NamesDiffer, HookedFacts DEF Init
  <1>1. TypesOk
    BY DEF TypesOk, Pcs, Wrappers
  <1>2. StackOk
    BY DEF StackOk
  <1>3. ChainOk
    BY DEF ChainOk, Base, Filtered, Wrappers
  <1>4. CallsOk /\ GuardsOk /\ ResultsOk /\ PolicyEnforced
    BY DEF CallsOk, GuardsOk, ResultsOk, PolicyEnforced
  <1> QED BY <1>1, <1>2, <1>3, <1>4 DEF Inv, PointersOk

-----------------------------------------------------------------------------
\* The steps of calls.

LEMMA CallServiceInv == Inv /\ CallService => Inv'
  <1> SUFFICES ASSUME Inv, NEW s \in Services, NEW d \in Devices \cup {NoDevice},
                      s = "LoadImage" => d \in Devices, Call(s, d)
               PROVE  Inv'
    BY NamesDiffer DEF CallService
  <1>1. PointersOk' /\ \A c : ActivationOk(c)' <=> ActivationOk(c)
    BY PointersKept DEF Inv, Call
  <1>2. Activation(s, d, entry[s]) \in Activations
    BY DEF Activation, Activations, Inv, PointersOk, TypesOk
  <1>3. ActivationOk(Activation(s, d, entry[s]))
    BY EntryLands, Zenon DEF ActivationOk, Activation, Inv
  <1>4. CallsOk'
    BY <1>1, <1>2, <1>3 DEF CallsOk, Call
  <1>5. GuardsOk'
    BY DEF GuardsOk, Call, Inv, Activation
  <1> QED BY <1>1, <1>4, <1>5 DEF Inv, ResultsOk, PolicyEnforced, Call, tableVars

\* The innermost activation returns.
LEMMA PopCalls ==
  ASSUME CallsOk, calls # <<>>, UNCHANGED <<tableVars, appVars>>, PointersOk,
         calls' = Front(calls)
  PROVE  /\ CallsOk'
         /\ DOMAIN calls' = 1..(Len(calls) - 1)
         /\ \A k \in DOMAIN calls' : k \in DOMAIN calls /\ calls'[k] = calls[k]
  <1>1. \A c : ActivationOk(c)' <=> ActivationOk(c)
    BY PointersKept
  <1>2. /\ Front(calls) \in Seq(Activations) /\ DOMAIN Front(calls) = 1..(Len(calls) - 1)
        /\ \A k \in DOMAIN Front(calls) : k \in DOMAIN calls /\ Front(calls)[k] = calls[k]
    BY FrontFacts, CallsFacts DEF CallsOk
  <1> QED BY <1>1, <1>2 DEF CallsOk

LEMMA CoreReturnsInv == Inv /\ CoreReturns => Inv'
  <1> SUFFICES ASSUME Inv, CoreReturns PROVE Inv'
    OBVIOUS
  <1>0. calls # <<>> /\ Current.at = Core /\ CallsOk /\ PointersOk
    BY DEF CoreReturns, Enters, Idle, Inv
  <1>1. PointersOk' /\ (Filtered' <=> Filtered)
    BY PointersKept DEF Inv, CoreReturns, tableVars, Filtered
  <1>2. CallsOk' /\ \A k \in DOMAIN calls' : k \in DOMAIN calls /\ calls'[k] = calls[k]
    BY PopCalls, <1>0 DEF CoreReturns
  <1>3. GuardsOk'
    BY <1>2 DEF GuardsOk, Inv, CoreReturns
  <1>4. Current.service = "LoadImage" => Current.device \in Devices
                                         /\ (Filtered => ~Excluded(Current.device))
    BY <1>0, CallsFacts DEF ActivationOk
  <1>5. ResultsOk' /\ PolicyEnforced'
    BY <1>4 DEF Inv, ResultsOk, PolicyEnforced, CoreReturns, tableVars, Filtered, Excluded
  <1> QED BY <1>1, <1>2, <1>3, <1>5 DEF Inv

LEMMA LocalLoadImageInv == Inv /\ LocalLoadImage => Inv'
  <1> SUFFICES ASSUME Inv, LocalLoadImage PROVE Inv'
    OBVIOUS
  <1>0. /\ calls # <<>> /\ Current.at = Policy /\ Current.phase = "enter"
        /\ CallsOk /\ PointersOk /\ GuardsOk
    BY DEF LocalLoadImage, Enters, Idle, Inv
  <1>1. PointersOk' /\ \A c : ActivationOk(c)' <=> ActivationOk(c)
    BY PointersKept DEF Inv, LocalLoadImage
  <1>2. ResultsOk' /\ PolicyEnforced'
    BY DEF Inv, ResultsOk, PolicyEnforced, LocalLoadImage, tableVars
  <1>3. CASE calls' = Front(calls)
    <2>1. CallsOk' /\ \A k \in DOMAIN calls' : k \in DOMAIN calls /\ calls'[k] = calls[k]
      BY PopCalls, <1>0, <1>3 DEF LocalLoadImage
    <2>2. GuardsOk'
      BY <2>1, <1>0 DEF GuardsOk, LocalLoadImage
    <2> QED BY <1>1, <1>2, <2>1, <2>2 DEF Inv
  <1>4. CASE /\ MsBootPolicyLibIsDevicePathBootable(Current.device)
             /\ calls' = [calls EXCEPT ![Len(calls)].at = saved[Policy]["LoadImage"]]
    <2> DEFINE c == [Current EXCEPT !.at = saved[Policy]["LoadImage"]]
    <2>1. Current \in Activations /\ ActivationOk(Current) /\ Len(calls) \in DOMAIN calls
      BY <1>0, CallsFacts
    <2>2. Current.service = "LoadImage" /\ saved[Policy]["LoadImage"] = Core
      BY <1>0, <2>1, NamesDiffer DEF ActivationOk, Lands, Filtered, PointersOk, ChainOk,
                                     TypesOk
    <2>3. c \in Activations
      BY <2>1, <2>2 DEF Activations
    <2>4. ~Excluded(Current.device)
      BY <1>4 DEF MsBootPolicyLibIsDevicePathBootable, Excluded
    <2>5. /\ c.service = Current.service /\ c.device = Current.device
          /\ c.phase = "enter" /\ c.at = Core
      BY <1>0, <2>1, <2>2 DEF Activations
    <2>6. ActivationOk(c)
      BY <2>1, <2>2, <2>4, <2>5 DEF ActivationOk, Lands
    <2>7. calls' = [calls EXCEPT ![Len(calls)] = c]
      BY <1>4, <2>1 DEF Current
    <2> HIDE DEF c
    <2>8. /\ calls' \in Seq(Activations) /\ DOMAIN calls' = DOMAIN calls
          /\ calls'[Len(calls)] = c
          /\ \A k \in DOMAIN calls : k # Len(calls) => calls'[k] = calls[k]
      BY <1>0, <2>3, <2>7, TopReplaced
    <2>9. CallsOk'
      BY <1>1, <2>6, <2>8, <1>0 DEF CallsOk
    <2>10. inTrace' = inTrace
      BY DEF LocalLoadImage
    <2>11. \A k \in DOMAIN calls' : calls'[k].phase = "printing" => k \in DOMAIN calls /\ calls'[k] = calls[k]
      BY <2>8, <2>5
    <2>12. GuardsOk'
      BY <2>10, <2>11, <1>0 DEF GuardsOk
    <2> QED BY <1>1, <1>2, <2>9, <2>12 DEF Inv
  <1> QED BY <1>3, <1>4 DEF LocalLoadImage

LEMMA ReplaceAndAppend ==
  ASSUME NEW S, NEW q \in Seq(S), q # <<>>, NEW c \in S, NEW n \in S
  PROVE  LET r == Append([q EXCEPT ![Len(q)] = c], n)
         IN  /\ r \in Seq(S) /\ DOMAIN r = 1..(Len(q) + 1)
             /\ r[Len(q)] = c /\ r[Len(q) + 1] = n
             /\ \A k \in DOMAIN q : k # Len(q) => r[k] = q[k]
  <1> DEFINE p == [q EXCEPT ![Len(q)] = c]
  <1>1. Len(q) \in Nat \ {0} /\ DOMAIN q = 1..Len(q) /\ Len(q) \in 1..Len(q)
    OBVIOUS
  <1>2. /\ p \in Seq(S) /\ Len(p) = Len(q) /\ DOMAIN p = DOMAIN q /\ p[Len(q)] = c
        /\ \A k \in DOMAIN q : k # Len(q) => p[k] = q[k]
    BY <1>1
  <1> HIDE DEF p
  <1>3. /\ Append(p, n) \in Seq(S) /\ DOMAIN Append(p, n) = 1..(Len(q) + 1)
        /\ \A k \in 1..Len(q) : Append(p, n)[k] = p[k]
        /\ Append(p, n)[Len(q) + 1] = n
    BY <1>1, <1>2, AppendFacts
  <1>4. /\ Append(p, n) \in Seq(S) /\ DOMAIN Append(p, n) = 1..(Len(q) + 1)
        /\ Append(p, n)[Len(q)] = c /\ Append(p, n)[Len(q) + 1] = n
        /\ \A k \in DOMAIN q : k # Len(q) => Append(p, n)[k] = q[k]
    BY <1>1, <1>2, <1>3
  <1> QED BY <1>4 DEF p

\* The innermost activation goes on to c and makes the call n.
LEMMA PushCalls ==
  ASSUME CallsOk, calls # <<>>, PointersOk, UNCHANGED <<tableVars, appVars>>,
         NEW c \in Activations, NEW n \in Activations, ActivationOk(c), ActivationOk(n),
         calls' = Append([calls EXCEPT ![Len(calls)] = c], n)
  PROVE  /\ CallsOk'
         /\ DOMAIN calls' = 1..(Len(calls) + 1) /\ Len(calls) \in Nat
         /\ calls'[Len(calls)] = c /\ calls'[Len(calls) + 1] = n
         /\ \A k \in DOMAIN calls : k # Len(calls) => calls'[k] = calls[k]
  <1>1. \A a : ActivationOk(a)' <=> ActivationOk(a)
    BY PointersKept
  <1>2. calls \in Seq(Activations) /\ \A k \in DOMAIN calls : ActivationOk(calls[k])
    BY DEF CallsOk
  <1>3. Len(calls) \in Nat /\ DOMAIN calls = 1..Len(calls)
    BY <1>2
  <1>4. /\ calls' \in Seq(Activations) /\ DOMAIN calls' = 1..(Len(calls) + 1)
        /\ calls'[Len(calls)] = c /\ calls'[Len(calls) + 1] = n
        /\ \A k \in DOMAIN calls : k # Len(calls) => calls'[k] = calls[k]
    BY <1>2, ReplaceAndAppend
  <1>5. \A k \in 1..(Len(calls) + 1) : k \in DOMAIN calls \/ k = Len(calls) + 1
    BY <1>3
  <1>6. \A k \in DOMAIN calls' : ActivationOk(calls'[k])
    BY <1>2, <1>4, <1>5
  <1>7. CallsOk'
    BY <1>1, <1>4, <1>6 DEF CallsOk
  <1> QED BY <1>3, <1>4, <1>7

LEMMA TraceCallInv == Inv /\ TraceCall => Inv'
  <1> SUFFICES ASSUME Inv, TraceCall PROVE Inv'
    OBVIOUS
  <1> DEFINE c == [Current EXCEPT !.phase = "called"]
             n == Activation(Current.service, Current.device, saved[Current.at][Current.service])
  <1>0. /\ calls # <<>> /\ Current.at \in Apps /\ CallsOk /\ PointersOk /\ GuardsOk
    BY DEF TraceCall, Enters, Idle, Inv
  <1>1. PointersOk' /\ ResultsOk' /\ PolicyEnforced'
    BY PointersKept DEF Inv, TraceCall, ResultsOk, PolicyEnforced, tableVars
  <1>2. Current \in Activations /\ ActivationOk(Current) /\ Len(calls) \in DOMAIN calls
    BY <1>0, CallsFacts
  <1>3. /\ c \in Activations /\ c.phase = "called" /\ c.at = Current.at
        /\ c.service = Current.service /\ c.device = Current.device
    BY <1>2 DEF Activations
  <1>4. ActivationOk(c)
    BY <1>0, <1>2, <1>3, NamesDiffer DEF ActivationOk
  <1>5. PICK i \in DOMAIN running :
            Current.at = running[i] /\ HookedBy(running[i], Current.service)
    BY <1>0, <1>2, NamesDiffer DEF ActivationOk, Lands
  <1>6. Current.service \in Services /\ Current.device \in Devices \cup {NoDevice}
    BY <1>2 DEF Activations
  <1>7. /\ Lands(Current.service, saved[Current.at][Current.service])
        /\ Current.service = "LoadImage" /\ Filtered => saved[Current.at][Current.service] # Core
    BY <1>0, <1>5, <1>6, SavedLands
  <1>8. saved[Current.at][Current.service] \in Wrappers \cup {Core, Null}
    BY <1>0, <1>6 DEF PointersOk, TypesOk, Wrappers
  <1>9. /\ n \in Activations /\ n.phase = "enter" /\ n.service = Current.service
        /\ n.device = Current.device /\ n.at = saved[Current.at][Current.service]
    BY <1>6, <1>8 DEF Activation, Activations
  <1>10. ActivationOk(n)
    BY <1>2, <1>7, <1>9 DEF ActivationOk
  <1>11. calls' = Append([calls EXCEPT ![Len(calls)] = c], n)
    BY <1>2 DEF TraceCall, Current
  <1> HIDE DEF c, n
  <1>12. /\ CallsOk'
         /\ DOMAIN calls' = 1..(Len(calls) + 1) /\ Len(calls) \in Nat
         /\ calls'[Len(calls)] = c /\ calls'[Len(calls) + 1] = n
         /\ \A k \in DOMAIN calls : k # Len(calls) => calls'[k] = calls[k]
    BY <1>0, <1>3, <1>4, <1>9, <1>10, <1>11, PushCalls DEF TraceCall
  <1>13. \A k \in DOMAIN calls' : calls'[k].phase = "printing" =>
                                      k \in DOMAIN calls /\ calls'[k] = calls[k]
    BY <1>0, <1>3, <1>9, <1>12, CallsFacts
  <1>14. GuardsOk'
    BY <1>0, <1>13 DEF GuardsOk, TraceCall
  <1> QED BY <1>1, <1>12, <1>14 DEF Inv

LEMMA TracePrintInv == Inv /\ TracePrint => Inv'
  <1> SUFFICES ASSUME Inv, TracePrint PROVE Inv'
    OBVIOUS
  <1> DEFINE c == [Current EXCEPT !.phase = "printing", !.status = result]
             n == Activation(Output, NoDevice, entry[Output])
  <1>0. /\ calls # <<>> /\ CallsOk /\ PointersOk /\ GuardsOk /\ Current.phase = "called"
    BY DEF TracePrint, Idle, Inv
  <1>1. PointersOk' /\ ResultsOk' /\ PolicyEnforced'
    BY PointersKept DEF Inv, TracePrint, ResultsOk, PolicyEnforced, tableVars
  <1>2. Current \in Activations /\ ActivationOk(Current) /\ Len(calls) \in DOMAIN calls
    BY <1>0, CallsFacts
  <1>3. /\ c \in Activations /\ c.phase = "printing" /\ c.at = Current.at
        /\ c.service = Current.service /\ c.device = Current.device
    BY <1>2 DEF Activations, Inv, ResultsOk
  <1>4. ActivationOk(c) /\ Current.at \in Apps
    BY <1>0, <1>2, <1>3, NamesDiffer DEF ActivationOk
  <1>5. entry[Output] \in Wrappers \cup {Core, Null} /\ Lands(Output, entry[Output])
    BY <1>0, NamesDiffer, EntryLands DEF PointersOk, TypesOk
  <1>6. /\ n \in Activations /\ n.phase = "enter" /\ n.service = Output /\ n.at = entry[Output]
    BY <1>5, NamesDiffer DEF Activation, Activations
  <1>7. ActivationOk(n)
    BY <1>5, <1>6, NamesDiffer DEF ActivationOk
  <1>8. calls' = Append([calls EXCEPT ![Len(calls)] = c], n)
    BY <1>2 DEF TracePrint, Current
  <1>9. inTrace[Current.at] = 0 /\ inTrace' = [inTrace EXCEPT ![Current.at] = 1]
    BY <1>0, <1>4 DEF TracePrint, Prints, GuardsOk
  <1> HIDE DEF c, n
  <1>10. /\ CallsOk'
         /\ DOMAIN calls' = 1..(Len(calls) + 1) /\ Len(calls) \in Nat
         /\ calls'[Len(calls)] = c /\ calls'[Len(calls) + 1] = n
         /\ \A k \in DOMAIN calls : k # Len(calls) => calls'[k] = calls[k]
    BY <1>0, <1>3, <1>4, <1>6, <1>7, <1>8, PushCalls DEF TracePrint
  <1>11. \A k \in DOMAIN calls' : calls'[k].phase = "printing" =>
             \/ k = Len(calls)
             \/ k \in DOMAIN calls /\ calls'[k] = calls[k] /\ calls[k].at # Current.at
    BY <1>0, <1>6, <1>9, <1>10, CallsFacts DEF GuardsOk
  <1>12. \A k \in DOMAIN calls : calls[k].phase = "printing" => calls[k].at \in Apps
    BY <1>0 DEF CallsOk, ActivationOk
  <1>13. GuardsOk'
    BY <1>0, <1>3, <1>4, <1>9, <1>10, <1>11, <1>12 DEF GuardsOk
  <1> QED BY <1>1, <1>10, <1>13 DEF Inv

LEMMA TracePrintedInv == Inv /\ TracePrinted => Inv'
  <1> SUFFICES ASSUME Inv, TracePrinted PROVE Inv'
    OBVIOUS
  <1>0. /\ calls # <<>> /\ CallsOk /\ PointersOk /\ GuardsOk /\ Current.phase = "printing"
    BY DEF TracePrinted, Idle, Inv
  <1>1. PointersOk' /\ PolicyEnforced'
    BY PointersKept DEF Inv, TracePrinted, PolicyEnforced, tableVars
  <1>2. Current \in Activations /\ ActivationOk(Current) /\ Len(calls) \in DOMAIN calls
    BY <1>0, CallsFacts
  <1>3. ResultsOk' /\ Current.at \in Apps /\ inTrace[Current.at] = 1
    BY <1>0, <1>2 DEF Inv, ResultsOk, TracePrinted, Activations, ActivationOk, GuardsOk, Current
  <1>4. /\ CallsOk' /\ DOMAIN calls' = 1..(Len(calls) - 1)
        /\ \A k \in DOMAIN calls' : k \in DOMAIN calls /\ calls'[k] = calls[k]
    BY PopCalls, <1>0 DEF TracePrinted
  <1>5. \A k \in DOMAIN calls' : k # Len(calls)
    BY <1>0, <1>4, CallsFacts
  <1>6. \A k \in DOMAIN calls' : calls'[k].phase = "printing" => calls'[k].at # Current.at
    BY <1>0, <1>2, <1>4, <1>5 DEF GuardsOk, Current
  <1>7. \A k \in DOMAIN calls : calls[k].phase = "printing" => calls[k].at \in Apps
    BY <1>0 DEF CallsOk, ActivationOk
  <1>8. inTrace' = [inTrace EXCEPT ![Current.at] = 0]
    BY <1>3 DEF TracePrinted
  <1>9. GuardsOk'
    BY <1>0, <1>3, <1>4, <1>6, <1>7, <1>8 DEF GuardsOk
  <1> QED BY <1>1, <1>3, <1>4, <1>9 DEF Inv

LEMMA TraceReturnInv == Inv /\ TraceReturn => Inv'
  <1> SUFFICES ASSUME Inv, TraceReturn PROVE Inv'
    OBVIOUS
  <1>0. calls # <<>> /\ CallsOk /\ PointersOk /\ GuardsOk
    BY DEF TraceReturn, Idle, Inv
  <1>1. PointersOk' /\ ResultsOk' /\ PolicyEnforced'
    BY PointersKept DEF Inv, TraceReturn, ResultsOk, PolicyEnforced, tableVars
  <1>2. CallsOk' /\ \A k \in DOMAIN calls' : k \in DOMAIN calls /\ calls'[k] = calls[k]
    BY PopCalls, <1>0 DEF TraceReturn
  <1>3. GuardsOk'
    BY <1>0, <1>2 DEF GuardsOk, TraceReturn
  <1> QED BY <1>1, <1>2, <1>3 DEF Inv

LEMMA TraceExitInv == Inv /\ TraceExit => Inv'
  <1> SUFFICES ASSUME Inv, TraceExit PROVE Inv'
    OBVIOUS
  <1> DEFINE c == [Current EXCEPT !.phase = "announcing"]
             n == Activation(Output, NoDevice, entry[Output])
  <1>0. /\ calls # <<>> /\ Current.at \in Apps /\ CallsOk /\ PointersOk /\ GuardsOk
    BY DEF TraceExit, Enters, Idle, Inv
  <1>1. PointersOk' /\ ResultsOk' /\ PolicyEnforced'
    BY PointersKept DEF Inv, TraceExit, ResultsOk, PolicyEnforced, tableVars
  <1>2. Current \in Activations /\ ActivationOk(Current) /\ Len(calls) \in DOMAIN calls
    BY <1>0, CallsFacts
  <1>3. /\ c \in Activations /\ c.phase = "announcing" /\ c.at = Current.at
        /\ c.service = Current.service /\ c.device = Current.device
    BY <1>2 DEF Activations
  <1>4. ActivationOk(c)
    BY <1>0, <1>2, <1>3, NamesDiffer DEF ActivationOk
  <1>5. entry[Output] \in Wrappers \cup {Core, Null} /\ Lands(Output, entry[Output])
    BY <1>0, NamesDiffer, EntryLands DEF PointersOk, TypesOk
  <1>6. /\ n \in Activations /\ n.phase = "enter" /\ n.service = Output /\ n.at = entry[Output]
    BY <1>5, NamesDiffer DEF Activation, Activations
  <1>7. ActivationOk(n)
    BY <1>5, <1>6, NamesDiffer DEF ActivationOk
  <1>8. calls' = Append([calls EXCEPT ![Len(calls)] = c], n)
    BY <1>2 DEF TraceExit, Current
  <1> HIDE DEF c, n
  <1>9. /\ CallsOk'
        /\ DOMAIN calls' = 1..(Len(calls) + 1) /\ Len(calls) \in Nat
        /\ calls'[Len(calls)] = c /\ calls'[Len(calls) + 1] = n
        /\ \A k \in DOMAIN calls : k # Len(calls) => calls'[k] = calls[k]
    BY <1>0, <1>3, <1>4, <1>6, <1>7, <1>8, PushCalls DEF TraceExit
  <1>10. \A k \in DOMAIN calls' : calls'[k].phase = "printing" =>
                                      k \in DOMAIN calls /\ calls'[k] = calls[k]
    BY <1>0, <1>3, <1>6, <1>9, CallsFacts
  <1>11. GuardsOk'
    BY <1>0, <1>10 DEF GuardsOk, TraceExit
  <1> QED BY <1>1, <1>9, <1>11 DEF Inv

LEMMA TraceExitCallsInv == Inv /\ TraceExitCalls => Inv'
  <1> SUFFICES ASSUME Inv, TraceExitCalls PROVE Inv'
    OBVIOUS
  <1> DEFINE c == Activation(Current.service, Current.device, saved[Current.at][Current.service])
  <1>0. /\ calls # <<>> /\ Current.phase = "announcing" /\ CallsOk /\ PointersOk /\ GuardsOk
    BY DEF TraceExitCalls, Idle, Inv
  <1>1. PointersOk' /\ \A a : ActivationOk(a)' <=> ActivationOk(a)
    BY PointersKept DEF Inv, TraceExitCalls
  <1>2. ResultsOk' /\ PolicyEnforced'
    BY DEF Inv, ResultsOk, PolicyEnforced, TraceExitCalls, tableVars
  <1>3. Current \in Activations /\ ActivationOk(Current) /\ Len(calls) \in DOMAIN calls
    BY <1>0, CallsFacts
  <1>4. Current.at \in Apps
    BY <1>0, <1>3 DEF ActivationOk
  <1>5. PICK i \in DOMAIN running :
            Current.at = running[i] /\ HookedBy(running[i], Current.service)
    BY <1>3, <1>4, NamesDiffer DEF ActivationOk, Lands
  <1>6. Current.service \in Services /\ Current.device \in Devices \cup {NoDevice}
    BY <1>3 DEF Activations
  <1>7. /\ Lands(Current.service, saved[Current.at][Current.service])
        /\ Current.service = "LoadImage" /\ Filtered => saved[Current.at][Current.service] # Core
    BY <1>0, <1>5, <1>6, SavedLands
  <1>8. saved[Current.at][Current.service] \in Wrappers \cup {Core, Null}
    BY <1>4, <1>6, <1>0 DEF PointersOk, TypesOk, Wrappers
  <1>9. /\ c \in Activations /\ c.phase = "enter" /\ c.service = Current.service
        /\ c.device = Current.device /\ c.at = saved[Current.at][Current.service]
    BY <1>6, <1>8 DEF Activation, Activations
  <1>10. ActivationOk(c)
    BY <1>3, <1>7, <1>9 DEF ActivationOk
  <1>11. calls' = [calls EXCEPT ![Len(calls)] = c]
    BY DEF TraceExitCalls
  <1> HIDE DEF c
  <1>12. /\ calls' \in Seq(Activations) /\ DOMAIN calls' = DOMAIN calls
         /\ calls'[Len(calls)] = c
         /\ \A k \in DOMAIN calls : k # Len(calls) => calls'[k] = calls[k]
    BY <1>0, <1>9, <1>11, TopReplaced
  <1>13. CallsOk'
    BY <1>0, <1>1, <1>10, <1>12 DEF CallsOk
  <1>14. \A k \in DOMAIN calls' : calls'[k].phase = "printing" =>
                                      k \in DOMAIN calls /\ calls'[k] = calls[k]
    BY <1>9, <1>12
  <1>15. GuardsOk'
    BY <1>0, <1>14 DEF GuardsOk, TraceExitCalls
  <1> QED BY <1>1, <1>2, <1>13, <1>15 DEF Inv

LEMMA CallStepInv == Inv /\ CallStep => Inv'
  BY CoreReturnsInv, LocalLoadImageInv, TraceCallInv, TracePrintInv, TracePrintedInv,
     TraceReturnInv, TraceExitInv, TraceExitCallsInv DEF CallStep

-----------------------------------------------------------------------------
\* The steps of the boot policy library and of the instances: nothing is being called.

LEMMA NothingCalled ==
  ASSUME Inv, calls = <<>>, calls' = <<>>, result' = result, loaded' = loaded,
         inTrace' \in [Apps -> {0, 1}]
  PROVE  CallsOk' /\ GuardsOk' /\ ResultsOk'
  BY DEF Inv, CallsOk, GuardsOk, ResultsOk

\* The instances' own view of the stack.
LEMMA TopFacts ==
  ASSUME PointersOk, running # <<>>
  PROVE  /\ Len(running) \in Nat \ {0} /\ DOMAIN running = 1..Len(running)
         /\ Top \in Apps /\ Top = running[Len(running)]
         /\ \A i \in DOMAIN running : running[i] \in Apps
         /\ \A i \in DOMAIN running : i # Len(running) => running[i] # Top
  BY DEF PointersOk, TypesOk, StackOk, Top

LEMMA ConstructorInv == Inv /\ MsBootPolicyLibConstructor => Inv'
  <1> SUFFICES ASSUME Inv, MsBootPolicyLibConstructor PROVE Inv'
    OBVIOUS
  <1> USE NamesDiffer, HookedFacts DEF Inv, MsBootPolicyLibConstructor, appVars
  <1>1. entry["LoadImage"] = Core
    BY DEF PointersOk, ChainOk, Base, Filtered
  <1>2. TypesOk'
    BY <1>1 DEF PointersOk, TypesOk, Wrappers
  <1>3. StackOk'
    BY DEF PointersOk, StackOk
  <1>4. Filtered'
    BY <1>1 DEF PointersOk, TypesOk, Filtered, Wrappers
  <1>5. ChainOk'
    BY <1>1, <1>4 DEF PointersOk, TypesOk, ChainOk, Base, Filtered, Wrappers
  <1>6. CallsOk' /\ GuardsOk' /\ ResultsOk' /\ PolicyEnforced'
    BY DEF CallsOk, GuardsOk, ResultsOk, PolicyEnforced, Idle
  <1> QED BY <1>2, <1>3, <1>5, <1>6 DEF PointersOk

\* What a step of the innermost instance must keep.
LEMMA TopStep ==
  ASSUME PointersOk, running # <<>>, running' = running, TypesOk', NEW t \in Apps, t = Top,
         pc'[t] # "out",
         pc'[t] \in {"save", "replace", "unhook"} => field'[t] \in 1..Len(Hooked),
         \A a \in Apps \ {t} : pc'[a] = pc[a] /\ field'[a] = field[a] /\ saved'[a] = saved[a],
         saved'[Policy] = saved[Policy],
         \A s \in Services :
            entry'[s] = IF HookedBy(t, s)' THEN t ELSE Under(Len(running), s),
         \A s \in Services : HookedBy(t, s)' => saved'[t][s] = Under(Len(running), s),
         pc'[t] = "replace" =>
            saved'[t][Hooked[field'[t]]] = Under(Len(running), Hooked[field'[t]])
  PROVE  PointersOk'
  <1>1. /\ Len(running) \in Nat \ {0} /\ DOMAIN running = 1..Len(running)
        /\ t = running[Len(running)] /\ \A i \in DOMAIN running : running[i] \in Apps
        /\ \A i \in DOMAIN running : i # Len(running) => running[i] \in Apps \ {t}
    BY TopFacts
  <1>2. Top' = t
    BY <1>1 DEF Top
  <1>3. /\ \A s : Base(s)' = Base(s)
        /\ \A i, s : Under(i, s)' = Under(i, s)
    BY DEF Base, Under, Filtered
  <1>4. \A a \in Apps \ {t}, s \in Services : HookedBy(a, s)' <=> HookedBy(a, s)
    BY DEF HookedBy
  <1>5. StackOk'
    <2>1. \A i \in DOMAIN running : pc'[running[i]] # "out"
      BY <1>1 DEF PointersOk, StackOk
    <2>2. \A i \in DOMAIN running : i < Len(running) => pc'[running[i]] = "started"
      BY <1>1 DEF PointersOk, StackOk
    <2>3. \A a \in Apps : pc'[a] \in {"save", "replace", "unhook"} => field'[a] \in 1..Len(Hooked)
      BY DEF PointersOk, StackOk
    <2> QED BY <2>1, <2>2, <2>3 DEF PointersOk, StackOk
  <1>6. \A s \in Services : (entry[s] = IF running = <<>> THEN Base(s)
                             ELSE IF HookedBy(Top, s) THEN Top ELSE Under(Len(running), s))'
    BY <1>2, <1>3
  <1>7. ASSUME NEW i \in DOMAIN running, NEW s \in Services, HookedBy(running[i], s)'
        PROVE  saved'[running[i]][s] = Under(i, s)
    <2>1. CASE i = Len(running)
      BY <1>1, <1>7, <2>1
    <2>2. CASE i # Len(running)
      <3>1. HookedBy(running[i], s) /\ saved'[running[i]] = saved[running[i]]
        BY <1>1, <1>4, <1>7, <2>2
      <3> QED BY <3>1 DEF PointersOk, ChainOk
    <2> QED BY <2>1, <2>2
  <1>8. ASSUME NEW i \in DOMAIN running, pc'[running[i]] = "replace"
        PROVE  saved'[running[i]][Hooked[field'[running[i]]]] = Under(i, Hooked[field'[running[i]]])
    <2>1. CASE i = Len(running)
      BY <1>1, <1>8, <2>1
    <2>2. CASE i # Len(running)
      BY <1>1, <1>8, <2>2 DEF PointersOk, ChainOk
    <2> QED BY <2>1, <2>2
  <1>9. ChainOk'
    BY <1>3, <1>6, <1>7, <1>8 DEF PointersOk, ChainOk
  <1> QED BY <1>5, <1>9 DEF PointersOk

LEMMA AtFacts ==
  ASSUME Inv, NEW app \in Apps, NEW where, At(app, where)
  PROVE  /\ calls = <<>> /\ running # <<>> /\ Top = app /\ pc[app] = where
         /\ PointersOk /\ TypesOk /\ pc \in [Apps -> Pcs] /\ app # Policy
         /\ field[app] \in 1..(Len(Hooked) + 1)
         /\ \A s \in Services :
               /\ entry[s] = IF HookedBy(app, s) THEN app ELSE Under(Len(running), s)
               /\ HookedBy(app, s) => saved[app][s] = Under(Len(running), s)
  BY TopFacts, NamesDiffer DEF At, Idle, Inv, PointersOk, TypesOk, ChainOk

\* Steps that change neither pointers nor hooks.
LEMMA QuietStep ==
  ASSUME Inv, NEW app \in Apps, NEW where, At(app, where),
         UNCHANGED <<entry, saved, running>>, TypesOk',
         \A a \in Apps \ {app} : pc'[a] = pc[a] /\ field'[a] = field[a],
         pc'[app] \notin {"out", "replace"},
         pc'[app] \in {"save", "unhook"} => field'[app] \in 1..Len(Hooked),
         \A s \in Services : HookedBy(app, s)' <=> HookedBy(app, s)
  PROVE  PointersOk'
  <1>1. /\ PointersOk /\ running # <<>> /\ Top = app
        /\ \A s \in Services :
               /\ entry[s] = IF HookedBy(app, s) THEN app ELSE Under(Len(running), s)
               /\ HookedBy(app, s) => saved[app][s] = Under(Len(running), s)
    BY AtFacts
  <1> QED BY <1>1, TopStep

LEMMA LoadProgramInv == ASSUME Inv, NEW app \in Apps, LoadProgram(app) PROVE Inv'
  <1> USE NamesDiffer, HookedFacts DEF LoadProgram
  <1>1. At(app, "entry") /\ calls = <<>> /\ pc[app] = "entry" /\ PointersOk /\ TypesOk
    BY AtFacts
  <1>2. TypesOk' /\ Filtered' = Filtered
    BY <1>1 DEF TypesOk, Pcs, tableVars, Filtered
  <1>3. PointersOk'
    <2>1. pc'[app] \in {"leaving", "loading"}
      BY <1>1 DEF TypesOk
    <2>2. \A s \in Services : HookedBy(app, s)' <=> HookedBy(app, s)
      BY <1>1, <2>1 DEF HookedBy
    <2>3. \A a \in Apps \ {app} : pc'[a] = pc[a] /\ field'[a] = field[a]
      BY <1>1 DEF TypesOk
    <2> QED BY <1>1, <1>2, <2>1, <2>2, <2>3, QuietStep DEF tableVars
  <1>4. CASE calls' = calls
    BY <1>1, <1>3, <1>4, NothingCalled DEF Inv, GuardsOk, PolicyEnforced, tableVars
  <1>5. ASSUME NEW d \in Devices,
               calls' = <<Activation("LoadImage", d, entry["LoadImage"])>>
        PROVE  Inv'
    <2>1. PICK n \in Activations :
             /\ n = Activation("LoadImage", d, entry["LoadImage"])
             /\ n.phase = "enter" /\ n.service = "LoadImage" /\ n.device = d
             /\ n.at = entry["LoadImage"]
      <3> DEFINE a == Activation("LoadImage", d, entry["LoadImage"])
      <3>1. /\ a \in Activations /\ a.phase = "enter" /\ a.service = "LoadImage"
            /\ a.device = d /\ a.at = entry["LoadImage"]
        BY <1>1 DEF Activation, Activations, TypesOk
      <3> QED BY <3>1, Zenon
    <2>2. PointersOk' => Lands("LoadImage", entry["LoadImage"])'
                         /\ (Filtered => entry["LoadImage"] # Core)
      <3>1. Filtered => entry["LoadImage"] # Core
        BY <1>1, EntryLands
      <3>2. Lands("LoadImage", entry["LoadImage"])
        BY <1>1, EntryLands
      <3>3. \A i \in DOMAIN running : ~(Top = running[i] /\ HookedBy(running[i], "LoadImage"))
        BY <1>1, AtFacts, TopFacts DEF HookedBy
      <3>4. \A i \in DOMAIN running :
                running[i] # app /\ HookedBy(running[i], "LoadImage")
                    => HookedBy(running[i], "LoadImage")'
        BY <1>1, TopFacts, AtFacts DEF HookedBy, TypesOk
      <3> QED BY <1>1, <1>2, <3>1, <3>2, <3>3, <3>4, AtFacts DEF Lands, tableVars
    <2>3. ActivationOk(n)'
      BY <1>2, <1>3, <2>1, <2>2 DEF ActivationOk, tableVars
    <2>4. calls' = <<n>>
      BY <1>5, <2>1
    <2>5. calls' \in Seq(Activations) /\ DOMAIN calls' = {1} /\ calls'[1] = n
      BY <2>1, <2>4
    <2>6. CallsOk'
      BY <2>3, <2>5 DEF CallsOk
    <2>7. GuardsOk'
      BY <2>1, <2>5 DEF GuardsOk, Inv
    <2> QED BY <1>3, <2>6, <2>7 DEF Inv, ResultsOk, PolicyEnforced, tableVars
  <1> QED BY <1>4, <1>5 DEF BuildPathFromShellArg

LEMMA ProgramLoadedInv == ASSUME Inv, NEW app \in Apps, ProgramLoaded(app) PROVE Inv'
  <1> USE DEF ProgramLoaded
  <1>1. /\ At(app, "loading") /\ calls = <<>> /\ calls' = calls
        /\ pc[app] = "loading" /\ PointersOk /\ TypesOk
    BY AtFacts DEF callVars
  <1>2. TypesOk' /\ pc'[app] \in {"save", "leaving"}
    BY <1>1, HookedFacts DEF TypesOk, Pcs, tableVars, Wrappers
  <1>3. \A s \in Services : HookedBy(app, s)' <=> HookedBy(app, s)
    BY <1>1, <1>2, HookedFacts DEF HookedBy, TypesOk
  <1>4. PointersOk'
    BY <1>1, <1>2, <1>3, QuietStep, HookedFacts, SMTT(30) DEF tableVars, TypesOk, PointersOk, StackOk
  <1> QED BY <1>1, <1>4, NothingCalled DEF Inv, GuardsOk, PolicyEnforced, tableVars, callVars

LEMMA FixCrcAndStartInv == ASSUME Inv, NEW app \in Apps, FixCrcAndStart(app) PROVE Inv'
  <1> USE DEF FixCrcAndStart
  <1>1. /\ At(app, "hooked") /\ calls = <<>> /\ calls' = calls
        /\ pc[app] = "hooked" /\ PointersOk /\ TypesOk
    BY AtFacts DEF callVars
  <1>2. TypesOk' /\ pc'[app] \in {"started"}
    BY <1>1, HookedFacts DEF TypesOk, Pcs, tableVars, Wrappers
  <1>3. \A s \in Services : HookedBy(app, s)' <=> HookedBy(app, s)
    BY <1>1, <1>2, HookedFacts DEF HookedBy, TypesOk
  <1>4. PointersOk'
    BY <1>1, <1>2, <1>3, QuietStep, HookedFacts DEF tableVars, TypesOk, PointersOk, StackOk
  <1> QED BY <1>1, <1>4, NothingCalled DEF Inv, GuardsOk, PolicyEnforced, tableVars, callVars

LEMMA ProgramReturnsInv == ASSUME Inv, NEW app \in Apps, ProgramReturns(app) PROVE Inv'
  <1> USE DEF ProgramReturns
  <1>1. /\ At(app, "started") /\ calls = <<>> /\ calls' = calls
        /\ pc[app] = "started" /\ PointersOk /\ TypesOk
    BY AtFacts DEF callVars
  <1>2. TypesOk' /\ pc'[app] \in {"unhook"}
    BY <1>1, HookedFacts DEF TypesOk, Pcs, tableVars, Wrappers
  <1>3. \A s \in Services : HookedBy(app, s)' <=> HookedBy(app, s)
    BY <1>1, <1>2, HookedFacts DEF HookedBy, TypesOk
  <1>4. PointersOk'
    BY <1>1, <1>2, <1>3, QuietStep, HookedFacts, SMTT(30) DEF tableVars, TypesOk, PointersOk, StackOk
  <1> QED BY <1>1, <1>4, NothingCalled DEF Inv, GuardsOk, PolicyEnforced, tableVars, callVars

LEMMA FixCrcAndLeaveInv == ASSUME Inv, NEW app \in Apps, FixCrcAndLeave(app) PROVE Inv'
  <1> USE DEF FixCrcAndLeave
  <1>1. /\ At(app, "unhooked") /\ calls = <<>> /\ calls' = calls
        /\ pc[app] = "unhooked" /\ PointersOk /\ TypesOk
    BY AtFacts DEF callVars
  <1>2. TypesOk' /\ pc'[app] \in {"leaving"}
    BY <1>1, HookedFacts DEF TypesOk, Pcs, tableVars, Wrappers
  <1>3. \A s \in Services : HookedBy(app, s)' <=> HookedBy(app, s)
    BY <1>1, <1>2, HookedFacts DEF HookedBy, TypesOk
  <1>4. PointersOk'
    BY <1>1, <1>2, <1>3, QuietStep, HookedFacts DEF tableVars, TypesOk, PointersOk, StackOk
  <1> QED BY <1>1, <1>4, NothingCalled DEF Inv, GuardsOk, PolicyEnforced, tableVars, callVars

LEMMA HookSaveInv == ASSUME Inv, NEW app \in Apps, HookSave(app) PROVE Inv'
  <1> DEFINE h == Hooked[field[app]]
  <1> USE DEF HookSave
  <1>1. /\ At(app, "save") /\ calls = <<>> /\ calls' = calls /\ app # Policy
        /\ pc[app] = "save" /\ PointersOk /\ TypesOk /\ running # <<>> /\ Top = app
    BY AtFacts DEF callVars
  <1>2. field[app] \in 1..Len(Hooked) /\ h \in Services
    BY <1>1, HookedFacts DEF PointersOk, StackOk
  <1>3. /\ TypesOk' /\ pc'[app] = "replace" /\ field' = field
        /\ saved'[app] = [saved[app] EXCEPT ![h] = entry[h]]
        /\ \A a \in Wrappers \ {app} : saved'[a] = saved[a]
        /\ \A a \in Apps \ {app} : pc'[a] = pc[a]
    BY <1>1, <1>2 DEF TypesOk, Pcs, Wrappers
  <1>4. /\ \A s \in Services : HookedBy(app, s)' <=> HookedBy(app, s)
        /\ ~HookedBy(app, h)
    BY <1>1, <1>2, <1>3, HookedFacts, ConstantsAssumption DEF HookedBy, TypesOk
  <1>5. \A s \in Services :
          /\ entry[s] = IF HookedBy(app, s) THEN app ELSE Under(Len(running), s)
          /\ HookedBy(app, s) => saved[app][s] = Under(Len(running), s)
    BY <1>1, AtFacts
  <1>6. saved'[app][h] = Under(Len(running), h)
    BY <1>2, <1>3, <1>4, <1>5, <1>1 DEF TypesOk, Wrappers
  <1>7. \A s \in Services : HookedBy(app, s)' => saved'[app][s] = Under(Len(running), s)
    BY <1>1, <1>2, <1>3, <1>4, <1>5 DEF TypesOk, Wrappers
  <1>8. saved'[Policy] = saved[Policy] /\ \A a \in Apps \ {app} : saved'[a] = saved[a]
    BY <1>1, <1>3 DEF Wrappers
  <1>9. PointersOk'
    BY <1>1, <1>2, <1>3, <1>4, <1>5, <1>6, <1>7, <1>8, TopStep
  <1> QED BY <1>1, <1>8, <1>9, NothingCalled DEF Inv, GuardsOk, PolicyEnforced, callVars

LEMMA HookReplaceInv == ASSUME Inv, NEW app \in Apps, HookReplace(app) PROVE Inv'
  <1> DEFINE h == Hooked[field[app]]
  <1> USE DEF HookReplace
  <1>1. /\ At(app, "replace") /\ calls = <<>> /\ calls' = calls /\ app # Policy
        /\ pc[app] = "replace" /\ PointersOk /\ TypesOk /\ running # <<>> /\ Top = app
    BY AtFacts DEF callVars
  <1>2. field[app] \in 1..Len(Hooked) /\ h \in Services
    BY <1>1, HookedFacts DEF PointersOk, StackOk
  <1>3. /\ TypesOk' /\ field'[app] = field[app] + 1 /\ saved' = saved
        /\ pc'[app] = IF field[app] < Len(Hooked) THEN "save" ELSE "hooked"
        /\ \A a \in Apps \ {app} : pc'[a] = pc[a] /\ field'[a] = field[a]
        /\ entry'[h] = app /\ \A s \in Services \ {h} : entry'[s] = entry[s]
    BY <1>1, <1>2, HookedFacts DEF TypesOk, Pcs, Wrappers
  <1>4. \A s \in Services : HookedBy(app, s)' <=> HookedBy(app, s) \/ s = h
    <2>1. CASE field[app] < Len(Hooked)
      BY <1>1, <1>2, <1>3, <2>1, HookedFacts DEF HookedBy
    <2>2. CASE field[app] = Len(Hooked)
      BY <1>1, <1>2, <1>3, <2>2, HookedFacts DEF HookedBy
    <2> QED BY <1>2, <2>1, <2>2, HookedFacts
  <1>5. \A s \in Services :
          /\ entry[s] = IF HookedBy(app, s) THEN app ELSE Under(Len(running), s)
          /\ HookedBy(app, s) => saved[app][s] = Under(Len(running), s)
    BY <1>1, AtFacts
  <1>6. saved[app][h] = Under(Len(running), h)
    BY <1>1, TopFacts DEF PointersOk, ChainOk
  <1>7. \A s \in Services :
          /\ entry'[s] = IF HookedBy(app, s)' THEN app ELSE Under(Len(running), s)
          /\ HookedBy(app, s)' => saved'[app][s] = Under(Len(running), s)
    BY <1>3, <1>4, <1>5, <1>6
  <1>8. pc'[app] \in {"save", "replace", "unhook"} => field'[app] \in 1..Len(Hooked)
    BY <1>2, <1>3, HookedFacts
  <1>9. PointersOk'
    BY <1>1, <1>3, <1>7, <1>8, TopStep
  <1> QED BY <1>1, <1>3, <1>9, NothingCalled DEF Inv, GuardsOk, PolicyEnforced, callVars

LEMMA UnhookInv == ASSUME Inv, NEW app \in Apps, Unhook(app) PROVE Inv'
  <1> DEFINE h == Hooked[field[app]]
  <1> USE DEF Unhook
  <1>1. /\ At(app, "unhook") /\ calls = <<>> /\ calls' = calls /\ app # Policy
        /\ pc[app] = "unhook" /\ PointersOk /\ TypesOk /\ running # <<>> /\ Top = app
    BY AtFacts DEF callVars
  <1>2. field[app] \in 1..Len(Hooked) /\ h \in Services
    BY <1>1, HookedFacts DEF PointersOk, StackOk
  <1>3. HookedBy(app, h)
    BY <1>1, <1>2, HookedFacts DEF HookedBy
  <1>4. \A s \in Services :
          /\ entry[s] = IF HookedBy(app, s) THEN app ELSE Under(Len(running), s)
          /\ HookedBy(app, s) => saved[app][s] = Under(Len(running), s)
    BY <1>1, AtFacts
  <1>5. Under(Len(running), h) \in Wrappers \cup {Core}
    BY <1>1, TopFacts, <1>2 DEF Under, Base, TypesOk, Wrappers
  <1>6. /\ TypesOk' /\ field'[app] = field[app] + 1 /\ saved' = saved
        /\ pc'[app] = IF field[app] < Len(Hooked) THEN "unhook" ELSE "unhooked"
        /\ \A a \in Apps \ {app} : pc'[a] = pc[a] /\ field'[a] = field[a]
        /\ entry'[h] = Under(Len(running), h)
        /\ \A s \in Services \ {h} : entry'[s] = entry[s]
    BY <1>1, <1>2, <1>3, <1>4, <1>5, HookedFacts DEF TypesOk, Pcs, Wrappers
  <1>7. \A s \in Services : HookedBy(app, s)' <=> HookedBy(app, s) /\ s # h
    <2>1. CASE field[app] < Len(Hooked)
      BY <1>1, <1>2, <1>6, <2>1, HookedFacts, ConstantsAssumption, SMTT(30) DEF HookedBy
    <2>2. CASE field[app] = Len(Hooked)
      BY <1>1, <1>2, <1>6, <2>2, HookedFacts DEF HookedBy
    <2> QED BY <1>2, <2>1, <2>2, HookedFacts
  <1>8. \A s \in Services :
          /\ entry'[s] = IF HookedBy(app, s)' THEN app ELSE Under(Len(running), s)
          /\ HookedBy(app, s)' => saved'[app][s] = Under(Len(running), s)
    BY <1>4, <1>6, <1>7
  <1>9. pc'[app] \in {"save", "replace", "unhook"} => field'[app] \in 1..Len(Hooked)
    BY <1>2, <1>6, HookedFacts
  <1>10. PointersOk'
    BY <1>1, <1>6, <1>8, <1>9, TopStep
  <1> QED BY <1>1, <1>6, <1>10, NothingCalled DEF Inv, GuardsOk, PolicyEnforced, callVars

LEMMA Below ==
  ASSUME NEW n \in Nat
  PROVE  /\ \A i \in 1..n : i < n \/ i = n
         /\ \A i \in 1..(n - 1) : i \in 1..n /\ i # n /\ i < n
         /\ \A i \in 1..(n + 1) : i \in 1..n \/ i = n + 1
  OBVIOUS

LEMMA LeaveInv == ASSUME Inv, NEW app \in Apps, Leave(app) PROVE Inv'
  <1> DEFINE n == Len(running)
  <1> USE DEF Leave
  <1>1. /\ At(app, "leaving") /\ calls = <<>> /\ calls' = calls
        /\ pc[app] = "leaving" /\ PointersOk /\ TypesOk /\ running # <<>> /\ Top = app
    BY AtFacts DEF callVars
  <1>2. /\ n \in Nat \ {0} /\ DOMAIN running = 1..n /\ running[n] = app
        /\ \A i \in 1..n : running[i] \in Apps
        /\ \A i \in 1..n : i # n => running[i] # app
    BY <1>1, TopFacts
  <1>n. n = Len(running) /\ n \in Nat \ {0} /\ \A i \in 1..(n - 1) : i \in 1..n /\ i # n /\ i < n
    BY <1>2, Below
  <1> HIDE DEF n
  <1>3. /\ running' \in Seq(Apps) /\ Len(running') = n - 1 /\ DOMAIN running' = 1..(n - 1)
        /\ \A i \in 1..(n - 1) : i \in 1..n /\ i # n /\ running'[i] = running[i]
    <2>1. running' = Front(running) /\ running \in Seq(Apps)
      BY <1>1 DEF TypesOk
    <2> QED BY <1>1, <1>n, <2>1, FrontFacts, SMTT(30)
  <1>4. TypesOk'
    BY <1>1, <1>3 DEF TypesOk, Pcs, tableVars
  <1>5. \A a \in Apps \ {app} : pc'[a] = pc[a] /\ field'[a] = field[a]
    BY <1>1 DEF TypesOk
  <1>6. pc'[app] = "out" /\ field' = field /\ entry' = entry /\ saved' = saved
    BY <1>1 DEF TypesOk, tableVars
  <1>7. StackOk'
    <2>1. \A i \in DOMAIN running' : /\ running'[i] \in Apps \ {app}
                                     /\ pc'[running'[i]] = "started"
      <3>1. \A i \in 1..(n - 1) : running[i] \in Apps \ {app} /\ pc[running[i]] = "started"
        BY <1>1, <1>2, <1>n DEF PointersOk, StackOk
      <3> QED BY <1>3, <1>5, <3>1
    <2>2. \A i, j \in DOMAIN running' : running'[i] = running'[j] => i = j
      <3>1. \A i, j \in 1..n : running[i] = running[j] => i = j
        BY <1>1, <1>2 DEF PointersOk, StackOk
      <3> QED BY <1>3, <3>1
    <2>3. \A a \in Apps : pc'[a] \in {"save", "replace", "unhook"} => field'[a] \in 1..Len(Hooked)
      BY <1>1, <1>5, <1>6 DEF PointersOk, StackOk
    <2> QED BY <2>1, <2>2, <2>3 DEF StackOk
  <1>8. /\ \A s : Base(s)' = Base(s)
        /\ \A i \in 1..(n - 1), s \in Services : Under(i, s)' = Under(i, s)
    <2>1. \A s : Base(s)' = Base(s)
      BY <1>6 DEF Base, Filtered
    <2>2. \A i \in 1..(n - 1) : i # 1 => i - 1 \in 1..(n - 1)
      BY <1>n
    <2>3. \A i \in 1..(n - 1) : i # 1 => running'[i - 1] = running[i - 1]
      BY <1>3, <2>2
    <2> QED BY <2>1, <2>3 DEF Under
  <1>9. \A s \in Services : entry[s] = Under(n, s)
    BY <1>1, <1>n, AtFacts DEF HookedBy
  <1>10. ASSUME NEW s \in Services
         PROVE  (entry[s] = IF running = <<>> THEN Base(s)
                            ELSE IF HookedBy(Top, s) THEN Top ELSE Under(Len(running), s))'
    <2>1. CASE n = 1
      BY <1>3, <1>6, <1>8, <1>9, <2>1 DEF Under
    <2>2. CASE n # 1
      <3>1. n - 1 \in 1..(n - 1) /\ running' # <<>> /\ Top' = running[n - 1]
        <4>1. n - 1 \in 1..(n - 1) /\ Len(running') = n - 1 /\ n - 1 # 0
          BY <1>n, <1>3, <2>2, SMTT(30)
        <4>2. running' # <<>>
          BY <4>1
        <4> QED BY <1>3, <4>1, <4>2 DEF Top
      <3>2. pc'[running[n - 1]] = "started"
        <4>1. n - 1 \in DOMAIN running /\ n - 1 < Len(running) /\ running[n - 1] \in Apps \ {app}
          BY <3>1, <1>2, <1>n
        <4>2. pc[running[n - 1]] = "started"
          BY <4>1, <1>1 DEF PointersOk, StackOk
        <4> QED BY <4>1, <4>2, <1>5
      <3>3. HookedBy(Top, s)'
        BY <3>1, <3>2, HookedFacts DEF HookedBy
      <3> QED BY <1>6, <1>9, <2>2, <3>1, <3>3 DEF Under
    <2> QED BY <2>1, <2>2
  <1>11. \A a \in Apps \ {app}, s \in Services : HookedBy(a, s)' <=> HookedBy(a, s)
    BY <1>5 DEF HookedBy
  <1>12. /\ \A i \in DOMAIN running', s \in Services :
               HookedBy(running[i], s)' => saved'[running'[i]][s] = Under(i, s)'
         /\ \A i \in DOMAIN running' : pc'[running'[i]] # "replace"
    <2>1. \A i \in DOMAIN running' : /\ running'[i] \in Apps \ {app} /\ running'[i] = running[i]
                                     /\ i \in DOMAIN running /\ pc'[running'[i]] = "started"
      <3>1. \A i \in 1..(n - 1) : i \in DOMAIN running /\ running[i] \in Apps \ {app}
                                   /\ pc[running[i]] = "started"
        BY <1>1, <1>2, <1>n DEF PointersOk, StackOk
      <3> QED BY <1>3, <1>5, <3>1
    <2>2. ASSUME NEW i \in DOMAIN running', NEW s \in Services, HookedBy(running[i], s)'
          PROVE  saved'[running'[i]][s] = Under(i, s)'
      <3>1. HookedBy(running[i], s) /\ i \in 1..(n - 1)
        BY <1>3, <1>11, <2>1, <2>2
      <3> QED BY <1>1, <1>6, <1>8, <2>1, <3>1 DEF PointersOk, ChainOk
    <2> QED BY <2>1, <2>2
  <1>13. ChainOk'
    BY <1>1, <1>6, <1>10, <1>12 DEF PointersOk, ChainOk
  <1>14. PointersOk'
    BY <1>4, <1>7, <1>13 DEF PointersOk
  <1> QED BY <1>1, <1>14, NothingCalled DEF Inv, GuardsOk, PolicyEnforced, tableVars, callVars

LEMMA StartAppInv == ASSUME Inv, NEW app \in Apps, StartApp(app) PROVE Inv'
  <1> DEFINE n == Len(running)
  <1> USE NamesDiffer DEF StartApp
  <1>1. calls = <<>> /\ calls' = <<>> /\ PointersOk /\ TypesOk /\ StackOk /\ ChainOk
    BY DEF Idle, Inv, PointersOk
  <1>2. /\ n \in Nat /\ DOMAIN running = 1..n
        /\ \A i \in 1..n : running[i] \in Apps /\ running[i] # app
    BY <1>1 DEF TypesOk, StackOk
  <1>3. /\ running' \in Seq(Apps) /\ Len(running') = n + 1 /\ DOMAIN running' = 1..(n + 1)
        /\ \A i \in 1..n : running'[i] = running[i]
        /\ running'[n + 1] = app
    BY <1>1, AppendFacts DEF TypesOk
  <1>4. /\ TypesOk' /\ pc'[app] = "entry" /\ field' = field /\ entry' = entry
        /\ \A a \in Apps \ {app} : pc'[a] = pc[a]
        /\ \A a \in Wrappers \ {app} : saved'[a] = saved[a]
    BY <1>1, <1>3 DEF TypesOk, Pcs, Wrappers
  <1>5. \A i \in 1..(n + 1) : i \in 1..n \/ i = n + 1
    BY <1>2
  <1>6. \A i \in 1..n : pc[running[i]] = "started"
    <2>1. CASE running = <<>>
      BY <1>2, <2>1
    <2>2. CASE running # <<>>
      <3>1. pc[Top] = "started" /\ Top = running[n]
        BY <2>2 DEF Top
      <3>2. \A i \in 1..n : i < n => pc[running[i]] = "started"
        BY <1>1, <1>2 DEF StackOk
      <3>3. \A i \in 1..n : i < n \/ i = n
        BY <1>2, Below
      <3> QED BY <3>1, <3>2, <3>3
    <2> QED BY <2>1, <2>2
  <1>7. StackOk'
    <2>1. \A i, j \in DOMAIN running' : running'[i] = running'[j] => i = j
      BY <1>1, <1>2, <1>3, <1>5 DEF StackOk
    <2>2. \A i \in 1..n : pc'[running'[i]] = "started"
      BY <1>2, <1>3, <1>4, <1>6
    <2>3. \A i \in DOMAIN running' : pc'[running'[i]] # "out"
                                     /\ (i < Len(running') => pc'[running'[i]] = "started")
      BY <1>2, <1>3, <1>4, <1>5, <2>2
    <2>4. \A a \in Apps : pc'[a] \in {"save", "replace", "unhook"} => field'[a] \in 1..Len(Hooked)
      BY <1>1, <1>4 DEF StackOk
    <2> QED BY <2>1, <2>3, <2>4 DEF StackOk
  <1>8. /\ \A s : Base(s)' = Base(s)
        /\ \A i \in 1..(n + 1) : \A s : Under(i, s)' = Under(i, s)
    BY <1>2, <1>3, <1>4 DEF Base, Under, Filtered, Wrappers
  <1>9. ASSUME NEW s \in Services
        PROVE  (entry[s] = IF running = <<>> THEN Base(s)
                           ELSE IF HookedBy(Top, s) THEN Top ELSE Under(Len(running), s))'
    <2>1. running' # <<>> /\ Top' = app /\ ~HookedBy(app, s)'
      BY <1>3, <1>4, <1>2 DEF Top, HookedBy
    <2>2. entry[s] = Under(n + 1, s)
      <3>1. CASE running = <<>>
        BY <1>1, <3>1 DEF ChainOk, Under
      <3>2. CASE running # <<>>
        <4>1. n \in 1..n /\ Top = running[n] /\ n + 1 # 1
          BY <1>2, <3>2, <1>1 DEF Top, TypesOk
        <4>2. HookedBy(Top, s)
          BY <4>1, <1>6, HookedFacts DEF HookedBy
        <4> QED BY <1>1, <1>2, <3>2, <4>1, <4>2 DEF ChainOk, Under
      <3> QED BY <3>1, <3>2
    <2> QED BY <1>2, <1>3, <1>4, <1>8, <2>1, <2>2
  <1>10. \A a \in Apps \ {app}, s \in Services : HookedBy(a, s)' <=> HookedBy(a, s)
    BY <1>4 DEF HookedBy
  <1>11. ASSUME NEW i \in DOMAIN running', NEW s \in Services, HookedBy(running[i], s)'
         PROVE  saved'[running'[i]][s] = Under(i, s)'
    <2>1. CASE i = n + 1
      BY <1>3, <1>4, <1>11, <2>1 DEF HookedBy
    <2>2. CASE i \in 1..n
      <3>1. HookedBy(running[i], s) /\ running[i] \in Wrappers \ {app}
        BY <1>2, <1>3, <1>10, <1>11, <2>2 DEF Wrappers
      <3> QED BY <1>1, <1>2, <1>3, <1>4, <1>8, <2>2, <3>1 DEF ChainOk
    <2> QED BY <1>3, <1>5, <2>1, <2>2
  <1>12. \A i \in DOMAIN running' : pc'[running'[i]] # "replace"
    BY <1>2, <1>3, <1>4, <1>5, <1>6
  <1>13. saved'[Policy] = saved[Policy]
    BY <1>4 DEF Wrappers
  <1>14. ChainOk'
    BY <1>1, <1>9, <1>11, <1>12, <1>13 DEF ChainOk
  <1>15. PointersOk'
    BY <1>4, <1>7, <1>14 DEF PointersOk
  <1>16. inTrace' \in [Apps -> {0, 1}]
    BY DEF Inv, GuardsOk
  <1> QED BY <1>1, <1>13, <1>15, <1>16, NothingCalled DEF Inv, PolicyEnforced

-----------------------------------------------------------------------------

\* The invariant behind every theorem below.
THEOREM InvHolds == Spec => []Inv
  <1>1. Inv /\ [Next]_vars => Inv'
    <2> SUFFICES ASSUME Inv, [Next]_vars PROVE Inv'
      OBVIOUS
    <2>1. CASE UNCHANGED vars
      <3>1. PointersOk' /\ \A c : ActivationOk(c)' <=> ActivationOk(c)
        BY <2>1, PointersKept DEF vars, Inv
      <3>2. CallsOk'
        BY <2>1, <3>1 DEF vars, callVars, Inv, CallsOk
      <3> QED BY <2>1, <3>1, <3>2 DEF vars, tableVars, callVars, Inv, GuardsOk, ResultsOk,
                                      PolicyEnforced
    <2>2. CASE Next
      BY <2>2, ConstructorInv, CallServiceInv, CallStepInv, StartAppInv, LoadProgramInv,
         ProgramLoadedInv, HookSaveInv, HookReplaceInv, FixCrcAndStartInv, ProgramReturnsInv,
         UnhookInv, FixCrcAndLeaveInv, LeaveInv DEF Next, AppStep
    <2> QED BY <2>1, <2>2
  <1> QED BY InitInv, <1>1, PTL DEF Spec

\* The pointers, guards and activations have their types, for any number of services and
\* of nested instances.
THEOREM ServiceHooksTypes == Spec => []TypeOk
  <1>1. Inv => TypeOk
    BY DEF Inv, PointersOk, TypesOk, GuardsOk, ResultsOk, TypeOk
  <1> QED BY <1>1, InvHolds, PTL

\* No call goes through an unsaved pointer or into an unloaded application: HOOK, UNHOOK
\* and the wrappers, interleaved with calls from any image or notification.
THEOREM ServiceCallsLand == Spec => []CallsLand
  <1>1. Inv => CallsLand
    BY NamesDiffer DEF Inv, PointersOk, TypesOk, CallsOk, ActivationOk, Lands, CallsLand, Live,
                       Wrappers
  <1> QED BY <1>1, InvHolds, PTL

\* No image is loaded from a device that policy excludes, however many instances have
\* hooked LoadImage over the filter.
THEOREM ServicePolicyEnforced == Spec => []PolicyEnforced
  <1>1. Inv => PolicyEnforced
    BY DEF Inv
  <1> QED BY <1>1, InvHolds, PTL

\* The checksums of the tables are right whenever nobody is writing to them.
THEOREM ServiceChecksums == Spec => []ChecksumsRight
  <1>1. Init => ChecksumsRight
    BY DEF Init, ChecksumsRight
  <1>2. Inv /\ ChecksumsRight /\ [Next]_vars => ChecksumsRight'
    <2> SUFFICES ASSUME Inv, ChecksumsRight, [Next]_vars PROVE ChecksumsRight'
      OBVIOUS
    <2> USE DEF ChecksumsRight
    <2>1. pc \in [Apps -> Pcs]
      BY DEF Inv, PointersOk, TypesOk
    <2>2. CASE UNCHANGED <<checked, pc>>
      BY <2>2
    <2>3. CASE MsBootPolicyLibConstructor
      BY <2>3 DEF MsBootPolicyLibConstructor
    <2>4. ASSUME NEW app \in Apps, StartApp(app) \/ AppStep(app)
          PROVE  ChecksumsRight'
      BY <2>1, <2>4 DEF StartApp, AppStep, LoadProgram, ProgramLoaded, HookSave, HookReplace,
            FixCrcAndStart, ProgramReturns, Unhook, FixCrcAndLeave, Leave, At, tableVars
    <2>5. CASE CallService \/ CallStep
      BY <2>5 DEF CallService, Call, CallStep, CoreReturns, LocalLoadImage, TraceCall,
            TracePrint, TracePrinted, TraceReturn, TraceExit, TraceExitCalls, tableVars,
            appVars
    <2> QED BY <2>2, <2>3, <2>4, <2>5 DEF Next, vars, tableVars, appVars
  <1> QED BY InvHolds, <1>1, <1>2, PTL DEF Spec

-----------------------------------------------------------------------------
\* How deep calls go.  From one printing wrapper to the next an activation is at a lower
\* place in the stack than the one that made it; each printing wrapper starts at the top
\* again, and no instance prints twice under its guard.  Without the guard, only the
\* outermost activation prints.

\* Pointer p is the i-th instance's wrapper, or what lies under all of them.
Level(p, i) == IF i = 0 THEN p \in {Core, Policy} ELSE p = running[i]

\* The instances that print below the k-th activation.
Printing(k) ==
    {i \in 1..Len(running) :
        \E m \in 1..(k - 1) : calls[m].phase = "printing" /\ calls[m].at = running[i]}

Reach(k, i) == Cardinality(Printing(k)) * (Len(running) + 1) + (Len(running) + 2 - i)

DepthAt(k) == \E i \in 0..Len(running) : Level(calls[k].at, i) /\ k =< Reach(k, i)

DepthOk == \A k \in DOMAIN calls : DepthAt(k)

\* The two services whose wrappers have no guard are called by nothing but images.
Outer == \A k \in DOMAIN calls : k # 1 => calls[k].service \notin Unguarded

Announced == \A k \in DOMAIN calls : calls[k].phase = "announcing" => calls[k].service \in Unguarded

LEMMA RunningFacts ==
  ASSUME Inv
  PROVE  /\ Len(running) \in Nat /\ DOMAIN running = 1..Len(running)
         /\ \A i \in 1..Len(running) : running[i] \in Apps
         /\ \A i, j \in 1..Len(running) : running[i] = running[j] => i = j
         /\ calls \in Seq(Activations) /\ Len(calls) \in Nat /\ DOMAIN calls = 1..Len(calls)
  BY DEF Inv, PointersOk, TypesOk, StackOk, CallsOk

LEMMA PrintingFinite ==
  ASSUME Inv, NEW k
  PROVE  /\ IsFiniteSet(Printing(k))
         /\ Cardinality(Printing(k)) \in Nat /\ Cardinality(Printing(k)) =< Len(running)
  <1>1. Printing(k) \subseteq 1..Len(running)
    BY DEF Printing
  <1>2. IsFiniteSet(1..Len(running)) /\ Cardinality(1..Len(running)) = Len(running)
    <2>1. Len(running) \in Nat
      BY RunningFacts
    <2>2. /\ IsFiniteSet(1..Len(running))
          /\ Cardinality(1..Len(running)) = IF 1 > Len(running) THEN 0 ELSE Len(running) - 1 + 1
      BY <2>1, FS_Interval
    <2> QED BY <2>1, <2>2
  <1>3. /\ IsFiniteSet(Printing(k)) /\ Cardinality(Printing(k)) =< Cardinality(1..Len(running))
    BY <1>1, <1>2, FS_Subset
  <1> QED BY <1>2, <1>3, FS_CardinalityType

LEMMA LandsLevel ==
  ASSUME Inv, NEW s, NEW p, Lands(s, p)
  PROVE  \E i \in 0..Len(running) : Level(p, i)
  <1>1. CASE p \in {Core, Policy}
    <2>1. 0 \in 0..Len(running)
      BY RunningFacts
    <2> QED BY <1>1, <2>1 DEF Level
  <1>2. ASSUME NEW j \in DOMAIN running, p = running[j]
        PROVE  \E i \in 0..Len(running) : Level(p, i)
    <2>1. j \in 0..Len(running) /\ j # 0
      BY RunningFacts
    <2> QED BY <1>2, <2>1 DEF Level
  <1> QED BY <1>1, <1>2 DEF Lands

\* An activation below the innermost stays as deep as it is.
LEMMA DepthKept ==
  ASSUME Inv, DepthOk, running' = running, NEW k \in DOMAIN calls,
         \A m \in 1..k : calls'[m].at = calls[m].at,
         \A m \in 1..(k - 1) : calls'[m].phase = "printing" <=> calls[m].phase = "printing"
  PROVE  DepthAt(k)' /\ Printing(k)' = Printing(k)
  <1>1. k \in Nat /\ k \in 1..k /\ \A m \in 1..(k - 1) : m \in 1..k
    BY RunningFacts
  <1>2. Printing(k)' = Printing(k)
    BY <1>1 DEF Printing
  <1>3. PICK i \in 0..Len(running) : Level(calls[k].at, i) /\ k =< Reach(k, i)
    BY DEF DepthOk, DepthAt
  <1>4. calls'[k].at = calls[k].at
    BY <1>1
  <1>5. Level(calls[k].at, i)'
    BY <1>3, <1>4 DEF Level
  <1>6. Reach(k, i)' = Reach(k, i)
    BY <1>2 DEF Reach
  <1> QED BY <1>2, <1>3, <1>5, <1>6 DEF DepthAt

\* A call starts at the top of the stack.
LEMMA DepthStarts ==
  ASSUME Inv, running' = running, NEW s \in Services, NEW c, c.at = entry[s], calls' = <<c>>
  PROVE  DepthOk'
  <1> DEFINE n == Len(running)
  <1>1. n \in Nat /\ DOMAIN calls' = {1} /\ calls'[1] = c
    BY RunningFacts
  <1>2. PICK i \in 0..n : Level(entry[s], i)
    <2>1. Lands(s, entry[s])
      BY EntryLands DEF Inv
    <2> QED BY <2>1, LandsLevel
  <1>3. Level(calls[1].at, i)'
    BY <1>1, <1>2 DEF Level
  <1>4. Printing(1)' = {}
    <2>1. 1..(1 - 1) = {}
      OBVIOUS
    <2> QED BY <2>1 DEF Printing
  <1>5. Reach(1, i)' = 0 * (n + 1) + (n + 2 - i)
    BY <1>4, FS_EmptySet DEF Reach
  <1>6. 1 =< Reach(1, i)'
    BY <1>1, <1>2, <1>5
  <1>7. DepthAt(1)'
    BY <1>2, <1>3, <1>6 DEF DepthAt
  <1> QED BY <1>1, <1>7 DEF DepthOk

\* A wrapper goes on to what lies under it.
LEMMA DepthCalls ==
  ASSUME Inv, DepthOk, TraceCall
  PROVE  DepthOk'
  <1>0. PICK L : L = Len(calls)
    OBVIOUS
  <1> DEFINE n == Len(running)
             a == Current.at
  <1>1. /\ calls # <<>> /\ a \in Apps /\ CallsOk /\ PointersOk /\ running' = running
        /\ Current.phase = "enter" /\ Current = calls[L]
    BY <1>0 DEF TraceCall, Enters, Idle, Inv, appVars, Current
  <1>2. /\ Current \in Activations /\ ActivationOk(Current) /\ L \in DOMAIN calls
        /\ L \in Nat \ {0} /\ DOMAIN calls = 1..L /\ n \in Nat
    BY <1>0, <1>1, CallsFacts, RunningFacts
  <1>3. PICK i \in 1..n : a = running[i] /\ HookedBy(running[i], Current.service)
    BY <1>1, <1>2, NamesDiffer, RunningFacts DEF ActivationOk, Lands
  <1>4. Current.service \in Services
    BY <1>2 DEF Activations
  <1>5. saved[a][Current.service] = Under(i, Current.service)
    BY <1>1, <1>3, <1>4, RunningFacts DEF PointersOk, ChainOk
  <1>6. Level(Under(i, Current.service), i - 1) /\ i - 1 \in 0..n /\ i - 1 # i
    <2>1. CASE i = 1
      BY <1>2, <2>1 DEF Level, Under, Base
    <2>2. CASE i # 1
      BY <1>2, <1>3, <2>2 DEF Level, Under
    <2> QED BY <1>2, <1>3, <2>1, <2>2
  <1> DEFINE c == [Current EXCEPT !.phase = "called"]
             m == Activation(Current.service, Current.device, saved[a][Current.service])
  <1>7. c \in Activations /\ c.phase = "called" /\ c.at = a
    BY <1>2 DEF Activations
  <1>8. m \in Activations /\ m.at = saved[a][Current.service]
    <2>1. saved[a][Current.service] \in Wrappers \cup {Core, Null}
      BY <1>1, <1>4 DEF PointersOk, TypesOk, Wrappers
    <2> QED BY <1>2, <2>1 DEF Activation, Activations
  <1>9. calls' = Append([calls EXCEPT ![L] = c], m) /\ calls \in Seq(Activations)
    BY <1>0, <1>1, <1>2 DEF TraceCall, Current, CallsOk
  <1> HIDE DEF c, m
  <1>10. /\ DOMAIN calls' = 1..(L + 1) /\ calls'[L] = c /\ calls'[L + 1] = m
         /\ \A k \in DOMAIN calls : k # L => calls'[k] = calls[k]
    BY <1>1, <1>7, <1>8, <1>9, <1>0, ReplaceAndAppend
  <1>11. \A k \in 1..L : /\ calls'[k].at = calls[k].at
                         /\ calls'[k].phase = "printing" <=> calls[k].phase = "printing"
    BY <1>1, <1>2, <1>7, <1>10
  <1> HIDE DEF a
  <1>12. \A k \in 1..L : DepthAt(k)'
    <2> TAKE k \in 1..L
    <2>1. /\ k \in DOMAIN calls
          /\ \A j \in 1..k : j \in 1..L
          /\ \A j \in 1..(k - 1) : j \in 1..L
      BY <1>2
    <2> QED BY <1>1, <1>11, <2>1, DepthKept
  <1>13. Printing(L + 1)' = Printing(L)
    <2>1. \A j : j \in 1..((L + 1) - 1) <=> j \in 1..(L - 1) \/ j = L
      BY <1>2
    <2>2. \A j \in 1..(L - 1) : j \in 1..L
      BY <1>2
    <2>3. calls'[L].phase # "printing"
      BY <1>7, <1>10
    <2>4. ASSUME NEW h
          PROVE  (\E j \in 1..((L + 1) - 1) : calls'[j].phase = "printing" /\ calls'[j].at = running[h])
                 <=> (\E j \in 1..(L - 1) : calls[j].phase = "printing" /\ calls[j].at = running[h])
      BY <1>11, <2>1, <2>2, <2>3
    <2> QED BY <1>1, <2>4 DEF Printing
  <1>14. L =< Reach(L, i)
    <2>1. PICK h \in 0..n : Level(a, h) /\ L =< Reach(L, h)
      BY <1>1, <1>2 DEF DepthOk, DepthAt, a
    <2>2. h = i
      BY <1>1, <1>3, <2>1, RunningFacts, NamesDiffer DEF Level
    <2> QED BY <2>1, <2>2
  <1>15. Level(calls[L + 1].at, i - 1)'
    BY <1>1, <1>5, <1>6, <1>8, <1>10 DEF Level
  <1>16. L + 1 =< Reach(L + 1, i - 1)'
    <2>1. Reach(L + 1, i - 1)' = Cardinality(Printing(L)) * (n + 1) + (n + 2 - (i - 1))
      BY <1>1, <1>13 DEF Reach
    <2>2. Cardinality(Printing(L)) * (n + 1) \in Nat
      BY <1>2, PrintingFinite
    <2> QED BY <1>2, <1>3, <1>14, <2>1, <2>2 DEF Reach
  <1>17. DepthAt(L + 1)'
    BY <1>1, <1>6, <1>15, <1>16 DEF DepthAt
  <1> QED BY <1>2, <1>10, <1>12, <1>17, Below DEF DepthOk

\* A wrapper that prints starts at the top again, and was not printing before.
LEMMA DepthPrints ==
  ASSUME Inv, DepthOk, TracePrint
  PROVE  DepthOk'
  <1>0. PICK L : L = Len(calls)
    OBVIOUS
  <1> DEFINE n == Len(running)
             a == Current.at
  <1>1. /\ calls # <<>> /\ CallsOk /\ PointersOk /\ running' = running
        /\ Current.phase = "called" /\ Current = calls[L] /\ inTrace[a] = 0
    BY <1>0 DEF TracePrint, Idle, Inv, appVars, Current, Prints
  <1>2. /\ Current \in Activations /\ ActivationOk(Current) /\ L \in DOMAIN calls
        /\ L \in Nat \ {0} /\ DOMAIN calls = 1..L /\ n \in Nat /\ a \in Apps
    BY <1>0, <1>1, CallsFacts, RunningFacts, NamesDiffer DEF ActivationOk
  <1>3. PICK i \in 1..n : a = running[i]
    BY <1>1, <1>2, NamesDiffer, RunningFacts DEF ActivationOk, Lands
  <1>4. PICK h \in 0..n : Level(entry[Output], h)
    <2>1. Lands(Output, entry[Output])
      BY <1>1, NamesDiffer, EntryLands
    <2> QED BY <2>1, LandsLevel
  <1> DEFINE c == [Current EXCEPT !.phase = "printing", !.status = result]
             m == Activation(Output, NoDevice, entry[Output])
  <1>5. c \in Activations /\ c.phase = "printing" /\ c.at = a
    BY <1>2 DEF Activations, Inv, ResultsOk
  <1>6. m \in Activations /\ m.at = entry[Output]
    <2>1. entry[Output] \in Wrappers \cup {Core, Null}
      BY <1>1, NamesDiffer DEF PointersOk, TypesOk
    <2> QED BY <2>1, NamesDiffer DEF Activation, Activations
  <1>7. calls' = Append([calls EXCEPT ![L] = c], m) /\ calls \in Seq(Activations)
    BY <1>0, <1>1, <1>2 DEF TracePrint, Current, CallsOk
  <1> HIDE DEF c, m
  <1>8. /\ DOMAIN calls' = 1..(L + 1) /\ calls'[L] = c /\ calls'[L + 1] = m
        /\ \A k \in DOMAIN calls : k # L => calls'[k] = calls[k]
    BY <1>1, <1>5, <1>6, <1>7, <1>0, ReplaceAndAppend
  <1>9. \A k \in 1..L : calls'[k].at = calls[k].at
    BY <1>1, <1>2, <1>5, <1>8
  <1>10. \A k \in 1..(L - 1) : calls'[k] = calls[k] /\ k \in DOMAIN calls
    BY <1>2, <1>8
  <1>a. a = calls[L].at
    BY <1>1
  <1> HIDE DEF a
  <1>11. \A k \in 1..L : DepthAt(k)'
    <2> TAKE k \in 1..L
    <2>1. /\ k \in DOMAIN calls
          /\ \A j \in 1..k : j \in 1..L
          /\ \A j \in 1..(k - 1) : j \in 1..(L - 1)
      BY <1>2
    <2>2. \A j \in 1..(k - 1) : calls'[j].phase = "printing" <=> calls[j].phase = "printing"
      BY <1>10, <2>1
    <2> QED BY <1>1, <1>9, <2>1, <2>2, DepthKept
  <1>12. i \notin Printing(L)
    <2>1. \A k \in DOMAIN calls : calls[k].phase = "printing" => inTrace[calls[k].at] = 1
      BY DEF Inv, GuardsOk
    <2> QED BY <1>1, <1>3, <1>10, <2>1 DEF Printing
  <1>13. Printing(L + 1)' = Printing(L) \cup {i}
    <2>1. \A j : j \in 1..((L + 1) - 1) <=> j \in 1..(L - 1) \/ j = L
      BY <1>2
    <2>2. calls'[L].phase = "printing" /\ calls'[L].at = a
      BY <1>5, <1>8
    <2>3. \A g \in 1..n : running[g] = a <=> g = i
      BY <1>3, RunningFacts
    <2>4. ASSUME NEW g \in 1..n
          PROVE  (\E j \in 1..((L + 1) - 1) : calls'[j].phase = "printing" /\ calls'[j].at = running[g])
                 <=> \/ \E j \in 1..(L - 1) : calls[j].phase = "printing" /\ calls[j].at = running[g]
                     \/ g = i
      BY <1>10, <2>1, <2>2, <2>3
    <2>5. \A g : g \in Printing(L + 1)' <=> g \in Printing(L) \/ g = i
      BY <1>1, <1>3, <2>4 DEF Printing
    <2> QED BY <2>5
  <1>14. Cardinality(Printing(L + 1)') = Cardinality(Printing(L)) + 1
    BY <1>12, <1>13, PrintingFinite, FS_AddElement
  <1>15. L =< Reach(L, i)
    <2>1. PICK g \in 0..n : Level(a, g) /\ L =< Reach(L, g)
      BY <1>a, <1>2 DEF DepthOk, DepthAt
    <2>2. g = i
      BY <1>2, <1>3, <2>1, RunningFacts, NamesDiffer DEF Level
    <2> QED BY <2>1, <2>2
  <1>16. Level(calls[L + 1].at, h)'
    BY <1>1, <1>4, <1>6, <1>8 DEF Level
  <1>17. L + 1 =< Reach(L + 1, h)'
    <2> DEFINE p == Cardinality(Printing(L))
    <2>1. Reach(L + 1, h)' = (p + 1) * (n + 1) + (n + 2 - h)
      BY <1>1, <1>14 DEF Reach
    <2>2. p \in Nat /\ p * (n + 1) \in Nat
      BY <1>2, PrintingFinite
    <2>3. (p + 1) * (n + 1) = p * (n + 1) + (n + 1)
      BY <1>2, <2>2
    <2>4. L =< p * (n + 1) + (n + 2 - i)
      BY <1>15 DEF Reach
    <2> HIDE DEF p, n
    <2> QED BY <1>2, <1>3, <1>4, <2>1, <2>2, <2>3, <2>4
  <1>18. DepthAt(L + 1)'
    BY <1>1, <1>16, <1>17 DEF DepthAt
  <1> QED BY <1>2, <1>8, <1>11, <1>18, Below DEF DepthOk

\* The filter calls the firmware's routine: both lie under all instances.
LEMMA DepthFilters ==
  ASSUME Inv, DepthOk, LocalLoadImage, calls' # Front(calls)
  PROVE  DepthOk'
  <1>0. PICK L : L = Len(calls)
    OBVIOUS
  <1> DEFINE n == Len(running)
             c == [Current EXCEPT !.at = saved[Policy]["LoadImage"]]
  <1>1. /\ calls # <<>> /\ CallsOk /\ PointersOk /\ running' = running
        /\ Current = calls[L] /\ Current.at = Policy
        /\ calls' = [calls EXCEPT ![L].at = saved[Policy]["LoadImage"]]
    BY <1>0 DEF LocalLoadImage, Enters, Idle, Inv, appVars, Current
  <1>2. /\ Current \in Activations /\ ActivationOk(Current) /\ L \in DOMAIN calls
        /\ L \in Nat \ {0} /\ DOMAIN calls = 1..L /\ n \in Nat
    BY <1>0, <1>1, CallsFacts, RunningFacts
  <1>3. saved[Policy]["LoadImage"] = Core
    BY <1>1, <1>2, NamesDiffer DEF ActivationOk, Lands, Filtered, PointersOk, ChainOk, TypesOk
  <1>4. c \in Activations /\ c.at = Core /\ c.phase = Current.phase
    BY <1>2, <1>3 DEF Activations
  <1>5. calls' = [calls EXCEPT ![L] = c]
    BY <1>1, <1>2
  <1> HIDE DEF c
  <1>6. /\ DOMAIN calls' = DOMAIN calls /\ calls'[L] = c
        /\ \A k \in DOMAIN calls : k # L => calls'[k] = calls[k]
    BY <1>1, <1>4, <1>5, <1>0, TopReplaced
  <1>7. \A k \in 1..(L - 1) : k \in DOMAIN calls /\ k # L /\ calls'[k] = calls[k]
    BY <1>2, <1>6
  <1>8. \A k \in 1..(L - 1) : DepthAt(k)'
    <2> TAKE k \in 1..(L - 1)
    <2>1. /\ \A j \in 1..k : j \in 1..(L - 1)
          /\ \A j \in 1..(k - 1) : j \in 1..(L - 1)
      BY <1>2
    <2> QED BY <1>1, <1>7, <2>1, DepthKept
  <1>9. Printing(L)' = Printing(L)
    BY <1>1, <1>7 DEF Printing
  <1>10. L =< Reach(L, 0) /\ 0 \in 0..n
    <2>1. PICK g \in 0..n : Level(Policy, g) /\ L =< Reach(L, g)
      BY <1>1, <1>2 DEF DepthOk, DepthAt
    <2>2. g = 0
      BY <1>2, <2>1, RunningFacts, NamesDiffer DEF Level
    <2> QED BY <1>2, <2>1, <2>2
  <1>11. Level(calls[L].at, 0)' /\ L =< Reach(L, 0)'
    BY <1>1, <1>4, <1>6, <1>9, <1>10 DEF Level, Reach
  <1>12. DepthAt(L)'
    BY <1>1, <1>10, <1>11 DEF DepthAt
  <1> QED BY <1>2, <1>6, <1>7, <1>8, <1>12, Below DEF DepthOk

\* A wrapper that prints without its guard is the outermost activation: what it prints
\* through, and then what it goes on to, starts at the top again.
LEMMA DepthAnnounces ==
  ASSUME Inv, DepthOk, Outer, TraceExit
  PROVE  DepthOk'
  <1> DEFINE n == Len(running)
             c == [Current EXCEPT !.phase = "announcing"]
             m == Activation(Output, NoDevice, entry[Output])
  <1>1. /\ calls # <<>> /\ CallsOk /\ PointersOk /\ running' = running
        /\ Current.service \in Unguarded
    BY DEF TraceExit, Enters, Idle, Inv, appVars
  <1>2. /\ Current \in Activations /\ Len(calls) = 1 /\ DOMAIN calls = 1..1 /\ n \in Nat
        /\ calls \in Seq(Activations) /\ Current = calls[1]
    BY <1>1, CallsFacts, RunningFacts DEF Outer, Current
  <1>3. c \in Activations /\ c.phase = "announcing" /\ c.at = Current.at
    BY <1>2 DEF Activations
  <1>4. m \in Activations /\ m.at = entry[Output]
    <2>1. entry[Output] \in Wrappers \cup {Core, Null}
      BY <1>1, NamesDiffer DEF PointersOk, TypesOk
    <2> QED BY <2>1, NamesDiffer DEF Activation, Activations
  <1>5. calls' = Append([calls EXCEPT ![Len(calls)] = c], m)
    BY <1>2 DEF TraceExit, Current
  <1>6. PICK h \in 0..n : Level(entry[Output], h)
    <2>1. Lands(Output, entry[Output])
      BY <1>1, NamesDiffer, EntryLands
    <2> QED BY <2>1, LandsLevel
  <1> HIDE DEF c, m
  <1>7. /\ DOMAIN calls' = 1..2 /\ calls'[1] = c /\ calls'[2] = m
    <2>1. /\ DOMAIN calls' = 1..(Len(calls) + 1)
          /\ calls'[Len(calls)] = c /\ calls'[Len(calls) + 1] = m
      BY <1>1, <1>2, <1>3, <1>4, <1>5, ReplaceAndAppend
    <2> QED BY <1>2, <2>1
  <1>8. DepthAt(1)'
    <2>1. \A j \in 1..1 : calls'[j].at = calls[j].at
      BY <1>2, <1>3, <1>7
    <2>2. 1 \in DOMAIN calls /\ 1..(1 - 1) = {}
      BY <1>2
    <2> QED BY <1>1, <2>1, <2>2, DepthKept
  <1>9. DepthAt(2)'
    <2>1. Level(calls[2].at, h)'
      BY <1>1, <1>4, <1>6, <1>7 DEF Level
    <2>2. Printing(2)' = {}
      <3>1. 1..(2 - 1) = {1}
        OBVIOUS
      <3> QED BY <1>3, <1>7, <3>1 DEF Printing
    <2>3. Reach(2, h)' = 0 * (n + 1) + (n + 2 - h)
      BY <1>1, <2>2, FS_EmptySet DEF Reach
    <2>4. 2 =< Reach(2, h)'
      BY <1>2, <1>6, <2>3
    <2> QED BY <1>1, <1>6, <2>1, <2>4 DEF DepthAt
  <1> QED BY <1>7, <1>8, <1>9 DEF DepthOk

LEMMA DepthPassesOn ==
  ASSUME Inv, DepthOk, Outer, Announced, TraceExitCalls
  PROVE  DepthOk'
  <1> DEFINE n == Len(running)
             c == Activation(Current.service, Current.device, saved[Current.at][Current.service])
  <1>1. /\ calls # <<>> /\ CallsOk /\ PointersOk /\ running' = running /\ saved' = saved
        /\ Current.phase = "announcing"
    BY DEF TraceExitCalls, Idle, Inv, appVars, tableVars
  <1>2. /\ Current \in Activations /\ ActivationOk(Current) /\ Len(calls) = 1 /\ n \in Nat
        /\ DOMAIN calls = 1..1 /\ calls \in Seq(Activations) /\ Current = calls[1]
    BY <1>1, CallsFacts, RunningFacts DEF Outer, Announced, Current
  <1>3. Current.at \in Apps /\ Current.service \in Services
    BY <1>1, <1>2 DEF ActivationOk, Activations
  <1>4. PICK i \in DOMAIN running :
            Current.at = running[i] /\ HookedBy(running[i], Current.service)
    BY <1>2, <1>3, NamesDiffer DEF ActivationOk, Lands
  <1>5. PICK h \in 0..n : Level(c.at, h)
    <2>1. Lands(Current.service, saved[Current.at][Current.service])
      BY <1>1, <1>3, <1>4, SavedLands
    <2>2. c.at = saved[Current.at][Current.service]
      BY DEF Activation
    <2> QED BY <2>1, <2>2, LandsLevel
  <1>6. c.at = saved[Current.at][Current.service] /\ calls' = [calls EXCEPT ![Len(calls)] = c]
    BY DEF TraceExitCalls, Activation
  <1> HIDE DEF c
  <1>7. DOMAIN calls' = 1..1 /\ calls'[1] = c
    BY <1>2, <1>6
  <1>8. Level(calls[1].at, h)'
    BY <1>1, <1>5, <1>7 DEF Level
  <1>9. Printing(1)' = {}
    <2>1. 1..(1 - 1) = {}
      OBVIOUS
    <2> QED BY <2>1 DEF Printing
  <1>10. Reach(1, h)' = 0 * (n + 1) + (n + 2 - h)
    BY <1>1, <1>9, FS_EmptySet DEF Reach
  <1>11. 1 =< Reach(1, h)'
    BY <1>2, <1>5, <1>10
  <1>12. DepthAt(1)'
    BY <1>1, <1>5, <1>8, <1>11 DEF DepthAt
  <1> QED BY <1>7, <1>12 DEF DepthOk

LEMMA DepthPops ==
  ASSUME Inv, DepthOk, running' = running, calls # <<>>, calls' = Front(calls)
  PROVE  DepthOk'
  <1>1. /\ DOMAIN calls' = 1..(Len(calls) - 1) /\ Len(calls) \in Nat
        /\ \A k \in DOMAIN calls' : k \in DOMAIN calls /\ calls'[k] = calls[k]
    BY RunningFacts, FrontFacts
  <1>2. ASSUME NEW k \in DOMAIN calls'
        PROVE  DepthAt(k)'
    <2>1. /\ k \in DOMAIN calls
          /\ \A j \in 1..k : j \in DOMAIN calls'
          /\ \A j \in 1..(k - 1) : j \in DOMAIN calls'
      BY <1>1
    <2> QED BY <1>1, <2>1, DepthKept
  <1> QED BY <1>2 DEF DepthOk

\* What a step does to the activations: all but the innermost stay, that one keeps its
\* service, and one that is added is for a service that images need not call.
LEMMA OuterPops ==
  ASSUME Inv, Outer, Announced, calls # <<>>, calls' = Front(calls)
  PROVE  Outer' /\ Announced'
  <1>1. /\ DOMAIN calls' = 1..(Len(calls) - 1) /\ Len(calls) \in Nat /\ DOMAIN calls = 1..Len(calls)
        /\ \A k \in 1..(Len(calls) - 1) : calls'[k] = calls[k]
    BY RunningFacts, FrontFacts
  <1>2. \A k \in DOMAIN calls' : k \in DOMAIN calls /\ calls'[k] = calls[k]
    BY <1>1
  <1> QED BY <1>2 DEF Outer, Announced

LEMMA OuterReplaces ==
  ASSUME Inv, Outer, Announced, calls # <<>>, NEW c \in Activations,
         calls' = [calls EXCEPT ![Len(calls)] = c], c.service = Current.service,
         c.phase = "announcing" => c.service \in Unguarded
  PROVE  Outer' /\ Announced'
  <1>1. CallsOk /\ Len(calls) \in DOMAIN calls /\ Current = calls[Len(calls)]
    <2>1. CallsOk
      BY DEF Inv
    <2> QED BY <2>1, CallsFacts DEF Current
  <1>2. /\ DOMAIN calls' = DOMAIN calls /\ calls'[Len(calls)] = c
        /\ \A k \in DOMAIN calls : k # Len(calls) => calls'[k] = calls[k]
    BY <1>1, TopReplaced
  <1>3. \A k \in DOMAIN calls' :
            /\ k \in DOMAIN calls /\ calls'[k].service = calls[k].service
            /\ calls'[k] = calls[k] \/ calls'[k] = c
    BY <1>1, <1>2
  <1> QED BY <1>3 DEF Outer, Announced

LEMMA OuterAppends ==
  ASSUME Inv, Outer, Announced, calls # <<>>, NEW c \in Activations, NEW n \in Activations,
         calls' = Append([calls EXCEPT ![Len(calls)] = c], n), c.service = Current.service,
         c.phase = "announcing" => c.service \in Unguarded,
         n.service \notin Unguarded, n.phase = "enter"
  PROVE  Outer' /\ Announced'
  <1>0. PICK L : L = Len(calls)
    OBVIOUS
  <1>1. CallsOk /\ L \in DOMAIN calls /\ Current = calls[L] /\ L \in Nat \ {0}
        /\ DOMAIN calls = 1..L /\ calls \in Seq(Activations)
    <2>1. CallsOk
      BY DEF Inv
    <2> QED BY <1>0, <2>1, CallsFacts DEF Current, CallsOk
  <1>2. calls' = Append([calls EXCEPT ![L] = c], n)
    BY <1>0
  <1>3. /\ DOMAIN calls' = 1..(L + 1) /\ calls'[L] = c /\ calls'[L + 1] = n
        /\ \A k \in DOMAIN calls : k # L => calls'[k] = calls[k]
    BY <1>0, <1>1, <1>2, ReplaceAndAppend
  <1>4. \A k \in 1..(L + 1) : k = L + 1 \/ k = L \/ (k \in DOMAIN calls /\ k # L)
    BY <1>1
  <1>5. \A k \in DOMAIN calls' :
            \/ /\ k \in DOMAIN calls /\ calls'[k].service = calls[k].service
               /\ calls'[k] = calls[k] \/ calls'[k] = c
            \/ calls'[k] = n
    BY <1>1, <1>3, <1>4
  <1>6. n.phase # "announcing"
    OBVIOUS
  <1> QED BY <1>5, <1>6 DEF Outer, Announced

LEMMA OuterHolds == Spec => [](Outer /\ Announced)
  <1>1. Init => Outer /\ Announced
    BY DEF Init, Outer, Announced
  <1>2. Inv /\ Outer /\ Announced /\ [Next]_vars => Outer' /\ Announced'
    <2> SUFFICES ASSUME Inv, Outer, Announced, [Next]_vars PROVE Outer' /\ Announced'
      OBVIOUS
    <2> USE DEF Outer, Announced
    <2>1. CASE UNCHANGED calls \/ calls' = <<>>
      BY <2>1
    <2>2. CASE CallService
      <3>1. PICK s, d : calls' = <<Activation(s, d, entry[s])>>
        BY <2>2 DEF CallService, Call
      <3>2. Activation(s, d, entry[s]).phase = "enter"
        BY DEF Activation
      <3> QED BY <3>1, <3>2
    <2>3. ASSUME NEW app \in Apps, LoadProgram(app), ~UNCHANGED calls
          PROVE  Outer' /\ Announced'
      <3>1. PICK d : calls' = <<Activation("LoadImage", d, entry["LoadImage"])>>
        BY <2>3 DEF LoadProgram
      <3>2. Activation("LoadImage", d, entry["LoadImage"]).phase = "enter"
        BY DEF Activation
      <3> QED BY <3>1, <3>2
    <2>4. CASE CallStep
      <3> USE DEF CallStep
      <3> HIDE DEF Outer, Announced
      <3>1. calls # <<>> /\ CallsOk /\ PointersOk /\ result \in {"ok", "error"}
        BY <2>4 DEF CoreReturns, LocalLoadImage, TraceCall, TracePrint, TracePrinted,
                    TraceReturn, TraceExit, TraceExitCalls, Enters, Idle, Inv, ResultsOk
      <3>2. /\ Current \in Activations /\ ActivationOk(Current) /\ Len(calls) \in DOMAIN calls
            /\ Current = calls[Len(calls)]
        BY <3>1, CallsFacts DEF Current
      <3>3. Current.phase = "announcing" => Current.service \in Unguarded
        BY <3>2 DEF Announced
      <3> DEFINE out == Activation(Output, NoDevice, entry[Output])
      <3>4. /\ out \in Activations /\ out.phase = "enter" /\ out.service = Output
            /\ Output \notin Unguarded
        <4>1. entry[Output] \in Wrappers \cup {Core, Null}
          BY <3>1, NamesDiffer DEF PointersOk, TypesOk
        <4> QED BY <4>1, NamesDiffer DEF Activation, Activations
      <3>6. Current.service \in Services /\ Current.device \in Devices \cup {NoDevice}
        BY <3>2 DEF Activations
      <3>7. Current.at \in Apps => saved[Current.at][Current.service] \in Wrappers \cup {Core, Null}
        BY <3>1, <3>6 DEF PointersOk, TypesOk, Wrappers
      <3> HIDE DEF out
      <3>8. CASE calls' = Front(calls)
        BY <3>1, <3>8, OuterPops
      <3>9. CASE LocalLoadImage /\ calls' # Front(calls)
        <4> DEFINE c == [Current EXCEPT !.at = saved[Policy]["LoadImage"]]
        <4>1. saved[Policy]["LoadImage"] \in Wrappers \cup {Core, Null}
          BY <3>1, NamesDiffer DEF PointersOk, TypesOk, Wrappers
        <4>2. c \in Activations /\ c.service = Current.service /\ c.phase = Current.phase
          BY <3>2, <4>1 DEF Activations
        <4>3. calls' = [calls EXCEPT ![Len(calls)] = c]
          BY <3>2, <3>9 DEF LocalLoadImage
        <4> QED BY <3>1, <3>3, <4>2, <4>3, OuterReplaces
      <3>10. CASE TraceCall
        <4> DEFINE c == [Current EXCEPT !.phase = "called"]
                   n == Activation(Current.service, Current.device,
                                   saved[Current.at][Current.service])
        <4>1. c \in Activations /\ c.service = Current.service /\ c.phase = "called"
          BY <3>2 DEF Activations
        <4>2. n \in Activations /\ n.service = Current.service /\ n.phase = "enter"
          <5>1. saved[Current.at][Current.service] \in Wrappers \cup {Core, Null}
            BY <3>7, <3>10 DEF TraceCall, Enters
          <5> QED BY <3>6, <5>1 DEF Activation, Activations
        <4>3. /\ calls' = Append([calls EXCEPT ![Len(calls)] = c], n)
              /\ Current.service \notin Unguarded
          BY <3>2, <3>10 DEF TraceCall
        <4> HIDE DEF c, n
        <4> QED BY <3>1, <4>1, <4>2, <4>3, OuterAppends
      <3>11. CASE TracePrint
        <4> DEFINE c == [Current EXCEPT !.phase = "printing", !.status = result]
        <4>1. c \in Activations /\ c.service = Current.service /\ c.phase = "printing"
          BY <3>1, <3>2 DEF Activations
        <4>2. calls' = Append([calls EXCEPT ![Len(calls)] = c], out)
          BY <3>2, <3>11 DEF TracePrint, out
        <4> HIDE DEF c
        <4> QED BY <3>1, <3>4, <4>1, <4>2, OuterAppends
      <3>12. CASE TraceExit
        <4> DEFINE c == [Current EXCEPT !.phase = "announcing"]
        <4>1. c \in Activations /\ c.service = Current.service /\ c.phase = "announcing"
          BY <3>2 DEF Activations
        <4>2. /\ calls' = Append([calls EXCEPT ![Len(calls)] = c], out)
              /\ Current.service \in Unguarded
          BY <3>2, <3>12 DEF TraceExit, out
        <4> HIDE DEF c
        <4> QED BY <3>1, <3>4, <4>1, <4>2, OuterAppends
      <3>13. CASE TraceExitCalls
        <4> DEFINE c == Activation(Current.service, Current.device,
                                   saved[Current.at][Current.service])
        <4>1. Current.at \in Apps
          BY <3>2, <3>13 DEF TraceExitCalls, ActivationOk
        <4>2. c \in Activations /\ c.service = Current.service /\ c.phase = "enter"
          <5>1. saved[Current.at][Current.service] \in Wrappers \cup {Core, Null}
            BY <3>7, <4>1
          <5> QED BY <3>6, <5>1 DEF Activation, Activations
        <4>3. calls' = [calls EXCEPT ![Len(calls)] = c]
          BY <3>13 DEF TraceExitCalls
        <4> HIDE DEF c
        <4> QED BY <3>1, <4>2, <4>3, OuterReplaces
      <3> QED BY <2>4, <3>8, <3>9, <3>10, <3>11, <3>12, <3>13
              DEF CoreReturns, TracePrinted, TraceReturn
    <2>5. ASSUME NEW app \in Apps, StartApp(app) \/ AppStep(app), ~LoadProgram(app)
          PROVE  calls' = <<>>
      BY <2>5 DEF StartApp, AppStep, ProgramLoaded, HookSave, HookReplace, FixCrcAndStart,
                  ProgramReturns, Unhook, FixCrcAndLeave, Leave, At, Idle, callVars
    <2>6. CASE MsBootPolicyLibConstructor
      BY <2>1, <2>6 DEF MsBootPolicyLibConstructor
    <2> QED BY <2>1, <2>2, <2>3, <2>4, <2>5, <2>6 DEF Next, AppStep, vars, callVars
  <1> QED BY InvHolds, <1>1, <1>2, PTL DEF Spec

\* Calls nest no deeper than places in the stack times printing wrappers, whoever hooked
\* what and whichever notification called.
THEOREM ServiceDepth == Spec => []DepthBounded
  <1>1. Init => DepthOk
    BY DEF Init, DepthOk
  <1>2. Inv /\ Outer /\ Announced /\ DepthOk /\ [Next]_vars => DepthOk'
    <2> SUFFICES ASSUME Inv, Outer, Announced, DepthOk, [Next]_vars PROVE DepthOk'
      OBVIOUS
    <2>1. CASE UNCHANGED <<calls, running>>
      <3>1. calls' = calls /\ running' = running
        BY <2>1
      <3>2. \A k : Printing(k)' = Printing(k)
        BY <3>1 DEF Printing
      <3>3. \A k, i : Reach(k, i)' = Reach(k, i) /\ (Level(calls[k].at, i)' <=> Level(calls[k].at, i))
        BY <3>1, <3>2 DEF Reach, Level
      <3>4. \A k : DepthAt(k)' <=> DepthAt(k)
        BY <3>1, <3>3 DEF DepthAt
      <3> QED BY <3>1, <3>4 DEF DepthOk
    <2>2. CASE calls' = <<>>
      BY <2>2 DEF DepthOk
    <2>3. CASE CallService
      <3>1. PICK s \in Services, d \in Devices \cup {NoDevice} : Call(s, d)
        BY <2>3, NamesDiffer DEF CallService
      <3>2. Activation(s, d, entry[s]).at = entry[s]
        BY DEF Activation
      <3> QED BY <3>1, <3>2, DepthStarts DEF Call, appVars
    <2>4. ASSUME NEW app \in Apps, LoadProgram(app)
          PROVE  DepthOk'
      <3>1. CASE UNCHANGED calls
        BY <2>1, <2>4, <3>1 DEF LoadProgram
      <3>2. ASSUME NEW d, calls' = <<Activation("LoadImage", d, entry["LoadImage"])>>
            PROVE  DepthOk'
        <4>1. Activation("LoadImage", d, entry["LoadImage"]).at = entry["LoadImage"]
          BY DEF Activation
        <4> QED BY <2>4, <3>2, <4>1, DepthStarts, NamesDiffer DEF LoadProgram
      <3> QED BY <2>4, <3>1, <3>2 DEF LoadProgram
    <2>5. CASE CallStep
      <3>1. calls # <<>> /\ running' = running
        BY <2>5 DEF CallStep, CoreReturns, LocalLoadImage, TraceCall, TracePrint, TracePrinted,
                    TraceReturn, TraceExit, TraceExitCalls, Enters, Idle, appVars
      <3>2. CASE calls' = Front(calls)
        BY <3>1, <3>2, DepthPops
      <3>3. CASE LocalLoadImage /\ calls' # Front(calls)
        BY <3>3, DepthFilters
      <3> QED BY <2>5, <3>2, <3>3, DepthCalls, DepthPrints, DepthAnnounces, DepthPassesOn
              DEF CallStep, CoreReturns, TracePrinted, TraceReturn
    <2>6. ASSUME NEW app \in Apps, StartApp(app) \/ AppStep(app), ~LoadProgram(app)
          PROVE  calls' = <<>>
      BY <2>6 DEF StartApp, AppStep, ProgramLoaded, HookSave, HookReplace, FixCrcAndStart,
                  ProgramReturns, Unhook, FixCrcAndLeave, Leave, At, Idle, callVars
    <2>7. CASE MsBootPolicyLibConstructor
      BY <2>1, <2>7 DEF MsBootPolicyLibConstructor, appVars
    <2> QED BY <2>1, <2>2, <2>3, <2>4, <2>5, <2>6, <2>7 DEF Next, vars, appVars, callVars
  <1>3. Inv /\ DepthOk => DepthBounded
    <2> SUFFICES ASSUME Inv, DepthOk PROVE DepthBounded
      OBVIOUS
    <2> DEFINE n == Len(running)
               L == Len(calls)
    <2>1. n \in Nat /\ L \in Nat /\ DOMAIN calls = 1..L
      BY RunningFacts
    <2>2. CASE L = 0
      <3>1. (n + 1) * (n + 1) \in Nat
        BY <2>1
      <3> QED BY <2>2, <3>1 DEF DepthBounded
    <2>3. CASE L # 0
      <3> DEFINE p == Cardinality(Printing(L))
      <3>1. PICK i \in 0..n : L =< p * (n + 1) + (n + 2 - i)
        <4>1. L \in DOMAIN calls
          BY <2>1, <2>3
        <4> QED BY <4>1 DEF DepthOk, DepthAt, Reach
      <3>2. p \in Nat /\ p =< n
        BY PrintingFinite
      <3> HIDE DEF p, n, L
      <3>3. PICK d \in Nat : n = p + d
        <4>1. n - p \in Nat /\ n = p + (n - p)
          BY <2>1, <3>2
        <4> QED BY <4>1
      <3>4. /\ p * (n + 1) \in Nat /\ d * (n + 1) \in Nat
            /\ (p + d + 1) * (n + 1) = p * (n + 1) + d * (n + 1) + (n + 1)
        BY <2>1, <3>2, <3>3
      <3>5. L =< (n + 1) * (n + 1) + 1
        <4>1. (n + 1) * (n + 1) = p * (n + 1) + d * (n + 1) + (n + 1)
          BY <3>3, <3>4
        <4> QED BY <2>1, <3>1, <3>2, <3>4, <4>1
      <3> QED BY <3>5 DEF DepthBounded, n, L
    <2> QED BY <2>2, <2>3
  <1> QED BY InvHolds, OuterHolds, <1>1, <1>2, <1>3, PTL DEF Spec

-----------------------------------------------------------------------------
\* The stack of wrappers.  The pointers spell out the instances that have hooked the
\* service, innermost first, and under them the filter.

Height(s) ==
    IF running = <<>> THEN 0 ELSE IF entry[s] = Top THEN Len(running) ELSE Len(running) - 1

Size(s) == Height(s) + IF s = "LoadImage" /\ Filtered THEN 1 ELSE 0

Spelled(k, z) == [i \in 1..z |-> IF i =< k THEN running[k + 1 - i] ELSE Policy]

Stack(s) == Spelled(Height(s), Size(s))

LEMMA SeqOfFacts ==
  ASSUME NEW S, NEW n \in Nat, NEW q
  PROVE  q \in SeqOf(S, n) <=> \E m \in 0..n : q \in [1..m -> S]
  BY DEF SeqOf

LEMMA UnderTop ==
  ASSUME Inv, running # <<>>, NEW s
  PROVE  Under(Len(running), s) # Top
  <1>0. PICK n : n = Len(running)
    OBVIOUS
  <1>1. /\ n \in Nat \ {0} /\ Top \in Apps
        /\ \A i \in 1..n : i # n => running[i] # Top
    BY <1>0, TopFacts DEF Inv
  <1>2. CASE n = 1
    BY <1>0, <1>1, <1>2, NamesDiffer DEF Under, Base
  <1>3. CASE n # 1
    <2>1. n - 1 \in 1..n /\ n - 1 # n
      BY <1>1, <1>3
    <2> QED BY <1>0, <1>1, <1>3, <2>1 DEF Under
  <1> QED BY <1>2, <1>3

\* A pointer of the top instance is its own or the one under it.
LEMMA HeightFacts ==
  ASSUME Inv, NEW s \in Services
  PROVE  /\ Height(s) \in 0..Len(running) /\ Size(s) \in 0..(Len(running) + 1)
         /\ Size(s) \in Height(s)..(Height(s) + 1)
         /\ \A j \in 1..Height(s) : HookedBy(running[j], s) /\ j \in DOMAIN running
         /\ entry[s] = IF Height(s) = 0 THEN Base(s) ELSE running[Height(s)]
  <1> DEFINE n == Len(running)
  <1>1. n \in Nat /\ DOMAIN running = 1..n /\ PointersOk /\ (n = 0 <=> running = <<>>)
    BY RunningFacts DEF Inv, PointersOk, TypesOk
  <1>2. Height(s) \in 0..n
    BY <1>1 DEF Height
  <1>3. \A j \in 1..n : j < n => HookedBy(running[j], s)
    BY <1>1, HookedFacts DEF PointersOk, StackOk, HookedBy
  <1>4. CASE running = <<>>
    BY <1>1, <1>2, <1>4 DEF Height, Size, PointersOk, ChainOk
  <1>5. CASE running # <<>>
    <2>1. /\ n \in Nat \ {0} /\ Top = running[n] /\ Top \in Apps
          /\ \A i \in 1..n : i # n => running[i] # Top
      BY <1>5, TopFacts, <1>1
    <2>2. /\ entry[s] = IF HookedBy(Top, s) THEN Top ELSE Under(n, s)
      BY <1>1, <1>5 DEF PointersOk, ChainOk
    <2>3. Under(n, s) # Top
      BY <1>5, UnderTop
    <2>4. CASE entry[s] = Top
      <3>1. Height(s) = n
        BY <1>5, <2>4 DEF Height
      <3>2. HookedBy(running[n], s)
        BY <2>1, <2>2, <2>3, <2>4
      <3>3. \A j \in 1..n : HookedBy(running[j], s)
        BY <1>1, <1>3, <3>2, Below
      <3>4. Size(s) \in Height(s)..(Height(s) + 1) /\ Size(s) \in 0..(n + 1)
        BY <2>1, <3>1 DEF Size
      <3> QED BY <1>1, <1>2, <2>1, <2>4, <3>1, <3>3, <3>4
    <2>5. CASE entry[s] # Top
      <3>1. Height(s) = n - 1 /\ entry[s] = Under(n, s)
        BY <1>5, <2>2, <2>5 DEF Height
      <3>2. Under(n, s) = IF Height(s) = 0 THEN Base(s) ELSE running[Height(s)]
        BY <2>1, <3>1 DEF Under
      <3>3. \A j \in 1..(n - 1) : j \in 1..n /\ j < n
        BY <2>1
      <3>4. Size(s) \in Height(s)..(Height(s) + 1) /\ Size(s) \in 0..(n + 1)
        BY <2>1, <3>1 DEF Size
      <3> QED BY <1>1, <1>2, <1>3, <3>1, <3>2, <3>3, <3>4
    <2> QED BY <2>4, <2>5
  <1> QED BY <1>4, <1>5

\* They are in front of the service ...
LEMMA StackInFront ==
  ASSUME Inv, NEW s \in Services
  PROVE  /\ Stack(s) \in SeqOf(Wrappers, Len(running) + 1) /\ InFront(Stack(s), s)
         /\ Len(Stack(s)) = Size(s) /\ DOMAIN Stack(s) = 1..Size(s)
  <1> DEFINE n == Len(running)
             h == Height(s)
             z == Size(s)
             q == Stack(s)
  <1>1. /\ n \in Nat /\ DOMAIN running = 1..n /\ PointersOk
        /\ \A i \in 1..n : running[i] \in Apps
    BY RunningFacts DEF Inv
  <1>2. /\ h \in 0..n /\ z \in 0..(n + 1) /\ z \in h..(h + 1)
        /\ \A j \in 1..h : HookedBy(running[j], s) /\ j \in 1..n
        /\ entry[s] = IF h = 0 THEN Base(s) ELSE running[h]
    BY HeightFacts, RunningFacts
  <1>3. z = h + IF s = "LoadImage" /\ Filtered THEN 1 ELSE 0
    BY DEF Size
  <1>4. Base(s) = IF z = h THEN Core ELSE Policy
    BY <1>2, <1>3 DEF Base
  <1>5. \A j \in 1..h : saved[running[j]][s] = IF j = 1 THEN Base(s) ELSE running[j - 1]
    BY <1>1, <1>2 DEF PointersOk, ChainOk, Under
  <1>6. z # h => s = "LoadImage" /\ saved[Policy][s] = Core
    BY <1>1, <1>2, <1>3 DEF PointersOk, ChainOk, Filtered
  <1> HIDE DEF h, z
  <1>7. q = [i \in 1..z |-> IF i =< h THEN running[h + 1 - i] ELSE Policy]
    BY DEF Stack, Spelled, h, z
  <1> HIDE DEF q
  <1>8. \A i \in 1..z : q[i] = IF i =< h THEN running[h + 1 - i] ELSE Policy
    BY <1>7
  <1>9. \A i \in 1..z : q[i] \in Wrappers
    BY <1>1, <1>2, <1>8 DEF Wrappers
  <1>10. q \in [1..z -> Wrappers] /\ DOMAIN q = 1..z /\ Len(q) = z
    BY <1>2, <1>7, <1>9
  <1>11. ASSUME NEW i \in 1..z
         PROVE  q[i] = IF i = 1 THEN entry[s] ELSE saved[q[i - 1]][s]
    <2>1. CASE i = 1
      <3>1. CASE h = 0
        BY <1>2, <1>4, <1>8, <2>1, <3>1
      <3>2. CASE h # 0
        <4>1. i =< h /\ h + 1 - i = h
          BY <1>2, <2>1, <3>2
        <4> QED BY <1>2, <1>8, <2>1, <3>2, <4>1
      <3> QED BY <2>1, <3>1, <3>2
    <2>2. CASE i # 1 /\ i =< h
      <3>1. i - 1 \in 1..z /\ h + 1 - i \in 1..h /\ h + 2 - i \in 1..h /\ h + 2 - i # 1
        BY <1>2, <2>2
      <3>2. q[i - 1] = running[h + 2 - i]
        BY <1>2, <1>8, <2>2, <3>1
      <3>3. saved[running[h + 2 - i]][s] = running[h + 1 - i]
        BY <1>2, <1>5, <2>2, <3>1
      <3> QED BY <1>8, <2>2, <3>2, <3>3
    <2>3. CASE i # 1 /\ i > h
      <3>1. i = h + 1 /\ z # h /\ 1 \in 1..h /\ i - 1 \in 1..z /\ i - 1 = h
        BY <1>2, <2>3
      <3>2. q[i - 1] = running[1]
        BY <1>2, <1>8, <3>1
      <3>3. saved[running[1]][s] = Policy
        BY <1>4, <1>5, <3>1
      <3> QED BY <1>2, <1>8, <2>3, <3>2, <3>3
    <2> QED BY <1>2, <2>1, <2>2, <2>3
  <1>12. (IF q = <<>> THEN entry[s] ELSE saved[q[Len(q)]][s]) = Core
    <2>1. CASE z = 0
      BY <1>2, <1>4, <1>10, <2>1
    <2>2. CASE z # 0 /\ z = h
      <3>1. 1 \in 1..h /\ z \in 1..z
        BY <1>2, <2>2
      <3>2. q[z] = running[1] /\ q # <<>>
        BY <1>2, <1>8, <1>10, <2>2, <3>1
      <3> QED BY <1>4, <1>5, <1>10, <2>2, <3>1, <3>2
    <2>3. CASE z # 0 /\ z # h
      <3>1. z \in 1..z /\ z > h
        BY <1>2, <2>3
      <3>2. q[z] = Policy /\ q # <<>>
        BY <1>2, <1>8, <1>10, <3>1
      <3> QED BY <1>6, <1>10, <2>3, <3>2
    <2> QED BY <2>1, <2>2, <2>3
  <1>13. InFront(q, s)
    BY <1>10, <1>11, <1>12, NamesDiffer DEF InFront, Wrappers
  <1>14. q \in SeqOf(Wrappers, n + 1)
    BY <1>1, <1>2, <1>10, SeqOfFacts
  <1> QED BY <1>10, <1>13, <1>14 DEF q, z

LEMMA InFrontFacts ==
  ASSUME NEW q \in Seq(Wrappers), NEW s, InFront(q, s)
  PROVE  /\ Len(q) \in Nat /\ DOMAIN q = 1..Len(q)
         /\ \A i \in 1..Len(q) : q[i] \in Wrappers
         /\ 1 \in 1..Len(q) => q[1] = entry[s]
         /\ \A i \in 1..Len(q) : i # 1 => q[i] = saved[q[i - 1]][s]
         /\ Len(q) = 0 => entry[s] \notin Wrappers
         /\ Len(q) # 0 => saved[q[Len(q)]][s] \notin Wrappers
  <1>1. /\ Len(q) \in Nat /\ DOMAIN q = 1..Len(q) /\ (Len(q) = 0 <=> q = <<>>)
        /\ \A i \in 1..Len(q) : q[i] \in Wrappers
    OBVIOUS
  <1>2. \A i \in 1..Len(q) : q[i] = IF i = 1 THEN entry[s] ELSE saved[q[i - 1]][s]
    BY <1>1 DEF InFront
  <1>3. (IF q = <<>> THEN entry[s] ELSE saved[q[Len(q)]][s]) \notin Wrappers
    BY DEF InFront
  <1> QED BY <1>1, <1>2, <1>3

LEMMA LeastOfNaturals ==
  ASSUME NEW D, D \subseteq Nat, D # {}
  PROVE  \E i \in D : \A j \in D : ~(j < i)
  <1>1. IsWellFoundedOn(OpToRel(<, Nat), Nat)
    BY NatLessThanWellFounded
  <1>2. PICK i \in D : \A j \in D : ~(<<j, i>> \in OpToRel(<, Nat))
    BY <1>1, WFMin
  <1> QED BY <1>2 DEF OpToRel

\* Two chains agree as far as both go, ...
LEMMA InFrontAgree ==
  ASSUME NEW q \in Seq(Wrappers), NEW r \in Seq(Wrappers), NEW s, InFront(q, s), InFront(r, s)
  PROVE  \A i \in 1..Len(q) : i \in 1..Len(r) => q[i] = r[i]
  <1> DEFINE D == {i \in Nat : i \in 1..Len(q) /\ i \in 1..Len(r) /\ q[i] # r[i]}
  <1>1. Len(q) \in Nat /\ Len(r) \in Nat
    BY InFrontFacts
  <1>2. D = {}
    <2> SUFFICES ASSUME D # {} PROVE FALSE
      OBVIOUS
    <2>1. PICK i \in D : \A j \in D : ~(j < i)
      <3>1. D \subseteq Nat
        OBVIOUS
      <3> HIDE DEF D
      <3> QED BY <3>1, LeastOfNaturals
    <2>2. q[i] # r[i] /\ i \in 1..Len(q) /\ i \in 1..Len(r)
      BY <2>1
    <2>3. i # 1
      BY <2>2, InFrontFacts
    <2>4. i - 1 \in 1..Len(q) /\ i - 1 \in 1..Len(r) /\ i - 1 \in Nat /\ i - 1 < i
      BY <1>1, <2>2, <2>3
    <2>5. q[i - 1] = r[i - 1]
      BY <2>1, <2>4
    <2>6. q[i] = saved[q[i - 1]][s] /\ r[i] = saved[r[i - 1]][s]
      BY <2>2, <2>3, InFrontFacts
    <2> QED BY <2>2, <2>5, <2>6
  <1>3. \A i \in 1..Len(q) : i \in Nat
    BY <1>1
  <1> QED BY <1>2, <1>3

\* ... and neither goes on where the other ends.
LEMMA InFrontEnds ==
  ASSUME NEW q \in Seq(Wrappers), NEW r \in Seq(Wrappers), NEW s, InFront(q, s), InFront(r, s)
  PROVE  ~(Len(q) < Len(r))
  <1> SUFFICES ASSUME Len(q) < Len(r) PROVE FALSE
    OBVIOUS
  <1>0. PICK m : m = Len(q)
    OBVIOUS
  <1>1. m \in Nat /\ Len(r) \in Nat /\ m + 1 \in 1..Len(r)
    BY <1>0, InFrontFacts
  <1>2. r[m + 1] \in Wrappers
    BY <1>1, InFrontFacts
  <1>3. CASE m = 0
    <2>1. r[1] = entry[s] /\ m + 1 = 1
      BY <1>1, <1>3, InFrontFacts
    <2>2. Len(q) = 0 => entry[s] \notin Wrappers
      BY InFrontFacts
    <2>3. r[m + 1] = r[1]
      BY <2>1
    <2> QED BY <1>0, <1>2, <1>3, <2>1, <2>2, <2>3
  <1>4. CASE m # 0
    <2>1. m \in 1..m /\ m \in 1..Len(r) /\ m + 1 # 1 /\ (m + 1) - 1 = m
      BY <1>1, <1>4
    <2>2. r[m + 1] = saved[r[m]][s]
      BY <1>1, <2>1, InFrontFacts
    <2>3. q[m] = r[m]
      BY <1>0, <2>1, InFrontAgree
    <2> QED BY <1>0, <1>2, <1>4, <2>2, <2>3, InFrontFacts
  <1> QED BY <1>3, <1>4

\* Nothing else is in front of the service: pointers lead one way.
LEMMA InFrontUnique ==
  ASSUME NEW q \in Seq(Wrappers), NEW r \in Seq(Wrappers), NEW s, InFront(q, s), InFront(r, s)
  PROVE  q = r
  <1>1. Len(q) = Len(r)
    <2>1. Len(q) \in Nat /\ Len(r) \in Nat
      BY InFrontFacts
    <2>2. ~(Len(q) < Len(r)) /\ ~(Len(r) < Len(q))
      BY InFrontEnds
    <2> QED BY <2>1, <2>2
  <1>2. \A i \in 1..Len(q) : q[i] = r[i]
    BY <1>1, InFrontAgree
  <1> QED BY <1>1, <1>2

\* The chain read off the pointers.
LEMMA ChainIsStack == Inv => PointerChain = [s \in Services |-> Stack(s)]
  <1> SUFFICES ASSUME Inv, NEW s \in Services
               PROVE  (CHOOSE q \in SeqOf(Wrappers, Len(running) + 1) : InFront(q, s)) = Stack(s)
    BY DEF PointerChain
  <1> DEFINE S == SeqOf(Wrappers, Len(running) + 1)
             c == CHOOSE q \in S : InFront(q, s)
  <1>1. Stack(s) \in S /\ InFront(Stack(s), s)
    BY StackInFront
  <1>2. c \in S /\ InFront(c, s)
    BY <1>1
  <1>3. \A q \in S : q \in Seq(Wrappers)
    <2>1. Len(running) + 1 \in Nat
      BY RunningFacts
    <2> QED BY <2>1, SeqOfFacts
  <1> HIDE DEF S, c
  <1>4. c = Stack(s)
    BY <1>1, <1>2, <1>3, InFrontUnique
  <1> QED BY <1>4 DEF c, S

LEMMA SpelledCons ==
  ASSUME Inv, NEW k \in 0..(Len(running) - 1), NEW z \in Nat, z >= k
  PROVE  Spelled(k + 1, z + 1) = <<running[k + 1]>> \o Spelled(k, z)
  <1> DEFINE w == running[k + 1]
             q == Spelled(k, z)
             r == Spelled(k + 1, z + 1)
  <1>1. /\ Len(running) \in Nat /\ DOMAIN running = 1..Len(running) /\ k \in Nat
        /\ \A i \in 1..(k + 1) : running[i] \in Wrappers
    BY RunningFacts DEF Wrappers
  <1>2. /\ q \in Seq(Wrappers) /\ Len(q) = z /\ DOMAIN q = 1..z
        /\ \A i \in 1..z : q[i] = IF i =< k THEN running[k + 1 - i] ELSE Policy
    <2>1. \A i \in 1..z : (IF i =< k THEN running[k + 1 - i] ELSE Policy) \in Wrappers
      BY <1>1 DEF Wrappers
    <2> QED BY <2>1 DEF Spelled
  <1>3. /\ r \in Seq(Wrappers) /\ Len(r) = z + 1 /\ DOMAIN r = 1..(z + 1)
        /\ \A i \in 1..(z + 1) : r[i] = IF i =< k + 1 THEN running[k + 1 + 1 - i] ELSE Policy
    <2>1. \A i \in 1..(z + 1) :
             (IF i =< k + 1 THEN running[k + 1 + 1 - i] ELSE Policy) \in Wrappers
      BY <1>1 DEF Wrappers
    <2> QED BY <2>1 DEF Spelled
  <1>w. w \in Wrappers
    BY <1>1
  <1> HIDE DEF w, q, r
  <1>4. /\ <<w>> \o q \in Seq(Wrappers) /\ Len(<<w>> \o q) = z + 1
        /\ (<<w>> \o q)[1] = w
        /\ \A i \in 1..z : (<<w>> \o q)[i + 1] = q[i]
    <2>1. <<w>> \in Seq(Wrappers) /\ Len(<<w>>) = 1 /\ <<w>>[1] = w
      BY <1>w
    <2>2. /\ <<w>> \o q \in Seq(Wrappers) /\ Len(<<w>> \o q) = Len(<<w>>) + Len(q)
          /\ \A i \in 1..(Len(<<w>>) + Len(q)) :
                (<<w>> \o q)[i] = IF i =< Len(<<w>>) THEN <<w>>[i] ELSE q[i - Len(<<w>>)]
      BY <1>2, <2>1, ConcatProperties
    <2>3. \A i \in 1..(1 + z) : (<<w>> \o q)[i] = IF i =< 1 THEN <<w>>[i] ELSE q[i - 1]
      BY <1>2, <2>1, <2>2
    <2> HIDE DEF w
    <2>4. (<<w>> \o q)[1] = w
      BY <2>1, <2>3
    <2>5. ASSUME NEW i \in 1..z PROVE (<<w>> \o q)[i + 1] = q[i]
      <3>1. i + 1 \in 1..(1 + z) /\ ~(i + 1 =< 1) /\ (i + 1) - 1 = i
        OBVIOUS
      <3> QED BY <2>3, <3>1
    <2> QED BY <1>2, <2>1, <2>2, <2>4, <2>5
  <1>5. r[1] = w /\ \A i \in 1..z : r[i + 1] = q[i]
    <2>1. r[1] = w
      BY <1>1, <1>3 DEF w
    <2>2. ASSUME NEW i \in 1..z PROVE r[i + 1] = q[i]
      <3>1. i + 1 \in 1..(z + 1) /\ (i + 1 =< k + 1 <=> i =< k) /\ k + 1 + 1 - (i + 1) = k + 1 - i
        BY <1>1
      <3> QED BY <1>2, <1>3, <3>1
    <2> QED BY <2>1, <2>2
  <1>6. \A i \in 1..(z + 1) : r[i] = (<<w>> \o q)[i]
    <2> TAKE i \in 1..(z + 1)
    <2>1. CASE i = 1
      BY <1>4, <1>5, <2>1
    <2>2. CASE i # 1
      <3>1. i - 1 \in 1..z /\ (i - 1) + 1 = i
        BY <2>2
      <3> QED BY <1>4, <1>5, <3>1
    <2> QED BY <2>1, <2>2
  <1>7. r = <<w>> \o q
    BY <1>3, <1>4, <1>6
  <1> QED BY <1>7 DEF q, r, w

LEMMA StackSame ==
  ASSUME NEW s, running' = running, entry'[s] = entry[s], Filtered' <=> Filtered
  PROVE  Stack(s)' = Stack(s)
  <1>1. Height(s)' = Height(s)
    BY DEF Height, Top
  <1>2. Size(s)' = Size(s)
    BY <1>1 DEF Size
  <1> QED BY <1>1, <1>2 DEF Stack, Spelled

LEMMA StackStarts ==
  ASSUME Inv, NEW app \in Apps, StartApp(app), NEW s \in Services
  PROVE  Stack(s)' = Stack(s)
  <1>0. PICK n : n = Len(running)
    OBVIOUS
  <1>1. /\ n \in Nat /\ DOMAIN running = 1..n /\ PointersOk /\ running \in Seq(Apps)
        /\ \A i \in 1..n : running[i] # app
    BY <1>0, RunningFacts DEF Inv, PointersOk, TypesOk, StackOk, StartApp
  <1>2. /\ Len(running') = n + 1 /\ DOMAIN running' = 1..(n + 1) /\ running' # <<>>
        /\ \A i \in 1..n : running'[i] = running[i]
        /\ running'[n + 1] = app
    BY <1>0, <1>1, AppendFacts DEF StartApp
  <1>3. Top' = app /\ entry' = entry
    BY <1>2 DEF Top, StartApp
  <1>4. Filtered' <=> Filtered
    BY <1>1, NamesDiffer DEF StartApp, Filtered, PointersOk, TypesOk, Wrappers
  <1>5. Height(s) = n
    <2>1. CASE running = <<>>
      BY <1>0, <2>1 DEF Height
    <2>2. CASE running # <<>>
      <3>1. pc[Top] = "started"
        BY <2>2 DEF StartApp
      <3>2. HookedBy(Top, s)
        BY <3>1, HookedFacts DEF HookedBy
      <3>3. entry[s] = Top
        BY <1>1, <2>2, <3>2 DEF PointersOk, ChainOk
      <3> QED BY <1>0, <2>2, <3>3 DEF Height
    <2> QED BY <2>1, <2>2
  <1>6. Height(s)' = n
    <2>1. entry[s] # app
      <3>1. entry[s] = IF n = 0 THEN Base(s) ELSE running[n]
        BY <1>5, HeightFacts
      <3> QED BY <1>1, <3>1, NamesDiffer DEF Base
    <2> QED BY <1>1, <1>2, <1>3, <2>1 DEF Height
  <1>7. Size(s)' = Size(s)
    BY <1>4, <1>5, <1>6 DEF Size
  <1>8. \A z : Spelled(n, z)' = Spelled(n, z)
    <2>1. \A i \in Nat \ {0} : i =< n => n + 1 - i \in 1..n
      BY <1>1
    <2>2. \A z : \A i \in 1..z : i =< n => running'[n + 1 - i] = running[n + 1 - i]
      BY <1>2, <2>1
    <2> QED BY <2>2 DEF Spelled
  <1>9. PICK z : z = Size(s)
    OBVIOUS
  <1>10. Stack(s) = Spelled(n, z)
    BY <1>5, <1>9 DEF Stack
  <1>11. Stack(s)' = Spelled(n, z)'
    BY <1>6, <1>7, <1>9 DEF Stack, Spelled
  <1> QED BY <1>8, <1>10, <1>11

LEMMA StackLeaves ==
  ASSUME Inv, NEW app \in Apps, Leave(app), NEW s \in Services
  PROVE  Stack(s)' = Stack(s)
  <1>0. PICK n : n = Len(running)
    OBVIOUS
  <1>1. /\ n \in Nat \ {0} /\ DOMAIN running = 1..n /\ PointersOk /\ running \in Seq(Apps)
        /\ running # <<>> /\ Top = app /\ pc[app] = "leaving"
    <2>1. At(app, "leaving")
      BY DEF Leave
    <2>2. running # <<>> /\ Top = app /\ pc[app] = "leaving" /\ PointersOk /\ TypesOk
      BY <2>1, AtFacts
    <2> QED BY <1>0, <2>2, TopFacts DEF TypesOk
  <1>2. /\ Len(running') = n - 1 /\ DOMAIN running' = 1..(n - 1)
        /\ \A i \in 1..(n - 1) : running'[i] = running[i]
    BY <1>0, <1>1, FrontFacts DEF Leave
  <1>3. entry' = entry /\ saved' = saved
    BY DEF Leave, tableVars
  <1>4. entry[s] # app
    <2>1. ~HookedBy(Top, s)
      BY <1>1 DEF HookedBy
    <2>2. entry[s] = Under(n, s)
      BY <1>0, <1>1, <2>1 DEF PointersOk, ChainOk
    <2> QED BY <1>0, <1>1, <2>2, UnderTop
  <1>5. Height(s) = n - 1
    BY <1>0, <1>1, <1>4 DEF Height
  <1>6. Height(s)' = n - 1
    <2>1. CASE n = 1
      <3>1. running' = <<>>
        BY <1>1, <1>2, <2>1 DEF Leave, Front
      <3> QED BY <2>1, <3>1 DEF Height
    <2>2. CASE n # 1
      <3>1. n - 1 \in 1..(n - 1) /\ running' # <<>>
        BY <1>1, <1>2, <2>2
      <3>2. Top' = running[n - 1]
        BY <1>2, <3>1 DEF Top
      <3>3. entry[s] = running[n - 1]
        BY <1>1, <1>5, <2>2, HeightFacts
      <3> QED BY <1>2, <1>3, <3>1, <3>2, <3>3 DEF Height
    <2> QED BY <2>1, <2>2
  <1>7. Size(s)' = Size(s)
    BY <1>3, <1>5, <1>6 DEF Size, Filtered
  <1>8. \A z : Spelled(n - 1, z)' = Spelled(n - 1, z)
    <2>1. \A i \in Nat \ {0} : i =< n - 1 => (n - 1) + 1 - i \in 1..(n - 1)
      BY <1>1
    <2>2. \A z : \A i \in 1..z : i =< n - 1 => running'[(n - 1) + 1 - i] = running[(n - 1) + 1 - i]
      BY <1>2, <2>1
    <2> QED BY <2>2 DEF Spelled
  <1>9. PICK z : z = Size(s)
    OBVIOUS
  <1>10. Stack(s) = Spelled(n - 1, z)
    BY <1>5, <1>9 DEF Stack
  <1>11. Stack(s)' = Spelled(n - 1, z)'
    BY <1>6, <1>7, <1>9 DEF Stack, Spelled
  <1> QED BY <1>8, <1>10, <1>11

-----------------------------------------------------------------------------
\* What each step does to the chain.

LEMMA ChainIsStackNext == Inv' => (PointerChain = [s \in Services |-> Stack(s)])'
  BY ChainIsStack, PTL

LEMMA SameChain ==
  ASSUME Inv, Inv', \A s \in Services : Stack(s)' = Stack(s)
  PROVE  PointerChain' = PointerChain
  <1>1. PointerChain = [s \in Services |-> Stack(s)]
    BY ChainIsStack
  <1>2. (PointerChain = [s \in Services |-> Stack(s)])'
    BY ChainIsStackNext
  <1> QED BY <1>1, <1>2

LEMMA ChangedAt ==
  ASSUME NEW S, NEW f, NEW g, NEW s \in S, f = [t \in S |-> f[t]], g = [t \in S |-> g[t]],
         \A t \in S : t # s => g[t] = f[t]
  PROVE  g = [f EXCEPT ![s] = g[s]]
  OBVIOUS

\* A wrapper is put on top.
LEMMA WrapsChain ==
  ASSUME Inv, Inv', NEW s \in Services, NEW w \in Wrappers,
         Stack(s)' = <<w>> \o Stack(s), \A i \in DOMAIN Stack(s) : Stack(s)[i] # w,
         \A t \in Services : t # s => Stack(t)' = Stack(t)
  PROVE  Chain!Wrap(w, s)
  <1>1. PointerChain = [t \in Services |-> Stack(t)]
    BY ChainIsStack
  <1>2. (PointerChain = [t \in Services |-> Stack(t)])'
    BY ChainIsStackNext
  <1>3. PointerChain[s] = Stack(s) /\ PointerChain'[s] = Stack(s)'
    BY <1>1, <1>2
  <1>4. PointerChain' = [PointerChain EXCEPT ![s] = PointerChain'[s]]
    <2>1. \A t \in Services : t # s => PointerChain'[t] = PointerChain[t]
      BY <1>1, <1>2
    <2>2. /\ PointerChain = [t \in Services |-> PointerChain[t]]
          /\ PointerChain' = [t \in Services |-> PointerChain'[t]]
      BY <1>1, <1>2
    <2> QED BY <2>1, <2>2, ChangedAt
  <1> QED BY <1>3, <1>4 DEF Chain!Wrap, Chain!Only

\* The top wrapper is taken away.
LEMMA UnwrapsChain ==
  ASSUME Inv, Inv', NEW s \in Services, NEW w \in Wrappers, Stack(s) = <<w>> \o Stack(s)',
         \A t \in Services : t # s => Stack(t)' = Stack(t)
  PROVE  Chain!Unwrap(w, s)
  <1>1. PointerChain = [t \in Services |-> Stack(t)]
    BY ChainIsStack
  <1>2. (PointerChain = [t \in Services |-> Stack(t)])'
    BY ChainIsStackNext
  <1>3. PointerChain[s] = Stack(s) /\ PointerChain'[s] = Stack(s)'
    BY <1>1, <1>2
  <1>4. PointerChain' = [PointerChain EXCEPT ![s] = PointerChain'[s]]
    <2>1. \A t \in Services : t # s => PointerChain'[t] = PointerChain[t]
      BY <1>1, <1>2
    <2>2. /\ PointerChain = [t \in Services |-> PointerChain[t]]
          /\ PointerChain' = [t \in Services |-> PointerChain'[t]]
      BY <1>1, <1>2
    <2> QED BY <2>1, <2>2, ChangedAt
  <1> QED BY <1>3, <1>4 DEF Chain!Unwrap, Chain!Only

LEMMA ConstructorWraps ==
  ASSUME Inv, Inv', MsBootPolicyLibConstructor
  PROVE  Chain!Wrap(Policy, "LoadImage")
  <1>1. /\ running = <<>> /\ running' = <<>> /\ ~Filtered /\ "LoadImage" \in Services
        /\ \A t \in Services : t # "LoadImage" => entry'[t] = entry[t]
    BY NamesDiffer DEF MsBootPolicyLibConstructor, Filtered, appVars, Inv, PointersOk, TypesOk
  <1>2. Filtered'
    <2>1. entry["LoadImage"] \in Wrappers \cup {Core}
      BY <1>1 DEF Inv, PointersOk, TypesOk
    <2> QED BY <1>1, <2>1, NamesDiffer
            DEF MsBootPolicyLibConstructor, Filtered, Inv, PointersOk, TypesOk, Wrappers
  <1>3. \A t : Height(t) = 0 /\ Height(t)' = 0
    BY <1>1 DEF Height
  <1>4. Size("LoadImage") = 0 /\ Size("LoadImage")' = 1
    BY <1>1, <1>2, <1>3 DEF Size
  <1>5. \A t \in Services : t # "LoadImage" => Stack(t)' = Stack(t)
    BY <1>3 DEF Stack, Spelled, Size
  <1>6. Stack("LoadImage") = <<>>
    BY <1>4 DEF Stack, Spelled
  <1>7. Stack("LoadImage")' = <<Policy>>
    <2>1. Stack("LoadImage")' = [i \in 1..1 |-> Policy]
      BY <1>3, <1>4 DEF Stack, Spelled
    <2> QED BY <2>1
  <1>8. Stack("LoadImage")' = <<Policy>> \o Stack("LoadImage")
    <2>1. <<Policy>> \o <<>> = <<Policy>>
      OBVIOUS
    <2> QED BY <1>6, <1>7, <2>1, Zenon
  <1> QED BY <1>1, <1>5, <1>6, <1>8, WrapsChain DEF Wrappers

\* The top of the stack goes from what lies under the innermost instance to that
\* instance, or back.
LEMMA TopOnStack ==
  ASSUME Inv, running # <<>>, NEW s \in Services, entry[s] # Top
  PROVE  /\ Height(s) = Len(running) - 1 /\ Size(s) \in Nat /\ Size(s) >= Len(running) - 1
         /\ Spelled(Len(running), Size(s) + 1) = <<Top>> \o Stack(s)
  <1>0. PICK n, z : n = Len(running) /\ z = Size(s)
    OBVIOUS
  <1>1. n \in Nat \ {0} /\ Top = running[n]
    BY <1>0, TopFacts DEF Inv
  <1>2. Height(s) = n - 1
    BY <1>0 DEF Height
  <1>3. z \in Nat /\ z >= n - 1
    BY <1>0, <1>1, <1>2, HeightFacts, RunningFacts
  <1>4. n - 1 \in 0..(n - 1) /\ (n - 1) + 1 = n
    BY <1>1
  <1>5. Spelled((n - 1) + 1, z + 1) = <<running[(n - 1) + 1]>> \o Spelled(n - 1, z)
    BY <1>0, <1>3, <1>4, SpelledCons
  <1>6. Spelled(n - 1, z) = Stack(s)
    BY <1>0, <1>2 DEF Stack
  <1> QED BY <1>0, <1>1, <1>2, <1>3, <1>4, <1>5, <1>6

LEMMA HookWraps ==
  ASSUME Inv, Inv', NEW app \in Apps, HookReplace(app)
  PROVE  \E s \in Services : Chain!Wrap(app, s)
  <1>0. PICK f : f = field[app]
    OBVIOUS
  <1>1. /\ running # <<>> /\ Top = app /\ pc[app] = "replace" /\ PointersOk /\ TypesOk
    <2>1. At(app, "replace")
      BY DEF HookReplace
    <2> QED BY <2>1, AtFacts
  <1>2. f \in 1..Len(Hooked)
    BY <1>0, <1>1 DEF PointersOk, StackOk
  <1>3. PICK s \in Services : s = Hooked[f]
    BY <1>2, HookedFacts
  <1>4. /\ running' = running /\ saved' = saved /\ (Filtered' <=> Filtered) /\ entry'[s] = app
        /\ \A t \in Services : t # s => entry'[t] = entry[t]
    BY <1>0, <1>1, <1>3 DEF HookReplace, Filtered, TypesOk
  <1>5. entry[s] # Top
    <2>1. ~HookedBy(Top, s)
      BY <1>0, <1>1, <1>2, <1>3, HookedFacts, ConstantsAssumption DEF HookedBy
    <2>2. entry[s] = Under(Len(running), s)
      BY <1>1, <2>1 DEF PointersOk, ChainOk
    <2> QED BY <1>1, <2>2, UnderTop
  <1>6. \A t \in Services : t # s => Stack(t)' = Stack(t)
    BY <1>4, StackSame
  <1>7. PICK n, z : n = Len(running) /\ z = Size(s)
    OBVIOUS
  <1>8. /\ Height(s) = n - 1 /\ z \in Nat /\ n \in Nat \ {0}
        /\ Spelled(n, z + 1) = <<app>> \o Stack(s)
    BY <1>1, <1>5, <1>7, TopOnStack, TopFacts
  <1>9. Height(s)' = n
    BY <1>1, <1>4, <1>7 DEF Height, Top
  <1>10. Size(s)' = z + 1
    BY <1>4, <1>7, <1>8, <1>9 DEF Size
  <1>11. Stack(s)' = <<app>> \o Stack(s)
    <2>1. Stack(s)' = Spelled(n, z + 1)
      BY <1>4, <1>9, <1>10 DEF Stack, Spelled
    <2> QED BY <1>8, <2>1
  <1>12. \A i \in DOMAIN Stack(s) : Stack(s)[i] # app
    <2>1. Stack(s) = [i \in 1..z |-> IF i =< n - 1 THEN running[(n - 1) + 1 - i] ELSE Policy]
      BY <1>7, <1>8 DEF Stack, Spelled
    <2>2. \A i \in 1..n : i # n => running[i] # app
      BY <1>1, <1>7, TopFacts
    <2>3. \A i \in 1..z : i =< n - 1 => (n - 1) + 1 - i \in 1..n /\ (n - 1) + 1 - i # n
      BY <1>8
    <2> QED BY <2>1, <2>2, <2>3, NamesDiffer
  <1> QED BY <1>6, <1>11, <1>12, WrapsChain DEF Wrappers

LEMMA UnhookUnwraps ==
  ASSUME Inv, Inv', NEW app \in Apps, Unhook(app)
  PROVE  \E s \in Services : Chain!Unwrap(app, s)
  <1>0. PICK f : f = field[app]
    OBVIOUS
  <1>1. /\ running # <<>> /\ Top = app /\ pc[app] = "unhook" /\ PointersOk /\ TypesOk
    <2>1. At(app, "unhook")
      BY DEF Unhook
    <2> QED BY <2>1, AtFacts
  <1>2. f \in 1..Len(Hooked)
    BY <1>0, <1>1 DEF PointersOk, StackOk
  <1>3. PICK s \in Services : s = Hooked[f]
    BY <1>2, HookedFacts
  <1>4. /\ running' = running /\ saved' = saved /\ (Filtered' <=> Filtered)
        /\ entry'[s] = saved[app][s]
        /\ \A t \in Services : t # s => entry'[t] = entry[t]
    BY <1>0, <1>1, <1>3 DEF Unhook, Filtered, TypesOk
  <1>5. HookedBy(app, s)
    BY <1>0, <1>1, <1>2, <1>3, HookedFacts DEF HookedBy
  <1>6. entry[s] = app /\ entry'[s] # app
    <2>1. At(app, "unhook")
      BY DEF Unhook
    <2>2. entry[s] = app /\ saved[app][s] = Under(Len(running), s)
      BY <1>5, <2>1, AtFacts
    <2> QED BY <1>1, <1>4, <2>2, UnderTop
  <1>7. \A t \in Services : t # s => Stack(t)' = Stack(t)
    BY <1>4, StackSame
  <1>8. PICK n, z : n = Len(running) /\ z = Size(s)'
    OBVIOUS
  <1>9. /\ (Height(s) = n - 1)' /\ z \in Nat /\ n \in Nat \ {0}
        /\ Spelled(n, z + 1)' = <<app>> \o Stack(s)'
    <2>1. (running # <<>> /\ entry[s] # Top /\ Top = app)'
      BY <1>1, <1>4, <1>6 DEF Top
    <2>2. /\ (Height(s) = Len(running) - 1)' /\ (Size(s) \in Nat)'
          /\ (Spelled(Len(running), Size(s) + 1) = <<Top>> \o Stack(s))'
      BY <2>1, TopOnStack, PTL
    <2> QED BY <1>1, <1>4, <1>8, <2>1, <2>2, TopFacts DEF Spelled
  <1>10. Height(s) = n
    BY <1>1, <1>6, <1>8 DEF Height
  <1>11. Size(s) = z + 1
    BY <1>4, <1>8, <1>9, <1>10 DEF Size
  <1>12. Stack(s) = <<app>> \o Stack(s)'
    <2>1. Stack(s) = Spelled(n, z + 1)'
      BY <1>4, <1>10, <1>11 DEF Stack, Spelled
    <2> QED BY <1>9, <2>1
  <1> QED BY <1>7, <1>12, UnwrapsChain DEF Wrappers

\* Every other step leaves the chain alone.
LEMMA OthersKeepChain ==
  ASSUME Inv, Inv', UNCHANGED <<entry, running>>, Filtered' <=> Filtered
  PROVE  PointerChain' = PointerChain
  <1>1. \A s \in Services : Stack(s)' = Stack(s)
    BY StackSame
  <1> QED BY <1>1, SameChain

\* The two pointers of each wrapper implement a stack of wrappers, for any number of
\* services and of nested instances: each HOOK puts one on top, each UNHOOK takes
\* exactly that one away, and no other step, from whichever image or notification,
\* changes what stands before a service.
THEOREM PointersImplementChain == Spec => ImplementsChain
  <1>1. Init => Chain!Init
    <2> SUFFICES ASSUME Init PROVE Chain!Init
      OBVIOUS
    <2>1. Inv
      BY InitInv
    <2>2. \A s \in Services : Size(s) = 0
      BY NamesDiffer DEF Init, Size, Height, Filtered, Wrappers
    <2>3. \A s \in Services : Stack(s) = <<>>
      BY <2>2 DEF Stack, Spelled
    <2>4. PointerChain = [s \in Services |-> Stack(s)]
      BY <2>1, ChainIsStack
    <2> QED BY <2>3, <2>4 DEF Chain!Init
  <1>2. Inv /\ Inv' /\ [Next]_vars => [Chain!Next]_PointerChain
    <2> SUFFICES ASSUME Inv, Inv', [Next]_vars PROVE [Chain!Next]_PointerChain
      OBVIOUS
    <2>1. CASE UNCHANGED <<entry, saved, running>>
      BY <2>1, OthersKeepChain DEF Filtered
    <2>2. CASE MsBootPolicyLibConstructor
      BY <2>2, ConstructorWraps, NamesDiffer DEF Chain!Next, Wrappers
    <2>3. ASSUME NEW app \in Apps, StartApp(app) PROVE [Chain!Next]_PointerChain
      BY <2>3, StackStarts, SameChain
    <2>4. ASSUME NEW app \in Apps, Leave(app) PROVE [Chain!Next]_PointerChain
      BY <2>4, StackLeaves, SameChain
    <2>5. ASSUME NEW app \in Apps, HookReplace(app) PROVE [Chain!Next]_PointerChain
      BY <2>5, HookWraps DEF Chain!Next, Wrappers
    <2>6. ASSUME NEW app \in Apps, Unhook(app) PROVE [Chain!Next]_PointerChain
      BY <2>6, UnhookUnwraps DEF Chain!Next, Wrappers
    <2>7. ASSUME NEW app \in Apps, HookSave(app) PROVE [Chain!Next]_PointerChain
      <3>1. entry' = entry /\ running' = running
        BY <2>7 DEF HookSave
      <3>2. Filtered' <=> Filtered
        BY <2>7, NamesDiffer DEF HookSave, Filtered, Inv, PointersOk, TypesOk, Wrappers
      <3> QED BY <3>1, <3>2, OthersKeepChain
    <2>8. CASE CallService \/ CallStep
      BY <2>1, <2>8 DEF CallService, Call, CallStep, CoreReturns, LocalLoadImage, TraceCall,
            TracePrint, TracePrinted, TraceReturn, TraceExit, TraceExitCalls, tableVars,
            appVars
    <2>9. ASSUME NEW app \in Apps, \/ LoadProgram(app) \/ ProgramLoaded(app)
                                   \/ FixCrcAndStart(app) \/ ProgramReturns(app)
                                   \/ FixCrcAndLeave(app)
          PROVE  [Chain!Next]_PointerChain
      BY <2>1, <2>9 DEF LoadProgram, ProgramLoaded, FixCrcAndStart, ProgramReturns,
            FixCrcAndLeave, tableVars
    <2>10. CASE UNCHANGED vars
      BY <2>1, <2>10 DEF vars, tableVars, appVars
    <2> QED BY <2>2, <2>3, <2>4, <2>5, <2>6, <2>7, <2>8, <2>9, <2>10 DEF Next, AppStep
  <1> QED BY InvHolds, <1>1, <1>2, PTL DEF Spec, ImplementsChain, Chain!Spec
=============================================================================
