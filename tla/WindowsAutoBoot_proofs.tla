----------------------- MODULE WindowsAutoBoot_proofs -----------------------
(***************************************************************************)
(* The safety properties of WindowsAutoBoot, for any set of volumes.       *)
(***************************************************************************)
EXTENDS WindowsAutoBoot, TLAPS

\* Before the driver is ready nothing of it runs.
Dormant ==
    driver # "ready" =>
        /\ unseen = {} /\ ~fsSignal /\ rtb = "none" /\ handler = "none"
        /\ ~mWindowsStarted /\ owed = {}

\* A handler runs exactly while it has a step to take, and none after the end
\* of boot services.
HandlerSteps ==
    /\ handler = "none" <=> step = "idle"
    /\ os => step = "idle"

\* No loader is launched after one that succeeded, and the flag agrees.
Flag ==
    /\ ~os => (mWindowsStarted <=> (step \in {"load", "run"} \/ succeeded))
    /\ step \in {"load", "run"} => ~succeeded

\* A handle the registration has not returned is announced, or the handler
\* that returns it is running.
Announced == unseen # {} => fsSignal \/ handler = "notify" \/ succeeded \/ os

\* What is owed a try is ahead of one of the two handlers.
Ahead(v) ==
    \/ v \in unseen
    \/ handler = "readyToBoot" /\ v \in todo
    \/ step \in {"try", "load"} /\ v = vol

OwedAhead == ~os /\ ~succeeded => \A v \in owed : v \in fs /\ Ahead(v)

\* The launches a volume may still get out of its past installations.
One(p) == IF p THEN 1 ELSE 0
Credit(v) ==
    One(v \in unseen) + One(rtb # "closed" \/ v \in todo)
        + One(step \in {"try", "load"} /\ v = vol)

Budget ==
    /\ rtb # "closed" => todo = {}
    /\ step = "load" => vol \in Bootable
    /\ step \in {"try", "load", "run"} => vol \in Volumes
    /\ \A v \in Volumes : attempts[v] + Credit(v) <= installs[v] + 1
    /\ \A v \in Volumes \ Bootable : attempts[v] = 0

IInv == TypeOK /\ Dormant /\ HandlerSteps /\ Flag /\ Announced /\ OwedAhead /\ Budget

----------------------------------------------------------------------------
\* Every step keeps the types; the registration's position stays in the list.
LEMMA TypeStep ==
    ASSUME TypeOK, [Next]_vars
    PROVE  TypeOK'
<1>. USE DEF TypeOK, Bootable,
            dbVars, evtVars, runVars, histVars, InBds, Connecting
<1>1. CASE WindowsAutoBootDxeInitialize
  BY <1>1, VolumesAssumption DEF WindowsAutoBootDxeInitialize
<1>2. CASE SignalReadyToBoot
  BY <1>2, VolumesAssumption DEF SignalReadyToBoot
<1>3. CASE BootOption
  BY <1>3, VolumesAssumption DEF BootOption
<1>4. ASSUME NEW v \in Volumes, Connect(v) PROVE TypeOK'
  <2>1. installs' \in [Volumes -> Nat]
    <3>1. \A w \in Volumes : installs[w] + (IF w \in {v} THEN 1 ELSE 0) \in Nat
      OBVIOUS
    <3>. QED
      BY <1>4, <3>1 DEF Connect, Install
  <2>. QED
    BY <1>4, <2>1, VolumesAssumption
       DEF Connect, Install
<1>5. ASSUME NEW v \in Volumes, Disconnect(v) PROVE TypeOK'
  BY <1>5, VolumesAssumption DEF Disconnect
<1>6. ASSUME NEW v \in Volumes, AttachDisk(v) PROVE TypeOK'
  BY <1>6, VolumesAssumption DEF AttachDisk
<1>7. CASE FileSystemNotify
  BY <1>7, VolumesAssumption DEF FileSystemNotify
<1>8. CASE ReadyToBoot
  <2> PICK connected, listed \in BOOLEAN :
         LET new == IF connected THEN (disks \cap Mountable) \ fs ELSE {}
         IN  /\ Install(new)
             /\ todo' = IF listed THEN fs \cup new ELSE {}
             /\ owed' = (owed \cup new \cup todo') \cap Bootable
    BY <1>8 DEF ReadyToBoot
  <2> DEFINE new == IF connected THEN (disks \cap Mountable) \ fs ELSE {}
  <2>1. Install(new)
    OBVIOUS
  <2>2. new \subseteq disks
    OBVIOUS
  <2>3. installs' \in [Volumes -> Nat]
    <3>1. \A w \in Volumes : installs[w] + (IF w \in new THEN 1 ELSE 0) \in Nat
      OBVIOUS
    <3>. QED
      BY <2>1, <3>1 DEF Install
  <2>4. fs' = fs \cup new /\ unseen' \subseteq unseen \cup new /\ fsSignal' \in BOOLEAN
    BY <2>1 DEF Install
  <2>5. todo' \subseteq fs \cup new /\ owed' \subseteq Bootable
    OBVIOUS
  <2>. QED
    BY <1>8, <2>2, <2>3, <2>4, <2>5, VolumesAssumption
       DEF ReadyToBoot
<1>9. ASSUME NEW v \in Volumes, NextHandle(v) PROVE TypeOK'
  BY <1>9, VolumesAssumption DEF NextHandle
<1>10. CASE HandlerReturn
  BY <1>10, VolumesAssumption DEF HandlerReturn
<1>11. CASE TryStartWindowsFromHandle
  BY <1>11, VolumesAssumption DEF TryStartWindowsFromHandle, BackInLoop
<1>12. CASE LoadLoader
  <2>1. attempts' \in [Volumes -> Nat]
    <3>1. attempts' = [w \in Volumes |-> IF w = vol THEN attempts[w] + 1
                                                 ELSE attempts[w]]
      BY <1>12 DEF LoadLoader
    <3>2. \A w \in Volumes : attempts[w] + 1 \in Nat /\ attempts[w] \in Nat
      OBVIOUS
    <3>. QED
      BY <3>1, <3>2
  <2>. QED
    BY <1>12, <2>1, VolumesAssumption
       DEF LoadLoader, BackInLoop
<1>13. ASSUME NEW ok \in BOOLEAN, LoaderReturns(ok) PROVE TypeOK'
  BY <1>13, VolumesAssumption DEF LoaderReturns, BackInLoop
<1>14. CASE LoaderExitsBootServices
  BY <1>14, VolumesAssumption DEF LoaderExitsBootServices
<1>15. CASE UNCHANGED vars
  BY <1>15 DEF vars
<1>. QED
  BY <1>1, <1>2, <1>3, <1>4, <1>5, <1>6, <1>7, <1>8, <1>9, <1>10,
     <1>11, <1>12, <1>13, <1>14, <1>15
     DEF Next, Bds, Handlers, LoaderEnds

\* A driver that failed, or has not run, has no handler to run.
LEMMA DormantStep ==
    ASSUME TypeOK, Dormant, HandlerSteps, [Next]_vars
    PROVE  Dormant'
<1>. USE DEF Dormant, HandlerSteps,
            dbVars, evtVars, runVars, histVars, InBds, Connecting
<1>1. CASE WindowsAutoBootDxeInitialize
  BY <1>1 DEF WindowsAutoBootDxeInitialize
<1>2. CASE SignalReadyToBoot
  BY <1>2 DEF SignalReadyToBoot
<1>3. CASE BootOption
  BY <1>3 DEF BootOption
<1>4. ASSUME NEW v \in Volumes, Connect(v) PROVE Dormant'
  BY <1>4 DEF Connect, Install
<1>5. ASSUME NEW v \in Volumes, Disconnect(v) PROVE Dormant'
  BY <1>5 DEF Disconnect
<1>6. ASSUME NEW v \in Volumes, AttachDisk(v) PROVE Dormant'
  BY <1>6 DEF AttachDisk
<1>7. CASE FileSystemNotify
  BY <1>7 DEF FileSystemNotify
<1>8. CASE ReadyToBoot
  BY <1>8 DEF ReadyToBoot, Install
<1>9. ASSUME NEW v \in Volumes, NextHandle(v) PROVE Dormant'
  BY <1>9 DEF NextHandle
<1>10. CASE HandlerReturn
  BY <1>10 DEF HandlerReturn
<1>11. CASE TryStartWindowsFromHandle
  BY <1>11 DEF TryStartWindowsFromHandle, BackInLoop
<1>12. CASE LoadLoader
  BY <1>12 DEF LoadLoader, BackInLoop
<1>13. ASSUME NEW ok \in BOOLEAN, LoaderReturns(ok) PROVE Dormant'
  BY <1>13 DEF LoaderReturns, BackInLoop
<1>14. CASE LoaderExitsBootServices
  BY <1>14 DEF LoaderExitsBootServices
<1>15. CASE UNCHANGED vars
  BY <1>15 DEF vars
<1>. QED
  BY <1>1, <1>2, <1>3, <1>4, <1>5, <1>6, <1>7, <1>8, <1>9, <1>10,
     <1>11, <1>12, <1>13, <1>14, <1>15
     DEF Next, Bds, Handlers, LoaderEnds

\* Handlers start and return together with their program counter.
LEMMA HandlerStepsStep ==
    ASSUME TypeOK, HandlerSteps, [Next]_vars
    PROVE  HandlerSteps'
<1>. USE DEF TypeOK, HandlerSteps,
            dbVars, evtVars, runVars, histVars, InBds, Connecting
<1>1. CASE WindowsAutoBootDxeInitialize
  BY <1>1 DEF WindowsAutoBootDxeInitialize
<1>2. CASE SignalReadyToBoot
  BY <1>2 DEF SignalReadyToBoot
<1>3. CASE BootOption
  BY <1>3 DEF BootOption
<1>4. ASSUME NEW v \in Volumes, Connect(v) PROVE HandlerSteps'
  BY <1>4 DEF Connect, Install
<1>5. ASSUME NEW v \in Volumes, Disconnect(v) PROVE HandlerSteps'
  BY <1>5 DEF Disconnect
<1>6. ASSUME NEW v \in Volumes, AttachDisk(v) PROVE HandlerSteps'
  BY <1>6 DEF AttachDisk
<1>7. CASE FileSystemNotify
  BY <1>7 DEF FileSystemNotify
<1>8. CASE ReadyToBoot
  BY <1>8 DEF ReadyToBoot, Install
<1>9. ASSUME NEW v \in Volumes, NextHandle(v) PROVE HandlerSteps'
  BY <1>9 DEF NextHandle
<1>10. CASE HandlerReturn
  BY <1>10 DEF HandlerReturn
<1>11. CASE TryStartWindowsFromHandle
  BY <1>11 DEF TryStartWindowsFromHandle, BackInLoop
<1>12. CASE LoadLoader
  BY <1>12 DEF LoadLoader, BackInLoop
<1>13. ASSUME NEW ok \in BOOLEAN, LoaderReturns(ok) PROVE HandlerSteps'
  BY <1>13 DEF LoaderReturns, BackInLoop
<1>14. CASE LoaderExitsBootServices
  BY <1>14 DEF LoaderExitsBootServices
<1>15. CASE UNCHANGED vars
  BY <1>15 DEF vars
<1>. QED
  BY <1>1, <1>2, <1>3, <1>4, <1>5, <1>6, <1>7, <1>8, <1>9, <1>10,
     <1>11, <1>12, <1>13, <1>14, <1>15
     DEF Next, Bds, Handlers, LoaderEnds

\* TryStartWindowsFromHandle is entered with the flag set only after a success.
LEMMA FlagStep ==
    ASSUME TypeOK, Dormant, HandlerSteps, Flag, [Next]_vars
    PROVE  Flag'
<1>. USE DEF TypeOK, Dormant, HandlerSteps, Flag,
            dbVars, evtVars, runVars, histVars, InBds, Connecting
<1>1. CASE WindowsAutoBootDxeInitialize
  BY <1>1 DEF WindowsAutoBootDxeInitialize
<1>2. CASE SignalReadyToBoot
  BY <1>2 DEF SignalReadyToBoot
<1>3. CASE BootOption
  BY <1>3 DEF BootOption
<1>4. ASSUME NEW v \in Volumes, Connect(v) PROVE Flag'
  BY <1>4 DEF Connect, Install
<1>5. ASSUME NEW v \in Volumes, Disconnect(v) PROVE Flag'
  BY <1>5 DEF Disconnect
<1>6. ASSUME NEW v \in Volumes, AttachDisk(v) PROVE Flag'
  BY <1>6 DEF AttachDisk
<1>7. CASE FileSystemNotify
  BY <1>7 DEF FileSystemNotify
<1>8. CASE ReadyToBoot
  BY <1>8 DEF ReadyToBoot, Install
<1>9. ASSUME NEW v \in Volumes, NextHandle(v) PROVE Flag'
  BY <1>9 DEF NextHandle
<1>10. CASE HandlerReturn
  BY <1>10 DEF HandlerReturn
<1>11. CASE TryStartWindowsFromHandle
  BY <1>11 DEF TryStartWindowsFromHandle, BackInLoop
<1>12. CASE LoadLoader
  BY <1>12 DEF LoadLoader, BackInLoop
<1>13. ASSUME NEW ok \in BOOLEAN, LoaderReturns(ok) PROVE Flag'
  BY <1>13 DEF LoaderReturns, BackInLoop
<1>14. CASE LoaderExitsBootServices
  BY <1>14 DEF LoaderExitsBootServices
<1>15. CASE UNCHANGED vars
  BY <1>15 DEF vars
<1>. QED
  BY <1>1, <1>2, <1>3, <1>4, <1>5, <1>6, <1>7, <1>8, <1>9, <1>10,
     <1>11, <1>12, <1>13, <1>14, <1>15
     DEF Next, Bds, Handlers, LoaderEnds

\* A handler returns with handles left over only after a success.
LEMMA AnnouncedStep ==
    ASSUME TypeOK, Dormant, HandlerSteps, Flag, Announced, [Next]_vars
    PROVE  Announced'
<1>. USE DEF TypeOK, Dormant, HandlerSteps, Flag, Announced,
            dbVars, evtVars, runVars, histVars, InBds, Connecting
<1>1. CASE WindowsAutoBootDxeInitialize
  BY <1>1 DEF WindowsAutoBootDxeInitialize
<1>2. CASE SignalReadyToBoot
  BY <1>2 DEF SignalReadyToBoot
<1>3. CASE BootOption
  BY <1>3 DEF BootOption
<1>4. ASSUME NEW v \in Volumes, Connect(v) PROVE Announced'
  BY <1>4 DEF Connect, Install
<1>5. ASSUME NEW v \in Volumes, Disconnect(v) PROVE Announced'
  BY <1>5 DEF Disconnect
<1>6. ASSUME NEW v \in Volumes, AttachDisk(v) PROVE Announced'
  BY <1>6 DEF AttachDisk
<1>7. CASE FileSystemNotify
  BY <1>7 DEF FileSystemNotify
<1>8. CASE ReadyToBoot
  BY <1>8 DEF ReadyToBoot, Install
<1>9. ASSUME NEW v \in Volumes, NextHandle(v) PROVE Announced'
  BY <1>9 DEF NextHandle
<1>10. CASE HandlerReturn
  BY <1>10 DEF HandlerReturn
<1>11. CASE TryStartWindowsFromHandle
  BY <1>11 DEF TryStartWindowsFromHandle, BackInLoop
<1>12. CASE LoadLoader
  BY <1>12 DEF LoadLoader, BackInLoop
<1>13. ASSUME NEW ok \in BOOLEAN, LoaderReturns(ok) PROVE Announced'
  BY <1>13 DEF LoaderReturns, BackInLoop
<1>14. CASE LoaderExitsBootServices
  BY <1>14 DEF LoaderExitsBootServices
<1>15. CASE UNCHANGED vars
  BY <1>15 DEF vars
<1>. QED
  BY <1>1, <1>2, <1>3, <1>4, <1>5, <1>6, <1>7, <1>8, <1>9, <1>10,
     <1>11, <1>12, <1>13, <1>14, <1>15
     DEF Next, Bds, Handlers, LoaderEnds

\* A try is taken off what is ahead only when it is made.
LEMMA OwedAheadStep ==
    ASSUME TypeOK, Dormant, HandlerSteps, Flag, OwedAhead, [Next]_vars
    PROVE  OwedAhead'
<1>. USE DEF TypeOK, Dormant, HandlerSteps, Flag, OwedAhead, Ahead, Bootable,
            dbVars, evtVars, runVars, histVars, InBds, Connecting
<1>1. CASE WindowsAutoBootDxeInitialize
  BY <1>1 DEF WindowsAutoBootDxeInitialize
<1>2. CASE SignalReadyToBoot
  BY <1>2 DEF SignalReadyToBoot
<1>3. CASE BootOption
  BY <1>3 DEF BootOption
<1>4. ASSUME NEW v \in Volumes, Connect(v) PROVE OwedAhead'
  BY <1>4 DEF Connect, Install
<1>5. ASSUME NEW v \in Volumes, Disconnect(v) PROVE OwedAhead'
  BY <1>5 DEF Disconnect
<1>6. ASSUME NEW v \in Volumes, AttachDisk(v) PROVE OwedAhead'
  BY <1>6 DEF AttachDisk
<1>7. CASE FileSystemNotify
  BY <1>7 DEF FileSystemNotify
<1>8. CASE ReadyToBoot
  BY <1>8 DEF ReadyToBoot, Install
<1>9. ASSUME NEW v \in Volumes, NextHandle(v) PROVE OwedAhead'
  BY <1>9 DEF NextHandle
<1>10. CASE HandlerReturn
  BY <1>10 DEF HandlerReturn
<1>11. CASE TryStartWindowsFromHandle
  BY <1>11 DEF TryStartWindowsFromHandle, BackInLoop
<1>12. CASE LoadLoader
  BY <1>12 DEF LoadLoader, BackInLoop
<1>13. ASSUME NEW ok \in BOOLEAN, LoaderReturns(ok) PROVE OwedAhead'
  BY <1>13 DEF LoaderReturns, BackInLoop
<1>14. CASE LoaderExitsBootServices
  BY <1>14 DEF LoaderExitsBootServices
<1>15. CASE UNCHANGED vars
  BY <1>15 DEF vars
<1>. QED
  BY <1>1, <1>2, <1>3, <1>4, <1>5, <1>6, <1>7, <1>8, <1>9, <1>10,
     <1>11, <1>12, <1>13, <1>14, <1>15
     DEF Next, Bds, Handlers, LoaderEnds

\* A launch is paid by an installation or by ReadyToBoot.
LEMMA BudgetStep ==
    ASSUME TypeOK, Dormant, HandlerSteps, Flag, Budget, [Next]_vars
    PROVE  Budget'
<1>. USE DEF TypeOK, Dormant, HandlerSteps, Flag, Budget, Credit, One,
            dbVars, evtVars, runVars, histVars, InBds, Connecting
<1>1. CASE WindowsAutoBootDxeInitialize
  BY <1>1, VolumesAssumption DEF WindowsAutoBootDxeInitialize
<1>2. CASE SignalReadyToBoot
  BY <1>2, VolumesAssumption DEF SignalReadyToBoot
<1>3. CASE BootOption
  BY <1>3, VolumesAssumption DEF BootOption
<1>4. ASSUME NEW v \in Volumes, Connect(v) PROVE Budget'
  BY <1>4, VolumesAssumption DEF Connect, Install
<1>5. ASSUME NEW v \in Volumes, Disconnect(v) PROVE Budget'
  BY <1>5, VolumesAssumption DEF Disconnect
<1>6. ASSUME NEW v \in Volumes, AttachDisk(v) PROVE Budget'
  BY <1>6, VolumesAssumption DEF AttachDisk
<1>7. CASE FileSystemNotify
  BY <1>7, VolumesAssumption DEF FileSystemNotify
<1>8. CASE ReadyToBoot
  BY <1>8, VolumesAssumption DEF ReadyToBoot, Install
<1>9. ASSUME NEW v \in Volumes, NextHandle(v) PROVE Budget'
  BY <1>9, VolumesAssumption DEF NextHandle
<1>10. CASE HandlerReturn
  BY <1>10, VolumesAssumption DEF HandlerReturn
<1>11. CASE TryStartWindowsFromHandle
  BY <1>11, VolumesAssumption DEF TryStartWindowsFromHandle, BackInLoop
<1>12. CASE LoadLoader
  BY <1>12, VolumesAssumption DEF LoadLoader, BackInLoop
<1>13. ASSUME NEW ok \in BOOLEAN, LoaderReturns(ok) PROVE Budget'
  BY <1>13, VolumesAssumption DEF LoaderReturns, BackInLoop
<1>14. CASE LoaderExitsBootServices
  BY <1>14, VolumesAssumption DEF LoaderExitsBootServices
<1>15. CASE UNCHANGED vars
  BY <1>15 DEF vars
<1>. QED
  BY <1>1, <1>2, <1>3, <1>4, <1>5, <1>6, <1>7, <1>8, <1>9, <1>10,
     <1>11, <1>12, <1>13, <1>14, <1>15
     DEF Next, Bds, Handlers, LoaderEnds

----------------------------------------------------------------------------
LEMMA Invariant == Spec => []IInv
<1>1. Init => IInv
  <2>. SUFFICES ASSUME Init PROVE IInv
    OBVIOUS
  <2>1. TypeOK
    BY VolumesAssumption DEF Init, TypeOK, Bootable
  <2>2. Budget
    BY <2>1 DEF Init, TypeOK, Budget, Credit, One
  <2>. QED
    BY <2>1, <2>2
       DEF Init, IInv, Dormant, HandlerSteps, Flag, Announced, OwedAhead
<1>2. IInv /\ [Next]_vars => IInv'
  BY TypeStep, DormantStep, HandlerStepsStep, FlagStep, AnnouncedStep,
     OwedAheadStep, BudgetStep DEF IInv
<1>. QED
  BY <1>1, <1>2, PTL DEF Spec

\* The variables of the driver and of the database keep their types, and the
\* registration's position stays in the list of file systems.
THEOREM TypeCorrect == Spec => []TypeOK
<1>1. IInv => TypeOK
  BY DEF IInv
<1>. QED
  BY <1>1, Invariant, PTL

\* mWindowsStarted is set exactly while a loader is launched or has succeeded,
\* whatever fails in StartWindowsFromHandle.
THEOREM FlagTracksLoaderHolds == Spec => []FlagTracksLoader
<1>1. IInv => FlagTracksLoader
  BY DEF IInv, Flag, FlagTracksLoader
<1>. QED
  BY <1>1, Invariant, PTL

\* No bootable volume falls between FileSystemNotify and ReadyToBoot.
THEOREM NoneOverlookedHolds == Spec => []NoneOverlooked
<1>1. IInv => NoneOverlooked
  BY DEF IInv, TypeOK, HandlerSteps, Flag, Announced, OwedAhead, Ahead, InBds,
         NoneOverlooked
<1>. QED
  BY <1>1, Invariant, PTL

\* Launches are bounded by installations, for any number of volumes.
THEOREM AttemptsBoundedHolds == Spec => []AttemptsBounded
<1>1. IInv => AttemptsBounded
  BY DEF IInv, TypeOK, Budget, Credit, One, AttemptsBounded
<1>. QED
  BY <1>1, Invariant, PTL
=============================================================================
