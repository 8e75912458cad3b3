------------------------ MODULE PreBootChecks_proofs ------------------------
(***************************************************************************)
(* For every number of retries: the retry counter stays in its type, the   *)
(* loop is bounded and a machine boots on fresh readings only.             *)
(***************************************************************************)
EXTENDS PreBootChecks, TLAPS

InLoop == {"power", "mitigate", "thermal", "wait", "test"}

\* How far the loop is: before a turn's power check the turns and the count add
\* up to Retries, after it to one more; a turn that is not the first started with
\* a positive count.
Counting ==
    /\ pc = "start" => RetryCount = Retries /\ rounds = 0
    /\ pc \in InLoop =>
         /\ RetryCount + rounds = Retries + IF pc = "power" THEN 0 ELSE 1
         /\ pc # "power" => rounds >= 1
         /\ IF pc = "power" THEN rounds >= 1 => RetryCount >= 0
                            ELSE rounds >= 2 => RetryCount >= 0

\* What the flags say of the readings at each step.
FlagsTrackReadings ==
    /\ pc = "start" => power = "none" /\ thermal = "none"
    /\ pc = "mitigate" => ~PowerGood
    /\ pc \in {"thermal", "wait", "test"} /\ PowerGood => power \in {"good", "error"}
    /\ pc = "thermal" /\ PowerGood => since = {}
    /\ pc = "wait" => ~ThermalGood
    /\ pc = "test" /\ ThermalGood => thermal \in {"good", "error"}
    /\ pc = "test" /\ ThermalGood /\ PowerGood => since = {}

\* What cleanup needs to know before it boots.
CleanUpIsJustified ==
    pc = "cleanup" /\ PowerGood /\ ThermalGood =>
        \/ rounds = 0 /\ power = "none" /\ thermal = "none"
        \/ /\ power \in {"good", "error"} /\ thermal \in {"good", "error"}
           /\ since = {}

Inv == /\ TypeOK /\ Counting /\ RoundsBounded
       /\ FlagsTrackReadings /\ CleanUpIsJustified /\ BootsOnFreshReadings

LEMMA InitInv == Init => Inv
  BY RetriesAssumption, SMTT(30)
  DEF Init, Inv, TypeOK, Counting, RoundsBounded, FlagsTrackReadings, CleanUpIsJustified,
      BootsOnFreshReadings, InLoop, Readings, Shutdowns, Final

LEMMA NextInv == Inv /\ [Next]_vars => Inv'
<1> SUFFICES ASSUME Inv, [Next]_vars PROVE Inv'
  OBVIOUS
<1> USE RetriesAssumption
    DEF Inv, TypeOK, Counting, RoundsBounded, FlagsTrackReadings, CleanUpIsJustified,
        BootsOnFreshReadings, InLoop, Readings, Shutdowns, Final, flags, hist
<1>1. CASE CreateTimer
  BY <1>1, SMTT(30) DEF CreateTimer
<1>2. CASE SystemPowerCheck
  <2>7. \/ power' = "bad" /\ PowerGood' = FALSE /\ pc' = "mitigate"
        \/ power' \in {"good", "error"} /\ PowerGood' = TRUE /\ pc' = "thermal"
    BY <1>2, Zenon DEF SystemPowerCheck
  <2>1. TypeOK'
    BY <1>2, <2>7, SMTT(30) DEF SystemPowerCheck
  <2>2. Counting'
    BY <1>2, <2>7, SMTT(30) DEF SystemPowerCheck
  <2>3. RoundsBounded'
    BY <1>2, <2>7, SMTT(30) DEF SystemPowerCheck
  <2>4. FlagsTrackReadings'
    BY <1>2, <2>7, SMTT(30) DEF SystemPowerCheck
  <2>5. CleanUpIsJustified'
    BY <1>2, <2>7, SMTT(30) DEF SystemPowerCheck
  <2>6. BootsOnFreshReadings'
    BY <1>2, <2>7, SMTT(30) DEF SystemPowerCheck
  <2> QED
    BY <2>1, <2>2, <2>3, <2>4, <2>5, <2>6
<1>3. CASE SystemPowerMitigate
  <2>7. \/ pc' = "cleanup" /\ PowerGood' = FALSE /\ since' = since
        \/ pc' = "thermal" /\ PowerGood' = FALSE /\ since' = since \cup {"mitigated"}
    BY <1>3, SMTT(30) DEF SystemPowerMitigate
  <2>1. TypeOK'
    BY <1>3, <2>7, Zenon DEF SystemPowerMitigate
  <2>2. Counting'
    BY <1>3, <2>7, SMTT(30) DEF SystemPowerMitigate
  <2>3. RoundsBounded'
    BY <1>3, <2>7, SMTT(30) DEF SystemPowerMitigate
  <2>4. FlagsTrackReadings'
    BY <1>3, <2>7, SMTT(30) DEF SystemPowerMitigate
  <2>5. CleanUpIsJustified'
    BY <1>3, <2>7, SMTT(30) DEF SystemPowerMitigate
  <2>6. BootsOnFreshReadings'
    BY <1>3, <2>7, SMTT(30) DEF SystemPowerMitigate
  <2> QED
    BY <2>1, <2>2, <2>3, <2>4, <2>5, <2>6
<1>4. CASE SystemThermalCheck
  <2>7. \/ thermal' = "bad" /\ ThermalGood' = FALSE /\ pc' \in {"wait", "test"}
        \/ thermal' \in {"good", "error"} /\ ThermalGood' = TRUE /\ pc' = "test"
    BY <1>4, Zenon DEF SystemThermalCheck
  <2>1. TypeOK'
    BY <1>4, <2>7, SMTT(30) DEF SystemThermalCheck
  <2>2. Counting'
    BY <1>4, <2>7, SMTT(30) DEF SystemThermalCheck
  <2>3. RoundsBounded'
    BY <1>4, <2>7, SMTT(30) DEF SystemThermalCheck
  <2>4. FlagsTrackReadings'
    BY <1>4, <2>7, SMTT(30) DEF SystemThermalCheck
  <2>5. CleanUpIsJustified'
    BY <1>4, <2>7, SMTT(30) DEF SystemThermalCheck
  <2>6. BootsOnFreshReadings'
    BY <1>4, <2>7, SMTT(30) DEF SystemThermalCheck
  <2> QED
    BY <2>1, <2>2, <2>3, <2>4, <2>5, <2>6
<1>5. CASE WaitForCooling
  BY <1>5, SMTT(30) DEF WaitForCooling
<1>6. CASE LoopTest
  BY <1>6, SMTT(30) DEF LoopTest
<1>7. CASE CleanUp
  BY <1>7, SMTT(30) DEF CleanUp
<1>8. CASE Shutdown
  BY <1>8, SMTT(30) DEF Shutdown
<1>9. CASE UNCHANGED vars
  BY <1>9, SMTT(30) DEF vars
<1> QED
  BY <1>1, <1>2, <1>3, <1>4, <1>5, <1>6, <1>7, <1>8, <1>9 DEF Next

LEMMA Inductive == Spec => []Inv
  BY InitInv, NextInv, PTL DEF Spec

\* For every number of retries of either sign, the values are of their types and
\* RetryCount never overflows.
THEOREM TypeCorrect == Spec => []TypeOK
<1>1. Inv => TypeOK
  BY DEF Inv
<1> QED
  BY Inductive, <1>1, PTL

\* However often the checks turn, the machine boots only when its last readings
\* let it, with no mitigation or wait since the power check.
THEOREM BootsOnFreshReadingsHolds == Spec => []BootsOnFreshReadings
<1>1. Inv => BootsOnFreshReadings
  BY DEF Inv
<1> QED
  BY Inductive, <1>1, PTL

\* The loop turns at most once more than the number of retries.
THEOREM RoundsBoundedHolds == Spec => []RoundsBounded
<1>1. Inv => RoundsBounded
  BY DEF Inv
<1> QED
  BY Inductive, <1>1, PTL
=============================================================================
