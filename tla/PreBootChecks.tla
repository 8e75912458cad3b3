--------------------------- MODULE PreBootChecks ---------------------------
(***************************************************************************)
(* MsPreBootChecks of DeviceBootManagerLib: before anything is booted, the *)
(* battery and the temperature are checked, with mitigations and retries,  *)
(* and the machine is shut down when one of them stays bad.                *)
(***************************************************************************)
EXTENDS Integers

CONSTANTS
    IntMax,         \* the largest INT32
    Retries         \* PcdPowerAndThermalRetries, read into an INT32

ASSUME RetriesAssumption ==
    /\ IntMax \in Nat
    /\ Retries \in -IntMax .. IntMax

Readings == {"good", "bad", "error"}

VARIABLES
    pc,             \* the step it is at
    PowerGood, ThermalGood,
    RetryCount,
    power, thermal, \* history: the latest readings, "none" before the first
    since,          \* history: "mitigated", "cooled" since the latest power check
    rounds          \* history: turns of the loop

flags == <<PowerGood, ThermalGood>>
hist  == <<power, thermal, since, rounds>>
vars  == <<pc, flags, RetryCount, hist>>

Shutdowns == {"thermalShutdown", "powerShutdown"}
Final     == {"boot", "off", "fault"}

----------------------------------------------------------------------------
Init ==
    /\ pc = "start"
    /\ PowerGood = TRUE /\ ThermalGood = TRUE
    /\ RetryCount = Retries
    /\ power = "none" /\ thermal = "none" /\ since = {} /\ rounds = 0

\* Without a timer nothing is checked.
CreateTimer ==
    /\ pc = "start"
    /\ pc' \in {"power", "cleanup"}
    /\ UNCHANGED <<flags, RetryCount, hist>>

\* A reading that cannot be had does not stop the boot.
SystemPowerCheck ==
    /\ pc = "power"
    /\ power' \in Readings
    /\ PowerGood' = (power' # "bad")
    /\ pc' = IF power' = "bad" THEN "mitigate" ELSE "thermal"
    /\ since' = {} /\ rounds' = rounds + 1
    /\ UNCHANGED <<ThermalGood, RetryCount, thermal>>

\* Mutant: a mitigation that succeeded counts as a good reading.
PowerMitigateIsEnough ==
    /\ pc = "mitigate"
    /\ \/ pc' = "cleanup" /\ PowerGood' = FALSE /\ since' = since
       \/ pc' = "thermal" /\ PowerGood' = TRUE /\ since' = since \cup {"mitigated"}
    /\ UNCHANGED <<ThermalGood, RetryCount, power, thermal, rounds>>

\* A mitigation that fails ends the checks; one that succeeds leaves
\* PowerGood FALSE.
SystemPowerMitigate ==
    /\ pc = "mitigate"
    /\ \/ pc' = "cleanup" /\ PowerGood' = FALSE /\ since' = since
       \/ pc' = "thermal" /\ since' = since \cup {"mitigated"} /\ PowerGood' = PowerGood
    /\ UNCHANGED <<ThermalGood, RetryCount, power, thermal, rounds>>

SystemThermalCheck ==
    /\ pc = "thermal"
    /\ thermal' \in Readings
    /\ ThermalGood' = (thermal' # "bad")
    /\ pc' = IF thermal' = "bad" /\ RetryCount > 0 THEN "wait" ELSE "test"
    /\ UNCHANGED <<PowerGood, RetryCount, power, since, rounds>>

\* Mutant: the wait starts without setting the timer.
WaitWithoutTimer ==
    /\ pc = "wait"
    /\ pc' = "wait"
    /\ since' = since \cup {"cooled"}
    /\ UNCHANGED <<flags, RetryCount, power, thermal, rounds>>

\* The wait for the machine to cool down, which may end at once in an error.
WaitForCooling ==
    /\ pc = "wait"
    /\ pc' = "test"
    /\ since' = since \cup {"cooled"}
    /\ UNCHANGED <<flags, RetryCount, power, thermal, rounds>>

\* Mutant: the retries are not counted down.
LoopForever ==
    /\ pc = "test"
    /\ RetryCount' = RetryCount
    /\ pc' = IF RetryCount > 0 /\ ~(ThermalGood /\ PowerGood) THEN "power" ELSE "cleanup"
    /\ UNCHANGED <<flags, hist>>

\* while ((RetryCount-- > 0) && (!ThermalGood || !PowerGood))
LoopTest ==
    /\ pc = "test"
    /\ RetryCount' = RetryCount - 1
    /\ pc' = IF RetryCount > 0 /\ ~(ThermalGood /\ PowerGood) THEN "power" ELSE "cleanup"
    /\ UNCHANGED <<flags, hist>>

CleanUp ==
    /\ pc = "cleanup"
    /\ pc' = CASE ~ThermalGood            -> "thermalShutdown"
               [] ThermalGood /\ ~PowerGood -> "powerShutdown"
               [] OTHER                   -> "boot"
    /\ UNCHANGED <<flags, RetryCount, hist>>

\* Both shutdowns show a picture for a while and reset.  When their timer event
\* cannot be created they use its uninitialised handle.
Shutdown ==
    /\ pc \in Shutdowns
    /\ pc' \in {"off", "fault"}
    /\ UNCHANGED <<flags, RetryCount, hist>>

Next ==
    \/ CreateTimer \/ SystemPowerCheck \/ SystemPowerMitigate
    \/ SystemThermalCheck \/ WaitForCooling \/ LoopTest \/ CleanUp \/ Shutdown

Spec == Init /\ [][Next]_vars

\* Every call returns: the timer fires, and the power services answer.
FairSpec == Spec /\ WF_vars(Next)

----------------------------------------------------------------------------
\* The types; RetryCount never leaves the range of an INT32, although it is
\* decremented once after it has reached its end.
TypeOK ==
    /\ pc \in {"start", "power", "mitigate", "thermal", "wait", "test", "cleanup"}
                \cup Shutdowns \cup Final
    /\ PowerGood \in BOOLEAN /\ ThermalGood \in BOOLEAN
    /\ RetryCount \in -IntMax - 1 .. IntMax
    /\ power \in Readings \cup {"none"} /\ thermal \in Readings \cup {"none"}
    /\ since \subseteq {"mitigated", "cooled"}
    /\ rounds \in Nat

\* The machine boots only on a power reading that is not bad, taken after the
\* last mitigation and after the last wait for cooling (which uses the battery),
\* and on a temperature that is not bad; it boots without readings only when the
\* timer event could not be created.
BootsOnFreshReadings ==
    pc = "boot" =>
        \/ rounds = 0 /\ power = "none" /\ thermal = "none"
        \/ /\ power \in {"good", "error"} /\ thermal \in {"good", "error"}
           /\ since = {}

\* However the readings alternate, the loop turns at most once more than the
\* number of retries, and a negative number of them still checks once.
RoundsBounded == rounds <= IF Retries > 0 THEN Retries + 1 ELSE 1

\* The checks always come to a decision, so that a machine whose readings stay
\* bad is shut down and not left to drain its battery.
Decides == <>(pc \in Final)
=============================================================================
