\* Power and temperature answer anything at any time; three retries.
SPECIFICATION FairSpec
CONSTANTS IntMax = 7 Retries = 3
INVARIANTS BootsOnFreshReadings RoundsBounded
PROPERTY Decides
CHECK_DEADLOCK FALSE
