CONSTANT Machines <- AllMachines
SPECIFICATION FairSpec
INVARIANTS HobsDisjoint MemoryKept ApartIsReserved FrameBufferUncached RamdiskReserved
PROPERTY ReachesDxe
CHECK_DEADLOCK FALSE
