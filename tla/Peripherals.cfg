\* Machines of every family, as the images or the sources have them; the boot manager
\* connects twice; a firmware chunk of two words stands for 0x4000, eight values of
\* the SRAM's address register for 0x10000 (nine words of a blob are too many).
CONSTANTS Machines <- AllMachines  Chunk = 2  AddressSpan = 8  MaxConnects = 2
SPECIFICATION FairSpec
INVARIANTS NeverHalfProgrammed ProxyUntouched PublishedCanDma PortsInOrder FirmwareWhole HelperStepsAside
PROPERTIES CoreAfterPhys BringUpEnds
CHECK_DEADLOCK FALSE
