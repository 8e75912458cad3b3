---------------------------- MODULE EarlyMemory ----------------------------
(***************************************************************************)
(* Start of day on the boot core: PrePi takes the memory and the frame     *)
(* buffer from the boot loader's arguments, MemoryPeim of the chip's       *)
(* family builds the memory hand-off blocks and turns the MMU on, and the  *)
(* RAM disk helper later registers the image left in the window that was   *)
(* reserved for it.                                                        *)
(*                                                                         *)
(* Addresses and sizes are in pages.  The boot loader, ArmConfigureMmu,    *)
(* the decompression of the volume and the DXE core are external.          *)
(***************************************************************************)
EXTENDS MemoryMap

CONSTANTS
    Machines        \* what the boot loader and the build may hand over

Absent == Region(0, 0)

Regions == [base : Nat, len : Nat]

\* A processor's node and property, either of which may be absent; what four words read
\* from the property hold, past its end if it is short.
Carveouts == [node : {"present", "absent", "short"}, region : Regions]

\* The low window lies below memory; the other regions may lie anywhere.
ASSUME MachinesAssumption ==
    \A m \in Machines :
        /\ m.family \in {"T810X", "T600X", "T602X"}
        /\ {m.memory, m.fd, m.fb, m.window, m.low} \subseteq Regions
        /\ m.backing \in Nat /\ m.cpus \in Seq(Carveouts) /\ m.image \in Int
        /\ {m.unaligned, m.ramdiskBoot, m.loads} \subseteq BOOLEAN
        /\ m.fd.len > 0
        /\ ~Meets(m.memory, m.low)

VARIABLES
    hw,             \* the machine
    pc,             \* the next thing to do
    cpu,            \* loop variable of the carveouts
    list,           \* resource descriptor HOBs, in order
    allocated,      \* memory allocation HOBs
    mmu,            \* "off", "on", "refused"
    ramdisk,        \* what the RAM disk protocol was given
    asked           \* history: the regions that were to be reserved

vars == <<hw, pc, cpu, list, allocated, mmu, ramdisk, asked>>

Family == hw.family

(***************************************************************************)
(* The virtual memory table: rows apply in order, so the frame buffer      *)
(* overrides the memory around it.  An unaligned frame buffer starts       *)
(* somewhere inside page hw.fb.base.                                       *)
(***************************************************************************)
MemoryRows ==
    <<Row(hw.memory.base, hw.memory.len, "cached")>>
    \o IF Family = "T810X" /\ hw.low.len # 0
       THEN <<Row(hw.low.base, hw.low.len, "cached")>>
       ELSE <<>>

FrameBufferRow ==
    IF Family = "T600X" /\ hw.unaligned
    THEN Row(hw.fb.base + 1, hw.fb.len, "uncached")
    ELSE Row(hw.fb.base, hw.fb.len, "uncached")

\* Mutant: the frame buffer comes before the memory around it.
TableFrameBufferFirst ==
    DeviceRows[Family] \o <<FrameBufferRow>> \o MemoryRows \o <<Row(0, 0, "end")>>

VirtualMemoryTable ==
    DeviceRows[Family] \o MemoryRows \o <<FrameBufferRow, Row(0, 0, "end")>>

\* VirtualDisplayValidateFramebufferRange: whole pages, below 4 GB in all, in memory.
ValidFrameBuffer ==
    /\ hw.fb.base # 0 /\ hw.fb.len # 0 /\ hw.fb.len < \h100000
    /\ ~hw.unaligned
    /\ Within(hw.fb, hw.memory)

(***************************************************************************)
(* PrePi, and the steps that each family's MemoryPeim is made of           *)
(***************************************************************************)
T810XSteps == <<"Memory", "Firmware", "FrameBuffer", "Carveouts", "Ramdisk", "LowMemory", "Mmu">>
T600XSteps == <<"Memory", "Firmware", "Mmu">>
T602XSteps == <<"Memory", "Firmware", "Carveouts", "Mmu">>

MemoryPeim == [T810X |-> T810XSteps, T600X |-> T600XSteps, T602X |-> T602XSteps]

\* PrePi's Main: EarlySetup has run, MemoryPeim is called, the DXE core is loaded.
Steps == <<"EarlySetup">> \o MemoryPeim[Family] \o <<"Core", "Dxe", "end">>

Init ==
    /\ hw \in Machines
    /\ pc = "EarlySetup" /\ cpu = 1
    /\ list = <<>> /\ allocated = {} /\ asked = <<>>
    /\ mmu = "off" /\ ramdisk = Absent

Finish(step) ==
    /\ pc = step
    /\ \E i \in 1..(Len(Steps) - 1) : Steps[i] = step /\ pc' = Steps[i + 1]

Reserve(r) ==
    /\ list' = ReserveMemoryRegion(list, r)
    /\ asked' = Append(asked, r)

\* EarlySetup patches memory and frame buffer into the PCDs (hw.memory, hw.fb).
EarlySetup ==
    /\ Finish("EarlySetup")
    /\ UNCHANGED <<hw, cpu, list, allocated, mmu, ramdisk, asked>>

\* The assertion on the table's length comes first, then the block for the memory.
DeclareMemory ==
    /\ IF Len(VirtualMemoryTable) <= MaxDescriptors[Family]
       THEN /\ Finish("Memory")
            /\ list' = Append(list, Hob("system", hw.memory.base, hw.memory.len))
       ELSE pc = "Memory" /\ pc' = "hung" /\ UNCHANGED list
    /\ UNCHANGED <<hw, cpu, allocated, mmu, ramdisk, asked>>

\* Only a device inside memory is split off; T600X and T602X keep it at run time.
SplitOffFirmware ==
    /\ Finish("Firmware")
    /\ IF Within(hw.fd, hw.memory)
       THEN /\ list' = SplitFirmware(list, hw.fd, hw.memory)
            /\ allocated' = allocated \cup
                 {Hob(IF Family = "T810X" THEN "bootData" ELSE "runtimeData",
                      hw.fd.base, hw.fd.len)}
       ELSE UNCHANGED <<list, allocated>>
    /\ UNCHANGED <<hw, cpu, mmu, ramdisk, asked>>

\* An invalid frame buffer stops the boot for good.
ReserveFrameBuffer ==
    /\ IF ValidFrameBuffer
       THEN /\ Finish("FrameBuffer")
            /\ Reserve(hw.fb)
            /\ allocated' = allocated \cup {Hob("reserved", hw.fb.base, hw.fb.len)}
       ELSE /\ pc = "FrameBuffer" /\ pc' = "hung"
            /\ UNCHANGED <<list, allocated, asked>>
    /\ UNCHANGED <<hw, cpu, mmu, ramdisk>>

\* A processor's carveout, its length cut to 32 bits.
Carveout(c) == Region(c.region.base, c.region.len % \h100000)

\* T810X tests the property's length, T602X reads on.
ReadsCarveout(c) == c.node = "present" \/ (c.node = "short" /\ Family # "T810X")

ReserveCarveout ==
    /\ pc = "Carveouts" /\ cpu <= Len(hw.cpus) /\ ReadsCarveout(hw.cpus[cpu])
    /\ cpu' = cpu + 1
    /\ Reserve(Carveout(hw.cpus[cpu]))
    /\ UNCHANGED <<hw, pc, allocated, mmu, ramdisk>>

\* Mutant: a processor without a carveout ends the boot on every family.
MissingCarveoutFaults ==
    /\ pc = "Carveouts" /\ cpu <= Len(hw.cpus) /\ ~ReadsCarveout(hw.cpus[cpu])
    /\ pc' = "hung"
    /\ UNCHANGED <<hw, cpu, list, allocated, mmu, ramdisk, asked>>

\* T810X passes over a processor without a node or a property; T602X reads through
\* the null pointer.
MissingCarveout ==
    /\ pc = "Carveouts" /\ cpu <= Len(hw.cpus) /\ ~ReadsCarveout(hw.cpus[cpu])
    /\ IF Family = "T810X"
       THEN cpu' = cpu + 1 /\ UNCHANGED pc
       ELSE pc' = "hung" /\ UNCHANGED cpu
    /\ UNCHANGED <<hw, list, allocated, mmu, ramdisk, asked>>

CarveoutsDone ==
    /\ cpu > Len(hw.cpus)
    /\ Finish("Carveouts")
    /\ UNCHANGED <<hw, cpu, list, allocated, mmu, ramdisk, asked>>

ReserveRamdiskWindow ==
    /\ Finish("Ramdisk")
    /\ IF hw.window.base # 0 /\ hw.window.len # 0
       THEN Reserve(hw.window)
       ELSE UNCHANGED <<list, asked>>
    /\ UNCHANGED <<hw, cpu, allocated, mmu, ramdisk>>

\* The low window is declared whether or not its backing could be reserved.
DeclareLowMemory ==
    /\ Finish("LowMemory")
    /\ IF hw.low.len # 0
       THEN LET backing == Region(hw.backing, hw.low.len)
            IN  /\ list' = Append(ReserveMemoryRegion(list, backing),
                                  Hob("system", hw.low.base, hw.low.len))
                /\ asked' = Append(asked, backing)
       ELSE UNCHANGED <<list, asked>>
    /\ UNCHANGED <<hw, cpu, allocated, mmu, ramdisk>>

\* ArmConfigureMmu refuses an unaligned row; InitMmu prints that and goes on.
InitMmu ==
    /\ Finish("Mmu")
    /\ mmu' = IF hw.unaligned /\ Family # "T600X" THEN "refused" ELSE "on"
    /\ UNCHANGED <<hw, cpu, list, allocated, ramdisk, asked>>

\* The volume is decompressed and the core loaded from it.  Whichever fails, debug
\* builds stop at an ASSERT and release builds in the loop at the end.
LoadDxeCore ==
    /\ IF hw.loads THEN Finish("Core") ELSE pc = "Core" /\ pc' = "hung"
    /\ UNCHANGED <<hw, cpu, list, allocated, mmu, ramdisk, asked>>

(***************************************************************************)
(* The RAM disk helper in DXE.  hw.image is the size in the header of the  *)
(* preloaded image, -1 if the magic is not there; its first page holds the *)
(* header.  A RAM disk made of a copy of the embedded image lies in memory *)
(* that DXE allocates, and is not followed here.                           *)
(***************************************************************************)
Payload == Region(hw.window.base + 1, hw.image)

\* Mutant: the header's page is forgotten in the test of the size.
RamdiskHelperWholeWindow ==
    /\ Finish("Dxe")
    /\ IF hw.ramdiskBoot /\ hw.window.base # 0 /\ hw.image > 0 /\ hw.image <= hw.window.len
       THEN ramdisk' = Payload
       ELSE UNCHANGED ramdisk
    /\ UNCHANGED <<hw, cpu, list, allocated, mmu, asked>>

BootRamdiskHelperDxeInitialize ==
    /\ Finish("Dxe")
    /\ IF /\ hw.ramdiskBoot /\ hw.window.base # 0
          /\ hw.image > 0
          /\ hw.image <= (hw.window.len - 1) % \h100000
       THEN ramdisk' = Payload
       ELSE UNCHANGED ramdisk
    /\ UNCHANGED <<hw, cpu, list, allocated, mmu, asked>>

Next ==
    \/ EarlySetup \/ DeclareMemory \/ SplitOffFirmware \/ ReserveFrameBuffer
    \/ ReserveCarveout \/ MissingCarveout \/ CarveoutsDone
    \/ ReserveRamdiskWindow \/ DeclareLowMemory \/ InitMmu
    \/ LoadDxeCore \/ BootRamdiskHelperDxeInitialize

Spec == Init /\ [][Next]_vars

\* One processor runs straight through: it never stops between two statements.
FairSpec == Spec /\ WF_vars(Next)
(***************************************************************************)
(* Properties                                                              *)
(***************************************************************************)
\* Type correctness: every block is system or reserved memory and no length is negative.
TypeOk ==
    /\ pc \in {"EarlySetup", "Memory", "Firmware", "FrameBuffer", "Carveouts", "Ramdisk",
               "LowMemory", "Mmu", "Core", "Dxe", "end", "hung"}
    /\ cpu \in 1..(Len(hw.cpus) + 1)
    /\ \A i \in DOMAIN list :
          list[i].type \in {"system", "reserved"} /\ list[i].base \in Nat /\ list[i].len \in Nat
    /\ mmu \in {"off", "on", "refused"}

\* No page is described by two resource descriptors, however the regions that were
\* punched out lie to one another (ReserveMemoryRegion, the split of the firmware
\* device, the declaration of the low window).
HobsDisjoint ==
    \A i, j \in DOMAIN list : i # j => ~Meets(list[i], list[j])

Described(p) == \E i \in DOMAIN list : Holds(list[i], p)

\* A hole would begin at the start of a window or where a block ends.
Edges == {hw.memory.base, hw.low.base} \cup {Top(list[i]) : i \in DOMAIN list}

LowMemoryDeclared == Family = "T810X" /\ pc \in {"Mmu", "Core", "Dxe", "end"}

\* Nothing of the memory is lost and nothing invented, however often it is punched: the
\* blocks leave no hole in it, nor in the low window once that is declared, and describe
\* nothing else.
MemoryKept ==
    list # <<>> =>
        /\ \A p \in Edges : Holds(hw.memory, p) => Described(p)
        /\ LowMemoryDeclared => \A p \in Edges : Holds(hw.low, p) => Described(p)
        /\ \A i \in DOMAIN list : Within(list[i], hw.memory) \/ Within(list[i], hw.low)

Reserved(r) == \E i \in DOMAIN list : list[i].type = "reserved" /\ Within(r, list[i])

\* An empty region inside another cuts the block that holds it in two all the same.
Cuts(r, s) == r.len = 0 /\ s.base < r.base /\ r.base < Top(s)

\* The regions are in each other's way.
Collide(r, s) == Meets(r, s) \/ Cuts(r, s)

\* ReserveMemoryRegion gives up without a word when no single block contains the
\* region.  That happens only to a region that meets the firmware device or is met or
\* cut by one reserved earlier, or that is not memory: any other that has a page is
\* out of DXE's reach.
ApartIsReserved ==
    \A k \in DOMAIN asked :
        \/ Reserved(asked[k])
        \/ asked[k].len = 0 \/ ~Within(asked[k], hw.memory)
        \/ Meets(asked[k], hw.fd)
        \/ \E j \in 1..(k - 1) : Collide(asked[j], asked[k])

\* The rows that decide how a region is mapped: the last ones that meet it.
MappedAs(r, attributes) ==
    \E i \in DOMAIN VirtualMemoryTable :
        /\ VirtualMemoryTable[i].attributes = attributes
        /\ Within(r, VirtualMemoryTable[i])
        /\ \A j \in DOMAIN VirtualMemoryTable : j > i => ~Meets(r, VirtualMemoryTable[j])

FullPages(r) == IF hw.unaligned THEN Region(r.base + 1, r.len - 1) ELSE r

\* Once the MMU is on, every full page of a frame buffer in memory is mapped uncached,
\* also on T600X, where an unaligned frame buffer's row is moved up to the next page.
FrameBufferUncached ==
    mmu = "on" /\ Within(hw.fb, hw.memory) => MappedAs(FullPages(hw.fb), "uncached")

\* A RAM disk registered in place lies, with its header, in memory that DXE cannot
\* give to anybody, if the window meets neither the firmware device, the frame buffer
\* nor a carveout, and no carveout is empty; whatever size the image's header claims.
RamdiskReserved ==
    /\ ramdisk # Absent
    /\ Family = "T810X"
    /\ hw.window.len > 0 /\ Within(hw.window, hw.memory) /\ ~Meets(hw.window, hw.fd)
    /\ \A k \in DOMAIN asked : asked[k] # hw.window => ~Collide(asked[k], hw.window)
    => Reserved(ramdisk) /\ Reserved(Region(hw.window.base, 1))

\* What MemoryPeim of each family can do with: T810X insists on a sane frame buffer,
\* T602X on the property of every processor, if only a short one; and an image with a
\* DXE core that loads.
Bootable ==
    /\ hw.loads
    /\ Family = "T810X" => ValidFrameBuffer
    /\ Family = "T602X" => \A i \in DOMAIN hw.cpus : hw.cpus[i].node # "absent"

\* Such a machine reaches DXE, with the MMU on unless T602X was given an unaligned
\* frame buffer; InitMmu only prints that ArmConfigureMmu refused the table.
ReachesDxe ==
    Bootable ~> pc = "end" /\ (mmu = "on" \/ (hw.unaligned /\ Family = "T602X"))
=============================================================================
