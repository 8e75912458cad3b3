------------------------------ MODULE AcpiTables -----------------------------
(* The ACPI platform driver.  It hands the tables of four firmware files to   *)
(* the ACPI table protocol, one section at a time, in the order device, SoC,  *)
(* generic, device family, and then prints what the OS will see.  Memory may  *)
(* run out at every call.  The ACPI protocol is there when the driver starts: *)
(* its dependency expression waits for it.                                    *)
EXTENDS Integers, Sequences, FiniteSets

\* Images: what the build packages, [volumes, debug, ecam]: the firmware
\* volumes in handle order, each a function from file to its RAW sections, the
\* build's kind, and whether another driver has added the ECAM range.
CONSTANT Images

\* whole: the section is as long as the table in it says it is.
Tables == [sig : STRING, whole : BOOLEAN]

ASSUME ImagesAssumption ==
  /\ \A i \in Images :
       /\ i.debug \in BOOLEAN /\ i.ecam \in BOOLEAN
       /\ Len(i.volumes) \in Nat /\ DOMAIN i.volumes = 1 .. Len(i.volumes)
       /\ \A v \in DOMAIN i.volumes : \A f \in DOMAIN i.volumes[v] :
            i.volumes[v][f] \in Seq(Tables)

VARIABLES
  image,      \* the image that runs
  at,         \* where the driver is
  stage,      \* which of the four files is being read
  Instance,   \* the next section of that file
  FwVol,      \* the volume the file was found in, an index of image.volumes
  table,      \* the section in memory: a sequence of at most one
  pools,      \* pool buffers the driver has not freed
  xsdt,       \* the tables installed, with the file each came from
  ecam,       \* the ECAM range in the GCD map: "absent", "added", "uncached", "foreign"
  readFailed  \* the files whose reading stopped for want of memory

vars == <<image, at, stage, Instance, FwVol, table, pools, xsdt, ecam, readFailed>>

Files == <<"device", "soc", "generic", "family">>
Returned == {"unloaded", "aborted"}

Init ==
  /\ image \in Images
  /\ at = "entry" /\ stage = 1 /\ Instance = 0 /\ FwVol = 0 /\ pools = 0
  /\ table = <<>> /\ xsdt = <<>> /\ readFailed = {}
  /\ ecam = IF image.ecam THEN "foreign" ELSE "absent"

Holds(v, file) == file \in DOMAIN image.volumes[v]

\* The sections of a file in the volume it is found in first.
Sections(file) ==
  LET holders == {v \in DOMAIN image.volumes : Holds(v, file)}
  IN  IF holders = {} THEN <<>>
      ELSE image.volumes[CHOOSE v \in holders : \A w \in holders : v =< w][file]

-----------------------------------------------------------------------------

\* The emulated controller's configuration space joins the memory map, and is
\* then made uncached.  Either may fail and nothing is done about it; a range
\* another driver added first is left alone.
AddEcam ==
  /\ at = "entry"
  /\ ecam' \in IF ecam = "absent" THEN {"absent", "added", "uncached"} ELSE {ecam}
  /\ at' = "locate"
  /\ UNCHANGED <<image, stage, Instance, FwVol, table, pools, xsdt, readFailed>>

\* ASSERT (FALSE), and EFI_ABORTED where that goes on.
Abort == at' = IF image.debug THEN "stopped" ELSE "aborted"

\* The volumes are asked in handle order, and the first that has the file is
\* taken.  The handle buffer is freed on every path that got one.
LocateFv(file) ==
  \/ \E v \in DOMAIN image.volumes :
       /\ Holds(v, file) /\ \A w \in 1 .. v - 1 : ~Holds(w, file)
       /\ FwVol' = v /\ at' = "read"
  \/ /\ \A v \in DOMAIN image.volumes : ~Holds(v, file)
     /\ Abort /\ UNCHANGED FwVol
  \/ Abort /\ UNCHANGED FwVol      \* no memory for the handles

LocateFvInstanceWithDeviceTables == stage = 1 /\ LocateFv("device")
LocateFvInstanceWithSocTables == stage = 2 /\ LocateFv("soc")
LocateFvInstanceWithGenericTables == stage = 3 /\ LocateFv("generic")
LocateFvInstanceWithDeviceFamilyTables == stage = 4 /\ LocateFv("family")

LocateFvInstance ==
  /\ at = "locate"
  /\ \/ LocateFvInstanceWithDeviceTables \/ LocateFvInstanceWithSocTables
     \/ LocateFvInstanceWithGenericTables \/ LocateFvInstanceWithDeviceFamilyTables
  /\ UNCHANGED <<image, stage, Instance, table, pools, xsdt, ecam, readFailed>>

\* Mutant: instance is not reset between two files.
NextFileKeepsCount ==
  /\ UNCHANGED Instance
  /\ IF stage < Len(Files) THEN stage' = stage + 1 /\ at' = "locate"
                           ELSE at' = "dump" /\ UNCHANGED stage

\* The next file, from its first section; after the last one the dump.
NextFile ==
  /\ Instance' = 0
  /\ IF stage < Len(Files) THEN stage' = stage + 1 /\ at' = "locate"
                           ELSE at' = "dump" /\ UNCHANGED stage

\* ReadSection allocates a buffer for the section.  Whatever error it returns,
\* the end of the file or no memory, the file is done.
ReadSection ==
  /\ at = "read"
  /\ LET sections == image.volumes[FwVol][Files[stage]]
     IN  \/ /\ Instance < Len(sections)
            /\ table' = <<sections[Instance + 1]>> /\ pools' = pools + 1
            /\ at' = "install" /\ UNCHANGED <<stage, Instance, readFailed>>
         \/ /\ Instance >= Len(sections)
            /\ NextFile /\ UNCHANGED <<table, pools, readFailed>>
         \/ /\ Instance < Len(sections)
            /\ readFailed' = readFailed \cup {Files[stage]}
            /\ NextFile /\ UNCHANGED <<table, pools>>
  /\ UNCHANGED <<image, FwVol, xsdt, ecam>>

\* Mutant: a table that cannot be installed is passed over.
PassOver == at' = "read" /\ Instance' = Instance + 1 /\ UNCHANGED xsdt

\* EFI_ABORTED, whatever the protocol's status.
GiveUp == at' = "aborted" /\ UNCHANGED <<xsdt, Instance>>

\* The protocol copies the table; it denies a second FADT and may lack memory.
InstallAcpiTable(t) ==
  \/ /\ ~(t.sig = "FADT" /\ \E i \in DOMAIN xsdt : xsdt[i].table.sig = "FADT")
     /\ xsdt' = Append(xsdt, [file |-> Files[stage], table |-> t])
     /\ at' = "read" /\ Instance' = Instance + 1
  \/ GiveUp

\* Mutant: the buffer is freed after the status was looked at.
FreeCopyOnSuccess == pools' = IF at' = "read" THEN pools - 1 ELSE pools

\* The copy in the pool is freed before the status is looked at.
FreeCopy == pools' = pools - 1

\* ASSERT (Size >= TableSize), with the buffer still held.  A release build goes
\* on, with whatever follows the buffer as the end of the table.
TableExceedsSection == /\ image.debug /\ ~table[1].whole
                       /\ at' = "stopped" /\ UNCHANGED <<xsdt, Instance, table, pools>>

InstallTable ==
  /\ at = "install"
  /\ \/ TableExceedsSection
     \/ /\ table[1].whole \/ ~image.debug
        /\ InstallAcpiTable(table[1])
        /\ FreeCopy /\ table' = <<>>
  /\ UNCHANGED <<image, stage, FwVol, ecam, readFailed>>

\* The loop over one file's sections, four times the same.
DeviceTables == stage = 1 /\ (ReadSection \/ InstallTable)
SocTables == stage = 2 /\ (ReadSection \/ InstallTable)
GenericTables == stage = 3 /\ (ReadSection \/ InstallTable)
DeviceFamilyTables == stage = 4 /\ (ReadSection \/ InstallTable)

\* The dump reads the tables the OS will find and prints them; it changes nothing.
Dump ==
  /\ at = "dump"
  /\ at' = "unloaded"
  /\ UNCHANGED <<image, stage, Instance, FwVol, table, pools, xsdt, ecam, readFailed>>

Next == \/ AddEcam \/ LocateFvInstance
        \/ DeviceTables \/ SocTables \/ GenericTables \/ DeviceFamilyTables
        \/ Dump

Spec == Init /\ [][Next]_vars

-----------------------------------------------------------------------------

Installed(file) == {i \in DOMAIN xsdt : xsdt[i].file = file}

\* How many of some positions come up to one of them.
Rank(positions, i) == Cardinality({j \in positions : j =< i})

\* The tables installed from a file are its first sections, each once and in order.
FirstSections(file) ==
  \A i \in Installed(file) :
    /\ Rank(Installed(file), i) \in DOMAIN Sections(file)
    /\ xsdt[i].table = Sections(file)[Rank(Installed(file), i)]

\* Of every file the sections installed are its first ones, each once and in
\* order, and all of them as soon as the driver has gone past the file, unless
\* memory ran out while it was read (AcpiPlatform.c:774, the count that was
\* carried over from one file to the next).
NoSectionSkipped ==
  \A s \in DOMAIN Files :
    /\ FirstSections(Files[s])
    /\ (s < stage \/ at \in {"dump", "unloaded"}) /\ Files[s] \notin readFailed
         => Cardinality(Installed(Files[s])) = Len(Sections(Files[s]))

\* One pool buffer at most is held, the table being installed, and none when
\* the driver has returned, also when the installation failed.
PoolsBalanced == pools = Len(table) /\ (at \in Returned => pools = 0)

\* Three platforms package a FADT in the device's file and another in the
\* family's.  The OS gets the family's only where the device's file has none, or
\* could not be read to its end: a device's FADT that was read but could not be
\* installed is not made up for by the family's (AcpiPlatform.c:681).
DeviceFadtPrevails ==
  (\E i \in Installed("family") : xsdt[i].table.sig = "FADT") =>
    \/ "device" \in readFailed
    \/ \A k \in DOMAIN Sections("device") : Sections("device")[k].sig # "FADT"
=============================================================================
