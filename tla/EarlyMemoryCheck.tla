-------------------------- MODULE EarlyMemoryCheck --------------------------
(***************************************************************************)
(* Machines for EarlyMemory: the layout the J313 guest is built with,      *)
(* moved to the memory base of each family, with the frame buffer, the     *)
(* firmware device and the carveouts at every kind of place.               *)
(***************************************************************************)
EXTENDS EarlyMemory

MemoryBase == [T810X |-> \h800000, T600X |-> \h10000000, T602X |-> \h10000000]
MemoryLen == \h200000

\* Offsets into memory: at its start, the pinned place, at its end.
FirmwareAt == {0, \h510B4, MemoryLen - \h1E00}

\* At the start and the end of memory, inside the window, right below it, across the
\* end of the pinned firmware device, past the end of memory.
FrameBufferAt == {0, MemoryLen - \h1000, \h70000, \h5F000, \h52E00, MemoryLen}

NoNode == [node |-> "absent", region |-> Absent]

\* What is read past a short property: anything; here, across the firmware device.
Short(base) == [node |-> "short", region |-> Region(base + \h50000, \h4000)]

\* In free memory; the whole of the memory above the low window's backing; across the
\* start of the window; with a length of 4 GB and a page; with one
\* of 4 GB, of which nothing is left, inside the window.
CarveoutAt(base) ==
    {[node |-> "present", region |-> Region(base + r.base, r.len)] :
        r \in {Region(\h40000, \h10), Region(\hE0000, MemoryLen - \hE0000),
               Region(\h5FFF0, \h20), Region(\h48000, \h100001), Region(\h70000, \h100000)}}

MachinesOf(family) ==
    LET base == MemoryBase[family]
        window == IF family = "T810X" THEN {Absent, Region(base + \h60000, \h40000)} ELSE {Absent}
        low == IF family = "T810X" THEN {Absent, Region(\h100, \h3FF00)} ELSE {Absent}
        processor == CarveoutAt(base) \cup {NoNode, Short(base)}
        second == {NoNode} \cup {c \in processor : c.region.base = base + \h40000}
    IN  [family : {family}, memory : {Region(base, MemoryLen)},
         fd : {Region(base + o, \h1E00) : o \in FirmwareAt} \cup {Region(base - \h2000, \h1E00)},
         fb : {Region(base + o, \h1000) : o \in FrameBufferAt}, unaligned : BOOLEAN,
         cpus : {<<a, b>> : a \in processor, b \in second},
         window : window, low : low, backing : {base + \hA0100},
         ramdiskBoot : {TRUE}, image : {-1, \h3FFFF, \h40000}, loads : BOOLEAN]

\* Only T810X and T602X read the carveouts, only T810X the image.
AllMachines ==
    LET usual == UNION {MachinesOf(f) : f \in {"T810X", "T600X", "T602X"}}
    IN  {m \in usual :
            /\ m.family = "T600X" => m.cpus = <<NoNode, NoNode>>
            /\ m.window = Absent <=> m.image = -1
            /\ m.unaligned => m.cpus[2] = NoNode /\ m.low = Absent
            /\ m.loads \/ m.cpus = <<NoNode, NoNode>>}
=============================================================================
