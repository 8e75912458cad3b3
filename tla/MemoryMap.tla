----------------------------- MODULE MemoryMap -----------------------------
(***************************************************************************)
(* Physical regions in pages of 4 KB, the two ways in which a region is    *)
(* taken out of the hand-off blocks (HOBs) that describe memory, and the   *)
(* device rows of the virtual memory tables of the three chip families.    *)
(***************************************************************************)
EXTENDS Integers, Sequences

Top(r) == r.base + r.len

Within(r, s) == s.base <= r.base /\ Top(r) <= Top(s)

\* Page p is one of the region's.
Holds(r, p) == r.base <= p /\ p < Top(r)

\* The regions share a page.
Meets(r, s) == r.len > 0 /\ s.len > 0 /\ r.base < Top(s) /\ s.base < Top(r)

Region(base, len) == [base |-> base, len |-> len]
Hob(type, base, len) == [type |-> type, base |-> base, len |-> len]

(***************************************************************************)
(* Hand-off blocks                                                         *)
(***************************************************************************)
\* The blocks a search for system memory around r can stop at ...
Holders(list, r) == {i \in DOMAIN list : list[i].type = "system" /\ Within(r, list[i])}

\* ... and the one it stops at.
Holder(list, r) == CHOOSE i \in Holders(list, r) : \A j \in Holders(list, r) : i <= j

\* Mutant: the block's start stays where it was.
PunchedInPlace(list, i, r) ==
    IF r.base = list[i].base
    THEN [list EXCEPT ![i].len = @ - r.len]
    ELSE Append([list EXCEPT ![i].len = r.base - list[i].base],
                Hob("system", Top(r), Top(list[i]) - Top(r)))

\* Mutant: what lies above the region is dropped.
PunchedToEnd(list, i, r) ==
    IF r.base = list[i].base
    THEN [list EXCEPT ![i] = Hob("system", Top(r), list[i].len - r.len)]
    ELSE [list EXCEPT ![i].len = r.base - list[i].base]

\* Cut r out of block i of the list, and append what is left above it.
Punched(list, i, r) ==
    LET h == list[i]
    IN  CASE r.base = h.base ->
               [list EXCEPT ![i] = Hob("system", Top(r), h.len - r.len)]
          [] r.base # h.base /\ Top(h) = Top(r) ->
               [list EXCEPT ![i] = Hob("system", h.base, h.len - r.len)]
          [] OTHER ->
               Append([list EXCEPT ![i] = Hob("system", h.base, r.base - h.base)],
                      Hob("system", Top(r), Top(h) - Top(r)))

\* Mutant: the search ends at the first block of system memory.
ReserveInFirstBlock(list, r) ==
    IF 1 \in Holders(list, r)
    THEN Append(Punched(list, 1, r), Hob("reserved", r.base, r.len))
    ELSE list

\* A region that no one block contains is left as it is, without a word.
ReserveMemoryRegion(list, r) ==
    IF Holders(list, r) = {}
    THEN list
    ELSE Append(Punched(list, Holder(list, r), r), Hob("reserved", r.base, r.len))

\* The firmware device stays system memory, in a block of its own.  At the start of
\* memory it gets one only if memory goes on behind it.
SplitFirmware(list, fd, memory) ==
    LET i == Holder(list, fd)
        h == list[i]
        firmware == Hob("system", fd.base, fd.len)
    IN  CASE fd.base = h.base /\ Top(memory) = Top(fd) -> list
          [] fd.base = h.base /\ Top(memory) # Top(fd) ->
               Append([list EXCEPT ![i] = Hob("system", Top(fd), h.len - fd.len)], firmware)
          [] fd.base # h.base /\ Top(fd) < Top(h) ->
               Append(Append([list EXCEPT ![i] = Hob("system", h.base, fd.base - h.base)],
                             firmware),
                      Hob("system", Top(fd), Top(h) - Top(fd)))
          [] OTHER ->
               Append([list EXCEPT ![i] = Hob("system", h.base, fd.base - h.base)], firmware)

(***************************************************************************)
(* Rows of the virtual memory tables                                       *)
(***************************************************************************)
Row(base, len, attributes) == [base |-> base, len |-> len, attributes |-> attributes]
D(base, len) == Row(base, len, "device")

T810XDevices == <<
    D(\h200000, \h80000), D(\h380000, \h40000), D(\h400000, \h80000), D(\h480000, \h80000),
    D(\h500000, \h40000), D(\h580000, \h80000), D(\h600000, \h80000), D(\h680000, \h20000),
    D(\h6A0000, \h20000), D(\hF00000, \h10), D(\h6C0000, \h40000), D(\hF10000, \h200),
    D(\h700000, \h100000), D(\hF20000, \h200)>>

T600XDie0 == <<
    D(\h280000, \h40000), D(\h380000, \h40000), D(\h580000, \h20000), D(\h5A0000, \h20000),
    D(\h5C0000, \h40000), D(\h700000, \h40000), D(\h800000, \h200000), D(\hA00000, \h80000),
    D(\hB00000, \h40000), D(\hC00000, \h200000), D(\hE00000, \h80000), D(\hF00000, \h40000),
    D(\h1000000, \h200000), D(\h1200000, \h80000), D(\h1300000, \h40000),
    D(\h1400000, \h200000), D(\h1600000, \h80000)>>

T600XDie1 == <<
    D(\h2280000, \h40000), D(\h2380000, \h40000), D(\h2580000, \h20000), D(\h25A0000, \h20000),
    D(\h25C0000, \h40000), D(\h2700000, \h40000), D(\h2800000, \h200000), D(\h2A00000, \h80000),
    D(\h2B00000, \h40000), D(\h2C00000, \h200000), D(\h2E00000, \h80000), D(\h2F00000, \h40000),
    D(\h3000000, \h200000), D(\h3200000, \h80000), D(\h3300000, \h40000),
    D(\h3400000, \h200000), D(\h3600000, \h80000), D(\h5000000, \h10), D(\h5100000, \h200)>>

T602XDie0 == T600XDie0 \o <<D(\h1700000, \h100000), D(\h1800000, \h400000)>>
T602XDie1 == T600XDie1

DeviceRows == [T810X |-> T810XDevices, T600X |-> T600XDie0 \o T600XDie1,
               T602X |-> T602XDie0 \o T602XDie1]

MaxDescriptors == [T810X |-> 19, T600X |-> 39, T602X |-> 41]
=============================================================================
