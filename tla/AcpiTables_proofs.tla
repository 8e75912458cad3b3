-------------------------- MODULE AcpiTables_proofs --------------------------
(***************************************************************************)
(* For any images: of every file the sections installed are its first ones *)
(* and none is left out, no buffer is lost, and a device's FADT prevails.  *)
(*                                                                         *)
(* The argument: while a file is read, Instance is the number of tables    *)
(* installed from it and the sections at hand are those of the volume that *)
(* holds the file first (Reading); nothing is installed from the files     *)
(* that come later (Untouched), and the device's sections that have been *)
(* passed are in the list (DeviceRead): the family's FADT is refused while *)
(* the device's is there.                                                  *)
(***************************************************************************)
EXTENDS AcpiTables, TLAPS, FiniteSetTheorems

FileNames == {"device", "soc", "generic", "family"}
Entries == [file : FileNames, table : Tables]

Types ==
  /\ image \in Images /\ stage \in 1 .. 4
  /\ at \in {"entry", "locate", "read", "install", "dump", "stopped"} \cup Returned
  /\ xsdt \in Seq(Entries)
  /\ ecam \in {"absent", "added", "uncached", "foreign"}

Current == Sections(Files[stage])

\* The count of the loop, and what it counts.
Reading ==
  /\ at \in {"entry", "locate", "read", "install"} =>
       Instance = Cardinality(Installed(Files[stage]))
  /\ at \in {"entry", "locate"} => Instance = 0
  /\ at \in {"read", "install"} =>
       /\ FwVol \in DOMAIN image.volumes /\ Holds(FwVol, Files[stage])
       /\ Current = image.volumes[FwVol][Files[stage]]
       /\ Instance =< Len(Current)

\* The buffer holds the next section, and only while that is installed, or for good
\* when an ASSERT stops the machine.
Buffer ==
  /\ at = "install" => Instance < Len(Current) /\ table = <<Current[Instance + 1]>>
  /\ at \notin {"install", "stopped"} => table = <<>>
  /\ pools = Len(table)

Untouched == \A s \in DOMAIN Files : s > stage => Installed(Files[s]) = {}

\* The device's sections that have been passed are in the list, unless one was not read.
Passed(k) == stage > 1 \/ (at \in {"read", "install"} /\ 0 < Instance /\ k =< Instance)

DeviceRead ==
  "device" \notin readFailed =>
    \A k \in DOMAIN Sections("device") : Passed(k) =>
      \E i \in DOMAIN xsdt : xsdt[i].table = Sections("device")[k]

Inv ==
  /\ Types /\ Reading /\ Buffer /\ Untouched
  /\ NoSectionSkipped /\ DeviceRead /\ DeviceFadtPrevails

(***************************************************************************)
(* Positions and ranks                                                     *)
(***************************************************************************)
InstalledIn(l, file) == {i \in DOMAIN l : l[i].file = file}

FirstIn(l, file, all) ==
  \A i \in InstalledIn(l, file) :
    /\ Rank(InstalledIn(l, file), i) \in DOMAIN all
    /\ l[i].table = all[Rank(InstalledIn(l, file), i)]

LEMMA PositionsFinite ==
  ASSUME NEW n \in Nat, NEW P, P \subseteq 1 .. n
  PROVE  IsFiniteSet(P) /\ Cardinality(P) \in Nat
  <1>1. IsFiniteSet(1 .. n)
    BY FS_Interval
  <1>2. IsFiniteSet(P)
    BY <1>1, FS_Subset
  <1> QED BY <1>2, FS_CardinalityType

\* A position added at the end leaves the ranks alone and has the last one.
LEMMA RankAtEnd ==
  ASSUME NEW n \in Nat, NEW P, P \subseteq 1 .. n
  PROVE  LET Q == P \cup {n + 1} IN
         /\ \A i \in P : Rank(Q, i) = Rank(P, i)
         /\ Rank(Q, n + 1) = Cardinality(P) + 1
         /\ Cardinality(Q) = Cardinality(P) + 1
  <1> DEFINE Q == P \cup {n + 1}
  <1>1. ASSUME NEW i \in P
        PROVE  Rank(Q, i) = Rank(P, i)
    <2>1. {j \in Q : j =< i} = {j \in P : j =< i}
      <3>1. i \in 1 .. n /\ ~(n + 1 =< i)
        OBVIOUS
      <3> QED BY <3>1
    <2> QED BY <2>1 DEF Rank
  <1>2. IsFiniteSet(P) /\ Cardinality(P) \in Nat /\ n + 1 \notin P
    <2>1. n + 1 \notin 1 .. n
      OBVIOUS
    <2> QED BY <2>1, PositionsFinite
  <1>3. Cardinality(Q) = Cardinality(P) + 1
    BY <1>2, FS_AddElement
  <1>4. {j \in Q : j =< n + 1} = Q
    <2>1. \A j \in Q : j =< n + 1
      OBVIOUS
    <2> QED BY <2>1
  <1> QED BY <1>1, <1>3, <1>4 DEF Rank

LEMMA AppendInstalls ==
  ASSUME NEW l \in Seq(Entries), NEW e \in Entries, NEW file
  PROVE  /\ InstalledIn(l, file) \subseteq 1 .. Len(l) /\ Len(l) \in Nat
         /\ file # e.file => InstalledIn(Append(l, e), file) = InstalledIn(l, file)
         /\ file = e.file =>
              InstalledIn(Append(l, e), file) = InstalledIn(l, file) \cup {Len(l) + 1}
  <1> DEFINE n == Append(l, e)
  <1>1. /\ Len(l) \in Nat /\ DOMAIN l = 1 .. Len(l)
        /\ DOMAIN n = DOMAIN l \cup {Len(l) + 1} /\ n[Len(l) + 1] = e
        /\ \A i \in DOMAIN l : n[i] = l[i]
    OBVIOUS
  <1> HIDE DEF n
  <1>2. /\ file # e.file => InstalledIn(n, file) = InstalledIn(l, file)
        /\ file = e.file => InstalledIn(n, file) = InstalledIn(l, file) \cup {Len(l) + 1}
    BY <1>1 DEF InstalledIn
  <1> QED BY <1>1, <1>2 DEF n, InstalledIn

\* A table appended to those of its file is the next of the sections.
LEMMA AppendFirst ==
  ASSUME NEW l \in Seq(Entries), NEW e \in Entries, NEW file, NEW all,
         FirstIn(l, file, all),
         file = e.file =>
           LET r == Cardinality(InstalledIn(l, file)) + 1
           IN  r \in DOMAIN all /\ e.table = all[r]
  PROVE  FirstIn(Append(l, e), file, all)
  <1> DEFINE n == Append(l, e)
             P == InstalledIn(l, file)
  <1>1. /\ P \subseteq 1 .. Len(l) /\ Len(l) \in Nat
        /\ file # e.file => InstalledIn(n, file) = P
        /\ file = e.file => InstalledIn(n, file) = P \cup {Len(l) + 1}
    BY AppendInstalls
  <1>2. n[Len(l) + 1] = e /\ \A i \in P : n[i] = l[i]
    BY <1>1
  <1> HIDE DEF n
  <1>3. CASE file # e.file
    BY <1>1, <1>2, <1>3 DEF FirstIn, n
  <1>4. CASE file = e.file
    <2>1. /\ \A i \in P : Rank(P \cup {Len(l) + 1}, i) = Rank(P, i)
          /\ Rank(P \cup {Len(l) + 1}, Len(l) + 1) = Cardinality(P) + 1
      BY <1>1, RankAtEnd
    <2>2. \A i \in P : Rank(P, i) \in DOMAIN all /\ n[i].table = all[Rank(P, i)]
      BY <1>2 DEF FirstIn
    <2>3. Cardinality(P) + 1 \in DOMAIN all /\ e.table = all[Cardinality(P) + 1]
      BY <1>4
    <2> HIDE DEF P
    <2>4. FirstIn(n, file, all)
      <3> DEFINE Q == P \cup {Len(l) + 1}
      <3> HIDE DEF Q
      <3>1. InstalledIn(n, file) = Q
        BY <1>1, <1>4 DEF Q
      <3>2. ASSUME NEW i \in Q
            PROVE  Rank(Q, i) \in DOMAIN all /\ n[i].table = all[Rank(Q, i)]
        <4>1. CASE i \in P
          <5>1. Rank(Q, i) = Rank(P, i)
            BY <2>1, <4>1 DEF Q
          <5> QED BY <2>2, <4>1, <5>1
        <4>2. CASE i = Len(l) + 1
          <5>1. Rank(Q, i) = Cardinality(P) + 1
            BY <2>1, <4>2 DEF Q
          <5> QED BY <1>2, <2>3, <4>2, <5>1
        <4> QED BY <4>1, <4>2 DEF Q
      <3> QED BY <3>1, <3>2 DEF FirstIn
    <2> QED BY <2>4 DEF n
  <1> QED BY <1>3, <1>4

(***************************************************************************)
(* Facts about the state                                                   *)
(***************************************************************************)
LEMMA FileFacts ==
  /\ DOMAIN Files = 1 .. 4 /\ Len(Files) = 4
  /\ \A s \in 1 .. 4 : Files[s] \in FileNames
  /\ \A s, t \in 1 .. 4 : Files[s] = Files[t] => s = t
  BY DEF Files, FileNames

LEMMA Restated ==
  ASSUME NEW file
  PROVE  /\ Installed(file) = InstalledIn(xsdt, file)
         /\ FirstSections(file) <=> FirstIn(xsdt, file, Sections(file))
  BY DEF Installed, InstalledIn, FirstSections, FirstIn

LEMMA SectionsStay ==
  ASSUME image' = image, NEW file
  PROVE  Sections(file)' = Sections(file)
  BY DEF Sections, Holds

LEMMA ListStays ==
  ASSUME image' = image, xsdt' = xsdt, NEW file
  PROVE  /\ Installed(file)' = Installed(file)
         /\ FirstSections(file)' <=> FirstSections(file)
  BY SectionsStay DEF Installed, FirstSections

\* The volume in which a file is found first is the one its sections are read from.
LEMMA FoundFirst ==
  ASSUME image \in Images, NEW file, NEW v \in DOMAIN image.volumes, Holds(v, file),
         \A w \in 1 .. v - 1 : ~Holds(w, file)
  PROVE  Sections(file) = image.volumes[v][file]
  <1> DEFINE holders == {w \in DOMAIN image.volumes : Holds(w, file)}
             first == CHOOSE u \in holders : \A w \in holders : u =< w
  <1>1. DOMAIN image.volumes = 1 .. Len(image.volumes) /\ Len(image.volumes) \in Nat
    BY ImagesAssumption
  <1>2. v \in holders /\ holders \subseteq 1 .. Len(image.volumes)
    BY <1>1
  <1>3. \A w \in holders : v =< w
    <2> SUFFICES ASSUME NEW w \in holders, w < v
                 PROVE  FALSE
      BY <1>1, <1>2
    <2>1. w \in 1 .. v - 1
      BY <1>1, <1>2
    <2> QED BY <2>1
  <1>4. first \in holders /\ \A w \in holders : first =< w
    BY <1>2, <1>3
  <1>5. first = v
    BY <1>1, <1>2, <1>3, <1>4
  <1> QED BY <1>2, <1>5 DEF Sections

LEMMA CurrentIsSeq ==
  ASSUME Inv, at \in {"read", "install"}
  PROVE  Current \in Seq(Tables) /\ Len(Current) \in Nat /\ DOMAIN Current = 1 .. Len(Current)
  <1>1. /\ FwVol \in DOMAIN image.volumes /\ Files[stage] \in DOMAIN image.volumes[FwVol]
        /\ Current = image.volumes[FwVol][Files[stage]] /\ image \in Images
    BY DEF Inv, Reading, Types, Holds
  <1>2. Current \in Seq(Tables)
    BY <1>1, ImagesAssumption
  <1> QED BY <1>2

LEMMA CountFacts ==
  ASSUME Inv
  PROVE  /\ \A file : Installed(file) \subseteq 1 .. Len(xsdt)
         /\ \A file : Cardinality(Installed(file)) \in Nat
         /\ Len(xsdt) \in Nat
  <1>1. xsdt \in Seq(Entries)
    BY DEF Inv, Types
  <1>2. Len(xsdt) \in Nat /\ DOMAIN xsdt = 1 .. Len(xsdt)
    BY <1>1
  <1>3. \A file : Installed(file) \subseteq 1 .. Len(xsdt)
    BY <1>2 DEF Installed
  <1> QED BY <1>2, <1>3, PositionsFinite

\* A step that installs nothing.
LEMMA SkippedIfListStays ==
  ASSUME Inv, image' = image, xsdt' = xsdt, readFailed \subseteq readFailed',
         \A s \in 1 .. 4 : s < stage' \/ at' \in {"dump", "unloaded"} =>
            \/ s < stage \/ at \in {"dump", "unloaded"}
            \/ Files[s] \in readFailed'
            \/ Cardinality(Installed(Files[s])) = Len(Sections(Files[s]))
  PROVE  NoSectionSkipped'
  <1> SUFFICES ASSUME NEW s \in 1 .. 4
               PROVE  /\ FirstSections(Files[s])'
                      /\ (s < stage' \/ at' \in {"dump", "unloaded"})
                           /\ Files[s] \notin readFailed'
                           => Cardinality(Installed(Files[s]))' = Len(Sections(Files[s]))'
    BY FileFacts DEF NoSectionSkipped
  <1>1. /\ FirstSections(Files[s])
        /\ (s < stage \/ at \in {"dump", "unloaded"}) /\ Files[s] \notin readFailed
             => Cardinality(Installed(Files[s])) = Len(Sections(Files[s]))
    BY FileFacts DEF Inv, NoSectionSkipped
  <1>2. /\ Installed(Files[s])' = Installed(Files[s])
        /\ FirstSections(Files[s])' <=> FirstSections(Files[s])
        /\ Sections(Files[s])' = Sections(Files[s])
    BY ListStays, SectionsStay
  <1> QED BY <1>1, <1>2

LEMMA InitInv ==
  ASSUME Init
  PROVE  Inv
  <1>1. Types
    <2>1. xsdt \in Seq(Entries)
      BY DEF Init
    <2> QED BY <2>1 DEF Init, Types
  <1>2. \A file : Installed(file) = {}
    BY DEF Init, Installed
  <1>3. Reading
    BY <1>2, FS_EmptySet DEF Init, Reading
  <1>4. Buffer
    BY DEF Init, Buffer
  <1>5. Untouched
    BY <1>2 DEF Untouched
  <1>6. NoSectionSkipped
    BY <1>2, FileFacts DEF Init, NoSectionSkipped, FirstSections
  <1>7. DeviceRead
    BY DEF Init, DeviceRead, Passed
  <1>8. DeviceFadtPrevails
    BY <1>2 DEF DeviceFadtPrevails
  <1> QED BY <1>1, <1>3, <1>4, <1>5, <1>6, <1>7, <1>8 DEF Inv

(***************************************************************************)
(* Each step keeps the invariant                                           *)
(***************************************************************************)
\* The parts that only speak of the image and the list.
LEMMA IfListStays ==
  ASSUME Inv, image' = image, xsdt' = xsdt, stage' \in 1 .. 4, stage =< stage',
         at' \in {"locate", "read", "install", "dump", "stopped"} \cup Returned,
         ecam' \in {"absent", "added", "uncached", "foreign"}
  PROVE  Types' /\ Untouched'
  <1>1. Types'
    BY DEF Inv, Types
  <1>2. \A file : Installed(file)' = Installed(file)
    BY ListStays
  <1>3. Untouched'
    <2> SUFFICES ASSUME NEW s \in 1 .. 4, s > stage'
                 PROVE  Installed(Files[s])' = {}
      BY FileFacts DEF Untouched
    <2>1. s > stage
      BY DEF Inv, Types
    <2> QED BY <1>2, <2>1, FileFacts DEF Inv, Untouched
  <1> QED BY <1>1, <1>3

LEMMA DeviceStays ==
  ASSUME Inv, image' = image, xsdt' = xsdt, readFailed \subseteq readFailed',
         \A k \in DOMAIN Sections("device") : Passed(k)' => Passed(k) \/ "device" \in readFailed'
  PROVE  DeviceRead' /\ DeviceFadtPrevails'
  <1>1. Sections("device")' = Sections("device") /\ Installed("family")' = Installed("family")
    BY SectionsStay, ListStays
  <1>2. DeviceRead'
    BY <1>1 DEF Inv, DeviceRead
  <1>3. DeviceFadtPrevails'
    BY <1>1 DEF Inv, DeviceFadtPrevails
  <1> QED BY <1>2, <1>3

LEMMA AddEcamStep ==
  ASSUME Inv, AddEcam
  PROVE  Inv'
  <1>1. /\ image' = image /\ xsdt' = xsdt /\ stage' = stage /\ stage \in 1 .. 4
        /\ at = "entry" /\ at' = "locate" /\ readFailed' = readFailed
        /\ Instance' = Instance /\ table' = table /\ pools' = pools /\ Instance = 0
    BY DEF Inv, Types, Reading, AddEcam
  <1>2. Types' /\ Untouched'
    <2>1. ecam' \in {"absent", "added", "uncached", "foreign"}
      BY DEF AddEcam, Inv, Types
    <2> QED BY <1>1, <2>1, IfListStays
  <1>3. NoSectionSkipped'
    BY <1>1, SkippedIfListStays
  <1>4. Reading'
    BY <1>1, ListStays DEF Inv, Reading
  <1>5. Buffer'
    BY <1>1 DEF Inv, Buffer
  <1>6. DeviceRead' /\ DeviceFadtPrevails'
    BY <1>1, DeviceStays DEF Passed
  <1> QED BY <1>2, <1>3, <1>4, <1>5, <1>6 DEF Inv

LEMMA LocateStep ==
  ASSUME Inv, LocateFvInstance
  PROVE  Inv'
  <1>1. /\ image' = image /\ xsdt' = xsdt /\ stage' = stage /\ stage \in 1 .. 4
        /\ at = "locate" /\ readFailed' = readFailed /\ ecam' = ecam
        /\ Instance' = Instance /\ table' = table /\ pools' = pools /\ Instance = 0
        /\ image \in Images
    BY DEF Inv, Types, Reading, LocateFvInstance
  <1>2. \/ at' \in {"stopped", "aborted"}
        \/ \E v \in DOMAIN image.volumes :
             /\ Holds(v, Files[stage]) /\ \A w \in 1 .. v - 1 : ~Holds(w, Files[stage])
             /\ FwVol' = v /\ at' = "read"
    <2>1. LocateFv(Files[stage])
      BY DEF LocateFvInstance, LocateFvInstanceWithDeviceTables, LocateFvInstanceWithSocTables,
             LocateFvInstanceWithGenericTables, LocateFvInstanceWithDeviceFamilyTables, Files
    <2> QED BY <2>1 DEF LocateFv, Abort
  <1>3. at' \in {"read", "stopped", "aborted"}
    BY <1>2
  <1>4. Types' /\ Untouched'
    BY <1>1, <1>3, IfListStays DEF Returned, Inv, Types
  <1>5. NoSectionSkipped'
    BY <1>1, <1>3, SkippedIfListStays
  <1>6. Buffer'
    BY <1>1, <1>3 DEF Inv, Buffer
  <1>8. DeviceRead' /\ DeviceFadtPrevails'
    BY <1>1, <1>3, DeviceStays DEF Passed
  <1>7. Reading'
    <2>1. CASE at' \in {"stopped", "aborted"}
      BY <2>1 DEF Reading
    <2>2. CASE at' = "read"
      <3>1. PICK v \in DOMAIN image.volumes :
              /\ Holds(v, Files[stage]) /\ \A w \in 1 .. v - 1 : ~Holds(w, Files[stage])
              /\ FwVol' = v
        BY <1>2, <2>2
      <3>2. Current = image.volumes[v][Files[stage]]
        BY <1>1, <3>1, FoundFirst DEF Current
      <3>3. Current' = Current /\ Installed(Files[stage])' = Installed(Files[stage])
        BY <1>1, SectionsStay, ListStays DEF Current
      <3>4. Instance = Cardinality(Installed(Files[stage]))
        BY <1>1 DEF Inv, Reading
      <3>5. Instance =< Len(Current)
        <4>1. Files[stage] \in DOMAIN image.volumes[v]
          BY <3>1 DEF Holds
        <4>2. Current \in Seq(Tables)
          BY <1>1, <3>2, <4>1, ImagesAssumption
        <4> QED BY <1>1, <4>2
      <3>6. Holds(v, Files[stage])'
        BY <1>1, <3>1 DEF Holds
      <3>7. /\ FwVol' \in DOMAIN image'.volumes /\ Holds(FwVol, Files[stage])'
            /\ Current' = image'.volumes[FwVol'][Files[stage']]
            /\ Instance' =< Len(Current')
            /\ Instance' = Cardinality(Installed(Files[stage])')
        BY <1>1, <3>1, <3>2, <3>3, <3>4, <3>5, <3>6 DEF Holds
      <3> QED BY <2>2, <3>7 DEF Reading
    <2> QED BY <1>3, <2>1, <2>2
  <1> QED BY <1>4, <1>5, <1>6, <1>7, <1>8 DEF Inv

LEMMA ReadStep ==
  ASSUME Inv, ReadSection
  PROVE  Inv'
  <1> DEFINE next == Instance < Len(Current)
                       /\ table' = <<Current[Instance + 1]>> /\ pools' = pools + 1
                       /\ at' = "install" /\ UNCHANGED <<stage, Instance, readFailed>>
             last == Instance >= Len(Current)
                       /\ NextFile /\ UNCHANGED <<table, pools, readFailed>>
             failed == /\ readFailed' = readFailed \cup {Files[stage]}
                       /\ NextFile /\ UNCHANGED <<table, pools>>
  <1>1. /\ image' = image /\ xsdt' = xsdt /\ stage \in 1 .. 4 /\ at = "read"
        /\ ecam' = ecam /\ FwVol' = FwVol
        /\ Instance = Cardinality(Installed(Files[stage]))
        /\ FwVol \in DOMAIN image.volumes /\ Holds(FwVol, Files[stage])
        /\ Current = image.volumes[FwVol][Files[stage]]
        /\ Instance =< Len(Current) /\ table = <<>> /\ pools = 0
    BY DEF Inv, Types, Reading, Buffer, ReadSection
  <1>2. next \/ last \/ failed
    BY <1>1 DEF ReadSection
  <1>3. Instance \in Nat /\ Len(Current) \in Nat
    BY <1>1, CountFacts, CurrentIsSeq
  <1>4. ASSUME NextFile
        PROVE  /\ Instance' = 0 /\ stage' \in 1 .. 4 /\ stage =< stage'
               /\ \/ stage < 4 /\ stage' = stage + 1 /\ at' = "locate"
                  \/ stage = 4 /\ stage' = stage /\ at' = "dump"
    BY <1>1, <1>4, FileFacts DEF NextFile
  <1>5. CASE next
    <2>1. Types' /\ Untouched'
      BY <1>1, <1>5, IfListStays DEF Inv, Types
    <2>2. NoSectionSkipped'
      BY <1>1, <1>5, SkippedIfListStays
    <2>3. Current' = Current /\ Installed(Files[stage])' = Installed(Files[stage])
      BY <1>1, <1>5, SectionsStay, ListStays DEF Current
    <2>4. Holds(FwVol, Files[stage])'
      BY <1>1, <1>5 DEF Holds
    <2>5. Reading'
      BY <1>1, <1>5, <2>3, <2>4 DEF Reading
    <2>6. Buffer'
      <3>1. table' = <<Current'[Instance' + 1]>> /\ Instance' < Len(Current')
        BY <1>5, <2>3
      <3>2. pools' = Len(table')
        BY <1>1, <1>5
      <3> QED BY <1>5, <3>1, <3>2 DEF Buffer
    <2>7. DeviceRead' /\ DeviceFadtPrevails'
      BY <1>1, <1>5, DeviceStays DEF Passed
    <2> QED BY <2>1, <2>2, <2>5, <2>6, <2>7 DEF Inv
  <1>6. CASE last \/ failed
    <2>1. /\ Instance' = 0 /\ stage' \in 1 .. 4 /\ stage =< stage'
          /\ \/ stage < 4 /\ stage' = stage + 1 /\ at' = "locate"
             \/ stage = 4 /\ stage' = stage /\ at' = "dump"
      BY <1>4, <1>6
    <2>2. /\ table' = <<>> /\ pools' = 0 /\ readFailed \subseteq readFailed'
          /\ Files[stage] \in readFailed' \/ Instance >= Len(Current)
      BY <1>1, <1>6
    <2>3. Types' /\ Untouched'
      BY <1>1, <2>1, IfListStays DEF Inv, Types
    <2>4. NoSectionSkipped'
      <3>1. \/ Files[stage] \in readFailed'
            \/ Cardinality(Installed(Files[stage])) = Len(Sections(Files[stage]))
        BY <1>1, <1>3, <2>2 DEF Current
      <3>2. \A s \in 1 .. 4 : s < stage' \/ at' \in {"dump", "unloaded"} =>
              s < stage \/ s = stage
        BY <1>1, <2>1
      <3> QED BY <1>1, <2>2, <3>1, <3>2, SkippedIfListStays
    <2>5. Reading'
      <3>1. at' = "locate" => Installed(Files[stage])' = {}
        <4>1. at' = "locate" => stage' \in DOMAIN Files /\ stage' > stage
          BY <1>1, <2>1, FileFacts
        <4>2. at' = "locate" => Installed(Files[stage']) = {}
          BY <4>1 DEF Inv, Untouched
        <4>3. xsdt' = xsdt
          BY <1>1
        <4>4. Files' = Files
          BY DEF Files
        <4> QED BY <4>2, <4>3, <4>4 DEF Installed
      <3>2. at' = "locate" => Instance' = Cardinality(Installed(Files[stage]))'
        BY <2>1, <3>1, FS_EmptySet
      <3> QED BY <2>1, <3>2 DEF Reading
    <2>6. Buffer'
      BY <2>1, <2>2 DEF Buffer
    <2>7. DeviceRead' /\ DeviceFadtPrevails'
      <3>1. ASSUME NEW k \in DOMAIN Sections("device"), Passed(k)'
            PROVE  Passed(k) \/ "device" \in readFailed'
        <4>1. CASE stage > 1
          BY <4>1 DEF Passed
        <4>2. CASE stage = 1
          <5>1. Files[stage] = "device" /\ DOMAIN Current = 1 .. Len(Current)
            BY <1>1, <4>2, CurrentIsSeq DEF Files
          <5>2. k \in 1 .. Len(Current)
            BY <5>1 DEF Current
          <5>3. Instance >= Len(Current) => Passed(k)
            BY <1>1, <1>3, <5>2 DEF Passed
          <5> QED BY <2>2, <5>1, <5>3
        <4> QED BY <1>1, <4>1, <4>2
      <3> QED BY <1>1, <2>2, <3>1, DeviceStays
    <2> QED BY <2>3, <2>4, <2>5, <2>6, <2>7 DEF Inv
  <1> QED BY <1>2, <1>5, <1>6

LEMMA InstallStep ==
  ASSUME Inv, InstallTable
  PROVE  Inv'
  <1> DEFINE t == table[1]
             e == [file |-> Files[stage], table |-> t]
             section == Current[Instance + 1]
  <1>1. /\ image' = image /\ stage' = stage /\ stage \in 1 .. 4 /\ at = "install"
        /\ ecam' = ecam /\ FwVol' = FwVol /\ readFailed' = readFailed /\ image \in Images
        /\ xsdt \in Seq(Entries) /\ ecam \in {"absent", "added", "uncached", "foreign"}
    BY DEF Inv, Types, InstallTable
  <1>2. /\ Instance = Cardinality(Installed(Files[stage])) /\ Instance \in Nat
        /\ Instance < Len(Current) /\ table = <<section>> /\ pools = 1
        /\ section \in Tables /\ Instance + 1 \in DOMAIN Current
    <2>1. /\ Instance = Cardinality(Installed(Files[stage]))
          /\ Instance < Len(Current) /\ table = <<section>> /\ pools = Len(table)
      BY <1>1 DEF Inv, Reading, Buffer
    <2>2. Instance \in Nat
      BY <2>1, CountFacts
    <2>3. Current \in Seq(Tables) /\ Len(Current) \in Nat /\ DOMAIN Current = 1 .. Len(Current)
      BY <1>1, CurrentIsSeq
    <2>4. Instance + 1 \in 1 .. Len(Current)
      BY <2>1, <2>2, <2>3
    <2> HIDE DEF section
    <2>5. pools = 1
      BY <2>1
    <2> QED BY <2>1, <2>2, <2>3, <2>4, <2>5 DEF section
  <1>3. TableExceedsSection \/ (pools' = 0 /\ table' = <<>> /\ InstallAcpiTable(t))
    BY <1>2 DEF InstallTable, FreeCopy
  <1>4. \/ /\ xsdt' = Append(xsdt, e) /\ at' = "read" /\ Instance' = Instance + 1
           /\ ~(t.sig = "FADT" /\ \E i \in DOMAIN xsdt : xsdt[i].table.sig = "FADT")
           /\ pools' = 0 /\ table' = <<>>
        \/ at' = "aborted" /\ xsdt' = xsdt /\ pools' = 0 /\ table' = <<>>
        \/ at' = "stopped" /\ xsdt' = xsdt /\ UNCHANGED <<table, pools>>
    BY <1>3 DEF TableExceedsSection, InstallAcpiTable, GiveUp
  <1>5. CASE at' \in {"aborted", "stopped"} /\ xsdt' = xsdt
    <2>1. Types' /\ Untouched'
      BY <1>1, <1>5, IfListStays DEF Returned, Inv, Types
    <2>2. NoSectionSkipped'
      BY <1>1, <1>5, SkippedIfListStays
    <2>3. Reading'
      BY <1>5 DEF Reading
    <2>4. Buffer'
      BY <1>2, <1>4, <1>5 DEF Buffer
    <2>5. DeviceRead' /\ DeviceFadtPrevails'
      BY <1>1, <1>5, DeviceStays DEF Passed
    <2> QED BY <2>1, <2>2, <2>3, <2>4, <2>5 DEF Inv
  <1>6. CASE /\ xsdt' = Append(xsdt, e) /\ at' = "read" /\ Instance' = Instance + 1
             /\ ~(t.sig = "FADT" /\ \E i \in DOMAIN xsdt : xsdt[i].table.sig = "FADT")
             /\ pools' = 0 /\ table' = <<>>
    <2>1. t \in Tables /\ t = section
      BY <1>2
    <2> HIDE DEF t
    <2>2. e \in Entries /\ e.file = Files[stage] /\ e.table = t
      BY <1>1, <2>1, FileFacts DEF Entries
    <2> HIDE DEF e
    <2>3. /\ xsdt' \in Seq(Entries) /\ Len(xsdt) \in Nat
          /\ DOMAIN xsdt' = DOMAIN xsdt \cup {Len(xsdt) + 1} /\ xsdt'[Len(xsdt) + 1] = e
          /\ \A i \in DOMAIN xsdt : xsdt'[i] = xsdt[i]
      BY <1>1, <1>6, <2>2
    <2>4. \A s \in 1 .. 4 : s # stage => Installed(Files[s])' = Installed(Files[s])
      <3> SUFFICES ASSUME NEW s \in 1 .. 4, s # stage
                   PROVE  Installed(Files[s])' = Installed(Files[s])
        OBVIOUS
      <3>1. Files[s] # e.file
        BY <1>1, <2>2, FileFacts
      <3>2. InstalledIn(xsdt', Files[s]) = InstalledIn(xsdt, Files[s])
        BY <1>1, <1>6, <2>2, <3>1, AppendInstalls
      <3> QED BY <3>2 DEF Installed, InstalledIn
    <2>5. Cardinality(Installed(Files[stage]))' = Instance + 1
      <3> DEFINE P == InstalledIn(xsdt, Files[stage])
      <3>1. /\ P \subseteq 1 .. Len(xsdt)
            /\ InstalledIn(xsdt', Files[stage]) = P \cup {Len(xsdt) + 1}
        BY <1>1, <1>6, <2>2, AppendInstalls
      <3>2. Cardinality(P \cup {Len(xsdt) + 1}) = Cardinality(P) + 1
        BY <2>3, <3>1, RankAtEnd
      <3>3. Cardinality(P) = Instance
        BY <1>2, Restated
      <3>4. Installed(Files[stage])' = InstalledIn(xsdt', Files[stage])
        BY <1>1 DEF Installed, InstalledIn
      <3> QED BY <3>1, <3>2, <3>3, <3>4
    <2>6. Types'
      BY <1>1, <1>6, <2>3 DEF Types
    <2>7. Reading'
      <3>1. Current' = Current
        BY <1>1, SectionsStay DEF Current
      <3>2. Holds(FwVol, Files[stage])'
        BY <1>1 DEF Inv, Reading, Holds
      <3>3. /\ FwVol \in DOMAIN image.volumes /\ Current = image.volumes[FwVol][Files[stage]]
        BY <1>1 DEF Inv, Reading
      <3>4. Instance' =< Len(Current')
        <4>1. Len(Current) \in Nat
          BY <1>1, CurrentIsSeq
        <4> QED BY <1>2, <1>6, <3>1, <4>1
      <3> QED BY <1>1, <1>6, <2>5, <3>1, <3>2, <3>3, <3>4 DEF Reading
    <2>8. Buffer'
      BY <1>6 DEF Buffer
    <2>9. Untouched'
      <3> SUFFICES ASSUME NEW s \in 1 .. 4, s > stage'
                   PROVE  Installed(Files[s])' = {}
        BY FileFacts DEF Untouched
      <3>1. s > stage /\ s # stage
        BY <1>1
      <3>2. Installed(Files[s]) = {}
        BY <3>1, FileFacts DEF Inv, Untouched
      <3> QED BY <2>4, <3>1, <3>2
    <2>10. NoSectionSkipped'
      <3> SUFFICES ASSUME NEW s \in 1 .. 4
                   PROVE  /\ FirstSections(Files[s])'
                          /\ s < stage /\ Files[s] \notin readFailed
                               => Cardinality(Installed(Files[s]))' = Len(Sections(Files[s]))'
        BY <1>1, <1>6, FileFacts DEF NoSectionSkipped
      <3>1. /\ FirstSections(Files[s])
            /\ s < stage /\ Files[s] \notin readFailed
                 => Cardinality(Installed(Files[s])) = Len(Sections(Files[s]))
        BY FileFacts DEF Inv, NoSectionSkipped
      <3>2. Sections(Files[s])' = Sections(Files[s])
        BY <1>1, SectionsStay
      <3>3. FirstIn(xsdt, Files[s], Sections(Files[s]))
        BY <3>1, Restated
      <3>4. Files[s] = e.file =>
              LET r == Cardinality(InstalledIn(xsdt, Files[s])) + 1
              IN  r \in DOMAIN Sections(Files[s]) /\ e.table = Sections(Files[s])[r]
        <4> SUFFICES ASSUME Files[s] = e.file
                     PROVE  LET r == Cardinality(InstalledIn(xsdt, Files[s])) + 1
                            IN  /\ r \in DOMAIN Sections(Files[s])
                                /\ e.table = Sections(Files[s])[r]
          OBVIOUS
        <4>1. Files[s] = Files[stage]
          BY <2>2
        <4>2. Cardinality(InstalledIn(xsdt, Files[s])) = Instance
          BY <1>2, <4>1, Restated
        <4>3. Sections(Files[s]) = Current
          BY <4>1 DEF Current
        <4>4. e.table = section
          BY <2>1, <2>2
        <4> QED BY <1>2, <4>2, <4>3, <4>4
      <3>5. FirstIn(Append(xsdt, e), Files[s], Sections(Files[s]))
        BY <1>1, <2>2, <3>3, <3>4, AppendFirst
      <3>6. FirstSections(Files[s])'
        BY <1>6, <3>2, <3>5 DEF FirstSections, FirstIn, Installed, InstalledIn
      <3>7. s < stage => s # stage
        BY <1>1
      <3> QED BY <2>4, <3>1, <3>2, <3>6, <3>7
    <2>11. Sections("device")' = Sections("device")
      BY <1>1, SectionsStay
    <2>12. DeviceRead'
      <3> SUFFICES ASSUME "device" \notin readFailed, NEW k \in DOMAIN Sections("device"),
                          Passed(k)'
                   PROVE  \E i \in DOMAIN xsdt' : xsdt'[i].table = Sections("device")[k]
        BY <1>1, <2>11 DEF DeviceRead
      <3>1. CASE Passed(k)
        <4>1. PICK i \in DOMAIN xsdt : xsdt[i].table = Sections("device")[k]
          BY <3>1 DEF Inv, DeviceRead
        <4> QED BY <2>3, <4>1
      <3>2. CASE ~Passed(k)
        <4>1. stage = 1 /\ k =< Instance + 1 /\ (Instance = 0 \/ ~(k =< Instance))
          BY <1>1, <1>2, <1>6, <3>2 DEF Passed
        <4>2. Sections("device") = Current /\ DOMAIN Current = 1 .. Len(Current)
          BY <1>1, <4>1, CurrentIsSeq DEF Current, Files
        <4>3. k = Instance + 1
          BY <1>2, <4>1, <4>2
        <4> QED BY <2>1, <2>2, <2>3, <4>2, <4>3
      <3> QED BY <3>1, <3>2
    <2>13. DeviceFadtPrevails'
      <3>1. CASE stage # 4
        <4>1. Installed("family")' = Installed("family")
          BY <1>1, <2>4, <3>1 DEF Files
        <4>2. \A i \in Installed("family") : xsdt'[i] = xsdt[i]
          BY <2>3 DEF Installed
        <4> QED BY <1>1, <2>11, <4>1, <4>2 DEF Inv, DeviceFadtPrevails
      <3>2. CASE stage = 4
        <4>1. ASSUME NEW i \in DOMAIN xsdt', xsdt'[i].file = "family",
                     xsdt'[i].table.sig = "FADT", i \in DOMAIN xsdt
              PROVE  DeviceFadtPrevails'
          <5>1. i \in Installed("family") /\ xsdt[i].table.sig = "FADT"
            BY <2>3, <4>1 DEF Installed
          <5> QED BY <1>1, <2>11, <5>1 DEF Inv, DeviceFadtPrevails
        <4>2. ASSUME t.sig = "FADT", "device" \notin readFailed,
                     NEW k \in DOMAIN Sections("device")
              PROVE  Sections("device")[k].sig # "FADT"
          <5>1. \E i \in DOMAIN xsdt : xsdt[i].table = Sections("device")[k]
            BY <3>2, <4>2 DEF Inv, DeviceRead, Passed
          <5> QED BY <1>6, <4>2, <5>1 DEF t
        <4>3. t.sig = "FADT" => DeviceFadtPrevails'
          BY <1>1, <2>11, <4>2 DEF DeviceFadtPrevails
        <4>4. (\A i \in DOMAIN xsdt' : ~(xsdt'[i].file = "family" /\ xsdt'[i].table.sig = "FADT"))
                => DeviceFadtPrevails'
          BY DEF DeviceFadtPrevails, Installed
        <4> QED BY <2>2, <2>3, <4>1, <4>3, <4>4
      <3> QED BY <3>1, <3>2
    <2> QED BY <2>6, <2>7, <2>8, <2>9, <2>10, <2>12, <2>13 DEF Inv
  <1> QED BY <1>4, <1>5, <1>6

LEMMA DumpStep ==
  ASSUME Inv, Dump
  PROVE  Inv'
  <1>1. /\ image' = image /\ xsdt' = xsdt /\ stage' = stage /\ stage \in 1 .. 4
        /\ at = "dump" /\ at' = "unloaded" /\ readFailed' = readFailed /\ ecam' = ecam
        /\ table' = table /\ pools' = pools
    BY DEF Inv, Types, Dump
  <1>2. Types' /\ Untouched'
    BY <1>1, IfListStays DEF Returned, Inv, Types
  <1>3. NoSectionSkipped'
    BY <1>1, SkippedIfListStays
  <1>4. Reading' /\ Buffer'
    BY <1>1 DEF Inv, Reading, Buffer
  <1>5. DeviceRead' /\ DeviceFadtPrevails'
    BY <1>1, DeviceStays DEF Passed
  <1> QED BY <1>2, <1>3, <1>4, <1>5 DEF Inv

LEMMA StutterStep ==
  ASSUME Inv, UNCHANGED vars
  PROVE  Inv'
  <1>1. /\ image' = image /\ at' = at /\ stage' = stage /\ Instance' = Instance
        /\ FwVol' = FwVol /\ table' = table /\ pools' = pools /\ xsdt' = xsdt
        /\ ecam' = ecam /\ readFailed' = readFailed
    BY DEF vars
  <1>2. Types' /\ Buffer'
    <2>1. Current' = Current
      BY <1>1, SectionsStay DEF Current
    <2> QED BY <1>1, <2>1 DEF Inv, Types, Buffer
  <1>3. \A file : Installed(file)' = Installed(file)
    BY <1>1, ListStays
  <1>4. Reading'
    <2>1. Current' = Current /\ Installed(Files[stage])' = Installed(Files[stage])
      BY <1>1, SectionsStay, ListStays DEF Current
    <2>2. Holds(FwVol, Files[stage])' <=> Holds(FwVol, Files[stage])
      BY <1>1 DEF Holds
    <2> QED BY <1>1, <2>1, <2>2 DEF Inv, Reading
  <1>5. Untouched'
    BY <1>1, <1>3 DEF Inv, Untouched
  <1>6. NoSectionSkipped'
    BY <1>1, SkippedIfListStays DEF Inv, NoSectionSkipped
  <1>7. DeviceRead' /\ DeviceFadtPrevails'
    BY <1>1, DeviceStays DEF Passed
  <1> QED BY <1>2, <1>4, <1>5, <1>6, <1>7 DEF Inv

THEOREM Invariant == Spec => []Inv
  <1>1. Inv /\ [Next]_vars => Inv'
    BY AddEcamStep, LocateStep, ReadStep, InstallStep, DumpStep, StutterStep
       DEF Next, DeviceTables, SocTables, GenericTables, DeviceFamilyTables
  <1> QED BY InitInv, <1>1, PTL DEF Spec

\* Of every file, whatever the image packages and whenever memory runs out, the tables
\* installed are its first sections, each once and in order, and all of them unless a
\* read failed.
THEOREM NoSectionIsSkipped == Spec => []NoSectionSkipped
  <1>1. Inv => NoSectionSkipped
    BY DEF Inv
  <1> QED BY <1>1, Invariant, PTL

\* Every buffer ReadSection allocates is freed, on the error paths as well.
THEOREM NoBufferIsLost == Spec => []PoolsBalanced
  <1>1. Inv => PoolsBalanced
    <2> SUFFICES ASSUME Inv
                 PROVE  PoolsBalanced
      OBVIOUS
    <2>1. at \in Returned => table = <<>>
      BY DEF Inv, Buffer, Returned
    <2>2. pools = Len(table)
      BY DEF Inv, Buffer
    <2>3. at \in Returned => pools = 0
      BY <2>1, <2>2
    <2> QED BY <2>2, <2>3 DEF PoolsBalanced
  <1> QED BY <1>1, Invariant, PTL

\* The family's FADT reaches the OS only where the device's file has none or was not read
\* to its end.
THEOREM DeviceFadtComesFirst == Spec => []DeviceFadtPrevails
  <1>1. Inv => DeviceFadtPrevails
    BY DEF Inv
  <1> QED BY <1>1, Invariant, PTL
=============================================================================
