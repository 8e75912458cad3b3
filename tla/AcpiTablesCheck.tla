--------------------------- MODULE AcpiTablesCheck ---------------------------
(* Images for TLC: what the .fdf files of the platforms package, in debug and *)
(* release builds.  The volume inside the compressed one comes second.        *)
EXTENDS AcpiTables

\* A section as the compiler makes it.
Whole(sig) == [sig |-> sig, whole |-> TRUE]

Generic == <<Whole("GTDT")>>
Fadt == <<Whole("FADT")>>
Image(files) == [volumes |-> <<<<>>, files>>, debug |-> TRUE, ecam |-> FALSE]

MacBookAirMid2020 ==
  Image([device |-> <<Whole("DBG2"), Whole("MCFG"), Whole("DSDT")>>,
         soc |-> <<Whole("MADT"), Whole("PPTT")>>, generic |-> Generic, family |-> Fadt])
\* MacBookProLate2020 packages the same tables.
MacMini2020 ==
  Image([device |-> <<Whole("DBG2"), Whole("FADT"), Whole("DSDT")>>,
         soc |-> <<Whole("MADT"), Whole("PPTT")>>, generic |-> Generic, family |-> Fadt])
MacBookProEarly2023 ==
  Image([device |-> <<Whole("DBG2"), Whole("FADT"), Whole("DSDT")>>,
         soc |-> <<Whole("GTDT"), Whole("MADT"), Whole("PPTT")>>,
         generic |-> Generic, family |-> Fadt])
MacStudio2022 == Image([device |-> <<Whole("DBG2"), Whole("DSDT")>>, generic |-> Generic])

\* A second volume with a generic file of its own, which is never read.
TwoVolumes == [MacBookAirMid2020 EXCEPT !.volumes = Append(@, [generic |-> <<Whole("SPCR")>>])]

\* A section cut short, which no platform packages: what the ASSERT is there for.
CutShort ==
  Image([device |-> <<Whole("DBG2"), [sig |-> "DSDT", whole |-> FALSE]>>,
         soc |-> <<Whole("MADT")>>, generic |-> Generic, family |-> Fadt])

AllImages ==
  UNION {{[i EXCEPT !.debug = d, !.ecam = e] : d \in BOOLEAN, e \in BOOLEAN} :
           i \in {MacBookAirMid2020, MacMini2020, MacBookProEarly2023, MacStudio2022, TwoVolumes,
                CutShort}}
=============================================================================
