----------------------------- MODULE AcpiProofs -----------------------------
(***************************************************************************)
(* InitializedOnce for every firmware image and every bound: once          *)
(* init_acpi_table has stored ACPI_TABLES, no step changes it or starts    *)
(* Acpi::init again.  The invariant that carries it: while ACPI_TABLES is  *)
(* set, no Acpi::init is in progress.                                      *)
(***************************************************************************)
EXTENDS Acpi, TLAPS

\* Acpi::init runs only while ACPI_TABLES is None
NoInitOverTables == ACPI_TABLES # None => pc = "idle"

LEMMA InitInv == Init => NoInitOverTables
BY DEF Init, NoInitOverTables

(* The steps of Acpi::init after the first leave ACPI_TABLES alone, except *)
(* the last one, and all of them need an init in progress.                 *)
LEMMA InitStepsKeepTables ==
  ASSUME ScanStep \/ ParseRsdt \/ TableStep
  PROVE  pc # "idle" /\ UNCHANGED ACPI_TABLES
<1>1. CASE ScanStep
  BY <1>1 DEF ScanStep, Panic
<1>2. CASE ParseRsdt
  BY <1>2 DEF ParseRsdt, Panic
<1>3. CASE TableStep
  <2>1. pc = "tables"
    BY <1>3 DEF TableStep
  <2>2. UNCHANGED ACPI_TABLES
    BY <1>3 DEF TableStep, HandleMadt, HandleSrat, Panic
  <2>. QED BY <2>1, <2>2
<1>. QED BY <1>1, <1>2, <1>3

LEMMA NextInv == NoInitOverTables /\ [Next]_vars => NoInitOverTables'
<1> SUFFICES ASSUME NoInitOverTables, [Next]_vars PROVE NoInitOverTables'
  OBVIOUS
<1>1. CASE InitAcpiTable
  BY <1>1 DEF InitAcpiTable, Panic, NoInitOverTables
<1>2. CASE GetAcpiTable
  BY <1>2 DEF GetAcpiTable, Panic, NoInitOverTables, vars
<1>3. CASE ScanStep \/ ParseRsdt \/ TableStep
  <2>1. pc # "idle" /\ UNCHANGED ACPI_TABLES
    BY <1>3, InitStepsKeepTables
  <2>2. ACPI_TABLES = None
    BY <2>1 DEF NoInitOverTables
  <2>. QED BY <2>1, <2>2 DEF NoInitOverTables
<1>4. CASE InitDone
  BY <1>4 DEF InitDone, NoInitOverTables
<1>5. CASE UNCHANGED vars
  BY <1>5 DEF vars, NoInitOverTables
<1>. QED BY <1>1, <1>2, <1>3, <1>4, <1>5 DEF Next, Call, Step

(* A step from a state with ACPI_TABLES set keeps it and starts no init    *)
LEMMA StepKeepsTables ==
  ASSUME NoInitOverTables, [Next]_vars
  PROVE  ACPI_TABLES # None => UNCHANGED <<ACPI_TABLES, pc>>
<1> SUFFICES ASSUME ACPI_TABLES # None PROVE UNCHANGED <<ACPI_TABLES, pc>>
  OBVIOUS
<1>1. pc = "idle"
  BY DEF NoInitOverTables
<1>2. CASE InitAcpiTable
  BY <1>2 DEF InitAcpiTable, Panic
<1>3. CASE GetAcpiTable
  BY <1>3 DEF GetAcpiTable, Panic, vars
<1>4. CASE ScanStep \/ ParseRsdt \/ TableStep
  BY <1>1, <1>4, InitStepsKeepTables
<1>5. CASE InitDone
  BY <1>1, <1>5 DEF InitDone
<1>6. CASE UNCHANGED vars
  BY <1>6 DEF vars
<1>. QED BY <1>2, <1>3, <1>4, <1>5, <1>6 DEF Next, Call, Step

(* For every firmware image: ACPI_TABLES is written once and never         *)
(* re-initialised (spec section 5's init-once discipline, init_acpi_table). *)
THEOREM TablesInitializedOnce == Spec => InitializedOnce
<1>1. Init => NoInitOverTables
  BY InitInv
<1>2. NoInitOverTables /\ [Next]_vars => NoInitOverTables'
  BY NextInv
<1>3. NoInitOverTables /\ [Next]_vars => [ACPI_TABLES # None => UNCHANGED <<ACPI_TABLES, pc>>]_vars
  BY StepKeepsTables
<1>. QED BY <1>1, <1>2, <1>3, PTL DEF Spec, InitializedOnce

-----------------------------------------------------------------------------
(***************************************************************************)
(* SratFromSingleTable for every firmware image.                          *)
(***************************************************************************)

\* the RSDT entries before e that are SRATs
SratBefore(e) == {k \in 1 .. e - 1 : fw.rsdt[k].sig = "SRAT"}

\* acpi.domains is what the SRATs among the first e - 1 entries gave, and
\* there was at most one of them
DomainsFrom(e) ==
  /\ acpi.domains = {fw.rsdt[k].dom : k \in SratBefore(e)}
  /\ \A j, k \in SratBefore(e) : j = k

(* The inductive invariant: the firmware is one of the images; between     *)
(* the scan's acceptance of an RSDP and the end of init, addr holds it;    *)
(* the RSDT loop has taken its domains from the SRATs it passed; and a set *)
(* ACPI_TABLES is the acpi value init completed.                           *)
AcpiInv ==
  /\ fw \in Firmwares
  /\ acpi \in Acpi
  /\ pc \in {"idle", "scan", "rsdt", "tables"}
  /\ region \in Nat
  /\ pc \in {"rsdt", "tables"} => RsdpAccepted(SlotAt(addr))
  /\ pc \in {"scan", "rsdt"} => acpi.domains = None
  /\ pc = "tables" => entry \in 1 .. Len(fw.rsdt) + 1 /\ DomainsFrom(entry)
  /\ ACPI_TABLES # None =>
       /\ pc = "idle" /\ ACPI_TABLES = {acpi}
       /\ entry = Len(fw.rsdt) + 1 /\ DomainsFrom(entry)

LEMMA AcpiInitInv == Init => AcpiInv
BY DEF Init, AcpiInv, NewAcpi, Acpi, None

(* A panic changes only the panic message, which AcpiInv does not mention *)
LEMMA PanicKeepsInv ==
  ASSUME AcpiInv, NEW m, Panic(m)
  PROVE  AcpiInv'
BY DEF Panic, AcpiInv, DomainsFrom, SratBefore, SlotAt, RsdpAccepted

\* the firmware's RSDT is a sequence of tables
LEMMA RsdtTyped ==
  ASSUME AcpiInv
  PROVE  fw.rsdt \in Seq(Table)
BY AcpiAssumption DEF AcpiInv

\* the entry the RSDT loop handles is a Table
LEMMA CurrentTable ==
  ASSUME AcpiInv, pc = "tables", entry <= Len(fw.rsdt)
  PROVE  /\ entry \in 1 .. Len(fw.rsdt)
         /\ fw.rsdt[entry] \in Table
<1>1. entry \in 1 .. Len(fw.rsdt)
  BY DEF AcpiInv
<1>2. fw.rsdt \in Seq(Table)
  BY RsdtTyped
<1>. QED BY <1>1, <1>2

(* Passing an entry that is not an SRAT leaves the SRATs before it alone   *)
LEMMA SkipNonSrat ==
  ASSUME NEW e \in Nat, fw.rsdt[e].sig # "SRAT"
  PROVE  SratBefore(e + 1) = SratBefore(e)
BY DEF SratBefore

LEMMA InitAcpiTableInv ==
  ASSUME AcpiInv, InitAcpiTable
  PROVE  AcpiInv'
<1>1. CASE ACPI_TABLES # None
  BY <1>1, PanicKeepsInv DEF InitAcpiTable
<1>2. CASE ACPI_TABLES = None
  <2>1. /\ acpi' = NewAcpi /\ pc' = "scan" /\ region' = 1
        /\ UNCHANGED <<fw, ACPI_TABLES>>
    BY <1>2 DEF InitAcpiTable
  <2>. QED BY <1>2, <2>1 DEF AcpiInv, NewAcpi, Acpi, None
<1>. QED BY <1>1, <1>2

LEMMA GetAcpiTableInv ==
  ASSUME AcpiInv, GetAcpiTable
  PROVE  AcpiInv'
<1>1. CASE ACPI_TABLES = None
  BY <1>1, PanicKeepsInv DEF GetAcpiTable
<1>2. CASE ACPI_TABLES # None
  BY <1>2 DEF GetAcpiTable, vars, AcpiInv, DomainsFrom, SratBefore, SlotAt, RsdpAccepted
<1>. QED BY <1>1, <1>2

LEMMA ScanStepInv ==
  ASSUME AcpiInv, ScanStep
  PROVE  AcpiInv'
<1>. ACPI_TABLES = None /\ pc = "scan" /\ acpi.domains = None
  BY DEF ScanStep, AcpiInv
<1>0. Len(Regions) = 2 /\ region \in Nat
  BY DEF Regions, AcpiInv
<1>1. CASE region > Len(Regions)
  BY <1>1, PanicKeepsInv DEF ScanStep
<1>2. CASE region <= Len(Regions) /\ (addr > Regions[region][2] \/ AlignUp(Regions[region][1], 16) + RsdpSize - 1 > Regions[region][2])
  <2>1. UNCHANGED <<fw, ACPI_TABLES, acpi, pc>> /\ region' = region + 1
    BY <1>0, <1>2 DEF ScanStep
  <2>. QED BY <2>1 DEF AcpiInv
<1>3. CASE region <= Len(Regions) /\ ~(addr > Regions[region][2] \/ AlignUp(Regions[region][1], 16) + RsdpSize - 1 > Regions[region][2])
  <2>1. UNCHANGED <<fw, ACPI_TABLES, acpi, region>>
    BY <1>0, <1>3 DEF ScanStep
  <2>2. \/ pc' = "rsdt" /\ addr' = addr /\ RsdpAccepted(SlotAt(addr))
        \/ pc' = "scan"
    BY <1>0, <1>3 DEF ScanStep
  <2>. QED BY <2>1, <2>2 DEF AcpiInv, SlotAt
<1>. QED BY <1>0, <1>1, <1>2, <1>3

LEMMA ParseRsdtInv ==
  ASSUME AcpiInv, ParseRsdt
  PROVE  AcpiInv'
<1>. ACPI_TABLES = None /\ pc = "rsdt" /\ acpi.domains = None
  BY DEF ParseRsdt, AcpiInv
<1>1. CASE ~fw.rsdtOk
  BY <1>1, PanicKeepsInv DEF ParseRsdt
<1>2. CASE fw.rsdtOk
  <2>1. /\ pc' = "tables" /\ entry' = 1
        /\ UNCHANGED <<fw, ACPI_TABLES, acpi, region, addr>>
    BY <1>2 DEF ParseRsdt
  <2>2. SratBefore(1)' = {}
    BY <2>1 DEF SratBefore
  <2>3. 1 \in 1 .. Len(fw.rsdt) + 1
    BY RsdtTyped
  <2>. QED BY <2>1, <2>2, <2>3 DEF AcpiInv, DomainsFrom, None, SlotAt
<1>. QED BY <1>1, <1>2

LEMMA TableStepInv ==
  ASSUME AcpiInv, TableStep
  PROVE  AcpiInv'
<1>. DEFINE t == fw.rsdt[entry]
<1>1. /\ ACPI_TABLES = None /\ pc = "tables" /\ entry <= Len(fw.rsdt)
      /\ DomainsFrom(entry)
  BY DEF TableStep, AcpiInv
<1>2. entry \in 1 .. Len(fw.rsdt) /\ t \in Table
  BY <1>1, CurrentTable
<1>3. CASE t.sig = "APIC" /\ HandleMadt(t)
  <2>1. CASE acpi.apics # None \/ ~t.ok
    BY <1>3, <2>1, PanicKeepsInv DEF HandleMadt
  <2>2. CASE acpi.apics = None /\ t.ok
    <3>1. /\ acpi' = [acpi EXCEPT !.apics = SetIfAny(@, t.lapics),
                                  !.ioapics = SetIfAny(@, t.ioapics),
                                  !.mask_pics = MaskPics(t)]
          /\ entry' = entry + 1
          /\ UNCHANGED <<fw, ACPI_TABLES, pc, region, addr>>
      BY <1>3, <2>2 DEF HandleMadt
    <3>2. acpi' \in Acpi /\ acpi'.domains = acpi.domains
      BY <1>2, <3>1 DEF AcpiInv, Acpi, Table, SetIfAny, MaskPics
    <3>3. SratBefore(entry + 1) = SratBefore(entry)
      BY <1>2, <1>3, SkipNonSrat
    <3>. QED BY <1>1, <1>2, <3>1, <3>2, <3>3 DEF AcpiInv, DomainsFrom, SratBefore, SlotAt
  <2>. QED BY <2>1, <2>2
<1>4. CASE t.sig = "SRAT" /\ HandleSrat(t)
  <2>1. CASE acpi.domains # None \/ ~t.ok
    BY <1>4, <2>1, PanicKeepsInv DEF HandleSrat
  <2>2. CASE acpi.domains = None /\ t.ok
    <3>1. /\ acpi' = [acpi EXCEPT !.domains = {t.dom}]
          /\ entry' = entry + 1
          /\ UNCHANGED <<fw, ACPI_TABLES, pc, region, addr>>
      BY <1>4, <2>2 DEF HandleSrat
    <3>2. acpi' \in Acpi
      BY <1>2, <3>1 DEF AcpiInv, Acpi, Table
    <3>3. SratBefore(entry) = {}
      BY <1>1, <2>2 DEF DomainsFrom, None
    <3>4. SratBefore(entry + 1) = {entry}
      BY <1>2, <1>4, <3>3 DEF SratBefore
    <3>5. DomainsFrom(entry)'
      BY <3>1, <3>2, <3>4 DEF DomainsFrom, SratBefore, Acpi
    <3>. QED BY <1>1, <1>2, <3>1, <3>2, <3>5 DEF AcpiInv, SlotAt
  <2>. QED BY <2>1, <2>2
<1>5. CASE t.sig = "OTHER" /\ entry' = entry + 1
           /\ UNCHANGED <<fw, ACPI_TABLES, acpi, pc, region, addr, lastRead, panicked>>
  <2>1. SratBefore(entry + 1) = SratBefore(entry)
    BY <1>2, <1>5, SkipNonSrat
  <2>. QED BY <1>1, <1>2, <1>5, <2>1 DEF AcpiInv, DomainsFrom, SratBefore, SlotAt
<1>. QED BY <1>3, <1>4, <1>5 DEF TableStep

LEMMA InitDoneInv ==
  ASSUME AcpiInv, InitDone
  PROVE  AcpiInv'
<1>1. pc = "tables" /\ entry = Len(fw.rsdt) + 1 /\ DomainsFrom(entry)
  BY DEF InitDone, AcpiInv
<1>2. /\ ACPI_TABLES' = {acpi} /\ pc' = "idle"
      /\ UNCHANGED <<fw, acpi, region, entry>>
  BY DEF InitDone
<1>. QED BY <1>1, <1>2 DEF AcpiInv, DomainsFrom, SratBefore, None

LEMMA AcpiNextInv == AcpiInv /\ [Next]_vars => AcpiInv'
<1> SUFFICES ASSUME AcpiInv, [Next]_vars PROVE AcpiInv'
  OBVIOUS
<1>1. CASE InitAcpiTable
  BY <1>1, InitAcpiTableInv
<1>2. CASE GetAcpiTable
  BY <1>2, GetAcpiTableInv
<1>3. CASE ScanStep
  BY <1>3, ScanStepInv
<1>4. CASE ParseRsdt
  BY <1>4, ParseRsdtInv
<1>5. CASE TableStep
  BY <1>5, TableStepInv
<1>6. CASE InitDone
  BY <1>6, InitDoneInv
<1>7. CASE UNCHANGED vars
  BY <1>7 DEF vars, AcpiInv, DomainsFrom, SratBefore, SlotAt, RsdpAccepted
<1>. QED BY <1>1, <1>2, <1>3, <1>4, <1>5, <1>6, <1>7 DEF Next, Call, Step

(* For every firmware image: once ACPI_TABLES is set, the RSDT lists at    *)
(* most one SRAT and the stored domains are that SRAT's (the "Multiple     *)
(* SRAT entries" check of Acpi::init).                                     *)
THEOREM SratSingle == Spec => []SratFromSingleTable
<1>1. AcpiInv => SratFromSingleTable
  <2> SUFFICES ASSUME AcpiInv, ACPI_TABLES # None PROVE SratFromSingleTable
    BY DEF SratFromSingleTable
  <2>1. Listed("SRAT") = SratBefore(Len(fw.rsdt) + 1)
    BY DEF Listed, SratBefore
  <2>. QED BY <2>1 DEF AcpiInv, DomainsFrom, SratFromSingleTable
<1>. QED BY <1>1, AcpiInitInv, AcpiNextInv, PTL DEF Spec

=============================================================================
