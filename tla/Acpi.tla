------------------------------- MODULE Acpi -------------------------------
(***************************************************************************)
(* ACPI discovery of the kernel (svm_kernel/src/acpi.rs): the ACPI_TABLES  *)
(* singleton, init_acpi_table and get_acpi_table, and Acpi::init with its  *)
(* RSDP scan (search_rsdp), the RSDT walk and the one-table-of-a-kind      *)
(* checks for the MADT and the SRAT.                                       *)
(*                                                                         *)
(* Firmware memory is abstracted to what the code decides on: a candidate  *)
(* RSDP at a 16-byte aligned address is a record of its signature, its     *)
(* checksums and its revision; a table the RSDT lists is its signature,    *)
(* whether it parses without a panic (header checksum, length and entry    *)
(* checks of parse_header, parse_madt, parse_srat), and the results those  *)
(* parsers return.  Every read goes through map_and_read_phys, which is    *)
(* assumed to succeed here (IdMap models it).  Addresses are bytes; the    *)
(* scan areas are scaled down (EbdaLen for the 1 KiB of the EBDA, and      *)
(* BiosStart .. BiosEnd for 0xe0000 .. 0xfffff).                           *)
(***************************************************************************)
EXTENDS Naturals, Sequences

CONSTANTS
  Firmwares,  \* the firmware images the machine may boot with
  EbdaLen,    \* length of the EBDA area searched (1024)
  BiosStart,  \* first address of the BIOS area searched (0xe0000)
  BiosEnd,    \* last address of the BIOS area searched (0xfffff)
  RsdpSize,   \* size_of::<Rsdp>() (20)
  MaxCalls    \* bound on the kernel's calls of init and get

Slot  == [sig : BOOLEAN, sum : BOOLEAN, rev : {0, 2}, ext : BOOLEAN]
NoSlot == [sig |-> FALSE, sum |-> FALSE, rev |-> 0, ext |-> FALSE]

\* a table of the RSDT: for "APIC" the usable local APIC ids and the I/O
\* APICs parse_madt returns, the PCAT_COMPAT bit of its flags field and the
\* parity of its length field; for "SRAT" the domains parse_srat returns
Table == [sig : {"APIC", "SRAT", "OTHER"}, ok : BOOLEAN, lapics : SUBSET Nat,
          ioapics : SUBSET Nat, pcat : BOOLEAN, lenOdd : BOOLEAN, dom : Nat]

ASSUME AcpiAssumption ==
  /\ \A f \in Firmwares : /\ f.seg \in Nat /\ f.rsdtOk \in BOOLEAN
                          /\ \A a \in DOMAIN f.slots : a \in Nat /\ f.slots[a] \in Slot
                          /\ f.rsdt \in Seq(Table)
  /\ {EbdaLen, BiosStart, BiosEnd, RsdpSize, MaxCalls} \subseteq Nat
  /\ EbdaLen > 0 /\ BiosStart <= BiosEnd

\* Option<T> as a set of at most one element: {} is None, {x} is Some(x)
None == {}

Acpi == [apics : SUBSET SUBSET Nat, ioapics : SUBSET SUBSET Nat,
         mask_pics : BOOLEAN, domains : SUBSET Nat]

\* Acpi::new
NewAcpi == [apics |-> None, ioapics |-> None, mask_pics |-> FALSE, domains |-> None]

VARIABLES
  fw,           \* the firmware image (fixed for a behaviour)
  ACPI_TABLES,  \* the static Option<Acpi>: {} or {tables}
  acpi,         \* the Acpi value init is filling in
  pc,           \* "idle", or where Acpi::init is: "scan", "rsdt", "tables"
  region,       \* search_rsdp: the index of the area being scanned
  addr,         \* search_rsdp: the loop's address
  lastRead,     \* search_rsdp: {} or {the last address an Rsdp was read at and its area's end}
  entry,        \* init: the RSDT entry being handled
  panicked,     \* the tag of the panic message, or "none"
  calls         \* calls of init_acpi_table and get_acpi_table so far

vars == <<fw, ACPI_TABLES, acpi, pc, region, addr, lastRead, entry, panicked, calls>>

-----------------------------------------------------------------------------
AlignUp(a, n) == IF a % n = 0 THEN a ELSE a + (n - (a % n))

\* search_rsdp: the areas scanned, as (start, end) with end inclusive
Regions == << <<fw.seg, fw.seg + EbdaLen - 1>>, <<BiosStart, BiosEnd>> >>

\* what map_and_read_phys::<Rsdp> reads at a
SlotAt(a) == IF a \in DOMAIN fw.slots THEN fw.slots[a] ELSE NoSlot

\* the signature, the checksum and, for revision > 0, the extended checksum
RsdpAccepted(s) == s.sig /\ s.sum /\ (s.rev > 0 => s.ext)

\* a panic, named by a tag for its message ("Tried to init acpi table
\* twice", "Failed to find RSDP for ACPI", "Multiple SRAT entries", the
\* MADT's "Multiple SRAT ACPI table entrie", an unwrap on None, ...)
Panic(msg) ==
  /\ panicked' = msg
  /\ UNCHANGED <<fw, ACPI_TABLES, acpi, pc, region, addr, lastRead, entry>>

-----------------------------------------------------------------------------
(* init_acpi_table, unguarded: Acpi::init over a set ACPI_TABLES           *)
InitAcpiTableUnguarded ==
  /\ pc = "idle"
  /\ acpi' = NewAcpi
  /\ pc' = "scan"
  /\ region' = 1
  /\ addr' = AlignUp(fw.seg, 16)
  /\ UNCHANGED <<fw, ACPI_TABLES, lastRead, entry, panicked>>

(* init_acpi_table: panic if ACPI_TABLES is set, else start Acpi::init,    *)
(* whose search_rsdp reads the EBDA pointer at 0x40e first.                *)
InitAcpiTable ==
  /\ pc = "idle"
  /\ IF ACPI_TABLES # None
       THEN Panic("InitTwice")
       ELSE /\ acpi' = NewAcpi
            /\ pc' = "scan"
            /\ region' = 1
            /\ addr' = AlignUp(fw.seg, 16)
            /\ UNCHANGED <<fw, ACPI_TABLES, lastRead, entry, panicked>>

(* get_acpi_table: unwrap of ACPI_TABLES                                   *)
GetAcpiTable ==
  /\ pc = "idle"
  /\ IF ACPI_TABLES = None THEN Panic("UnwrapNone") ELSE UNCHANGED vars

(***************************************************************************)
(* One iteration of search_rsdp's loops.  The break compares the end of an *)
(* Rsdp at the area's aligned start, not at addr, with the area's end.  No *)
(* area left: init's expect panics.                                        *)
(***************************************************************************)
ScanStep ==
  /\ pc = "scan"
  /\ IF region > Len(Regions) THEN Panic("NoRsdp")
     ELSE
     LET start    == AlignUp(Regions[region][1], 16)
         end      == Regions[region][2]
         structEnd == start + RsdpSize - 1 IN
     IF addr > end \/ structEnd > end
       THEN /\ region' = region + 1
            /\ addr' = IF region + 1 <= Len(Regions)
                         THEN AlignUp(Regions[region + 1][1], 16) ELSE addr
            /\ UNCHANGED <<fw, ACPI_TABLES, acpi, pc, lastRead, entry, panicked>>
       ELSE /\ lastRead' = {[at |-> addr, end |-> end]}
            /\ IF RsdpAccepted(SlotAt(addr))
                 THEN pc' = "rsdt" /\ UNCHANGED addr
                 ELSE addr' = addr + 16 /\ UNCHANGED pc
            /\ UNCHANGED <<fw, ACPI_TABLES, acpi, region, entry, panicked>>

(* Acpi::init: parse_header of the RSDT and its signature and size checks  *)
ParseRsdt ==
  /\ pc = "rsdt"
  /\ IF ~fw.rsdtOk THEN Panic("RSDT")
     ELSE /\ pc' = "tables"
          /\ entry' = 1
          /\ UNCHANGED <<fw, ACPI_TABLES, acpi, region, addr, lastRead, panicked>>

\* the MADT flags as parse_madt reads them: at ptr + 4, in the header
MaskPics(t) == t.lenOdd

\* a field set from a parser's vector only when the vector is not empty
SetIfAny(old, v) == IF v = {} THEN old ELSE {v}

\* the SRAT check of Acpi::init without its guard
HandleSratUnguarded(t) ==
  IF ~t.ok THEN Panic("SRAT")
  ELSE /\ acpi' = [acpi EXCEPT !.domains = {t.dom}]
       /\ entry' = entry + 1
       /\ UNCHANGED <<fw, ACPI_TABLES, pc, region, addr, lastRead, panicked>>

HandleSrat(t) ==
  IF acpi.domains # None THEN Panic("MultipleSrat")
  ELSE IF ~t.ok THEN Panic("SRAT")
  ELSE /\ acpi' = [acpi EXCEPT !.domains = {t.dom}]
       /\ entry' = entry + 1
       /\ UNCHANGED <<fw, ACPI_TABLES, pc, region, addr, lastRead, panicked>>

HandleMadt(t) ==
  IF acpi.apics # None THEN Panic("MultipleMadt")
  ELSE IF ~t.ok THEN Panic("MADT")
  ELSE /\ acpi' = [acpi EXCEPT !.apics = SetIfAny(@, t.lapics),
                               !.ioapics = SetIfAny(@, t.ioapics),
                               !.mask_pics = MaskPics(t)]
       /\ entry' = entry + 1
       /\ UNCHANGED <<fw, ACPI_TABLES, pc, region, addr, lastRead, panicked>>

(* One iteration of the RSDT loop of Acpi::init                            *)
TableStep ==
  /\ pc = "tables"
  /\ entry <= Len(fw.rsdt)
  /\ LET t == fw.rsdt[entry] IN
     \/ t.sig = "APIC" /\ HandleMadt(t)
     \/ t.sig = "SRAT" /\ HandleSrat(t)
     \/ /\ t.sig = "OTHER"
        /\ entry' = entry + 1
        /\ UNCHANGED <<fw, ACPI_TABLES, acpi, pc, region, addr, lastRead, panicked>>

(* The end of Acpi::init, and init_acpi_table's ACPI_TABLES = Some(acpi)   *)
InitDone ==
  /\ pc = "tables"
  /\ entry > Len(fw.rsdt)
  /\ ACPI_TABLES' = {acpi}
  /\ pc' = "idle"
  /\ UNCHANGED <<fw, acpi, region, addr, lastRead, entry, panicked>>

-----------------------------------------------------------------------------
Init ==
  /\ fw \in Firmwares
  /\ ACPI_TABLES = None
  /\ acpi = NewAcpi
  /\ pc = "idle"
  /\ region = 1
  /\ addr = 0
  /\ lastRead = {}
  /\ entry = 1
  /\ panicked = "none"
  /\ calls = 0

\* the kernel's calls of the two entry points, bounded by MaxCalls
Call ==
  /\ calls < MaxCalls
  /\ calls' = calls + 1
  /\ (InitAcpiTable \/ GetAcpiTable)

Step ==
  /\ UNCHANGED calls
  /\ (ScanStep \/ ParseRsdt \/ TableStep \/ InitDone)

Next == panicked = "none" /\ (Call \/ Step)

Spec == Init /\ [][Next]_vars

-----------------------------------------------------------------------------
\* the RSDT entries with signature sig
Listed(sig) == {k \in 1 .. Len(fw.rsdt) : fw.rsdt[k].sig = sig}

(* Spec section 5: ACPI_TABLES is initialised once and read-only after:    *)
(* once set, no step changes it and no step starts Acpi::init over it      *)
(* (init_acpi_table panics instead).                                       *)
InitializedOnce ==
  [][ACPI_TABLES # None => UNCHANGED <<ACPI_TABLES, pc>>]_vars

\* an RSDP the ACPI specification calls valid: the signature, the checksum
\* of its first 20 bytes, and for revision 2 and later the extended checksum
ValidRsdp(s) == s.sig /\ s.sum /\ (s.rev >= 2 => s.ext)

(* When init completes, the RSDT lists at most one SRAT and the domains    *)
(* are that SRAT's: a second SRAT stops the boot (Acpi::init, line 231).   *)
SratFromSingleTable ==
  ACPI_TABLES # None =>
    /\ \A j, k \in Listed("SRAT") : j = k
    /\ \A T \in ACPI_TABLES : T.domains = {fw.rsdt[k].dom : k \in Listed("SRAT")}

(* Acpi::init means to reject a second MADT ("Multiple ... entrie"): when   *)
(* init completes, the RSDT lists at most one.                             *)
SecondMadtRejected ==
  ACPI_TABLES # None => \A j, k \in Listed("APIC") : j = k

(* search_rsdp means to read an Rsdp only where the whole structure lies    *)
(* inside the area scanned ("Break out of the scan if we are out of        *)
(* bounds of this region").                                                *)
ScanReadsInsideArea ==
  \A r \in lastRead : r.at + RsdpSize - 1 <= r.end

\* the areas the ACPI specification names: the first KiB of the EBDA,
\* whose real-mode segment the word at 0x40e holds, and the BIOS area
EbdaStart == 16 * fw.seg
Placed(a) ==
  /\ a % 16 = 0
  /\ \/ EbdaStart <= a /\ a + RsdpSize - 1 <= EbdaStart + EbdaLen - 1
     \/ BiosStart <= a /\ a + RsdpSize - 1 <= BiosEnd

(* search_rsdp finds an RSDP whenever the firmware placed a valid one in    *)
(* the first KiB of the EBDA or in the BIOS area ("First 1 KiB of the      *)
(* EBDA"), so init does not panic for the lack of one.                     *)
RsdpFoundWhenPresent ==
  (\E a \in DOMAIN fw.slots : Placed(a) /\ ValidRsdp(fw.slots[a]))
    => panicked # "NoRsdp"

(* mask_pics is the PCAT_COMPAT bit (bit 0) of the MADT's flags field      *)
(* ("If the first bit is set the spec says we have to mask the pic         *)
(* interrupts", parse_madt).                                               *)
MaskPicsFromMadtFlags ==
  ACPI_TABLES # None =>
    \A k \in Listed("APIC") : \A T \in ACPI_TABLES : T.mask_pics = fw.rsdt[k].pcat

=============================================================================
