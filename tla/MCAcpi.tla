------------------------------- MODULE MCAcpi -------------------------------
(***************************************************************************)
(* Acpi with the EBDA segment word 8 (so the EBDA's first bytes are at     *)
(* 128 .. 191, with EbdaLen 64 for its first KiB), the BIOS area at        *)
(* 224 .. 287 and a 20-byte Rsdp.  The candidate RSDPs sit inside the area *)
(* the code scans, inside the real EBDA, in the BIOS area and at its last  *)
(* 16 bytes; the RSDT lists up to two tables out of MADTs, SRATs, tables   *)
(* that fail to parse, and others.                                         *)
(***************************************************************************)
EXTENDS Acpi

V0       == [sig |-> TRUE, sum |-> TRUE, rev |-> 0, ext |-> FALSE]
V2       == [sig |-> TRUE, sum |-> TRUE, rev |-> 2, ext |-> TRUE]
V2BadExt == [sig |-> TRUE, sum |-> TRUE, rev |-> 2, ext |-> FALSE]
BadSum   == [sig |-> TRUE, sum |-> FALSE, rev |-> 0, ext |-> FALSE]

MCSlots ==
  { [a \in {} |-> NoSlot],
    [a \in {64} |-> V0],
    [a \in {128} |-> V2],
    [a \in {240} |-> V2],
    [a \in {240, 272} |-> IF a = 240 THEN V2BadExt ELSE V0],
    [a \in {224, 256} |-> IF a = 224 THEN BadSum ELSE V2] }

Blank == [sig |-> "OTHER", ok |-> TRUE, lapics |-> {}, ioapics |-> {},
          pcat |-> FALSE, lenOdd |-> FALSE, dom |-> 0]

MCTables ==
  {[Blank EXCEPT !.sig = "APIC", !.lapics = l, !.ioapics = io, !.pcat = p, !.lenOdd = o] :
     l \in {{}, {0}}, io \in {{}, {5}}, p \in BOOLEAN, o \in BOOLEAN}
  \cup {[Blank EXCEPT !.sig = "SRAT", !.dom = d] : d \in {1, 2}}
  \cup {[Blank EXCEPT !.sig = s, !.ok = FALSE] : s \in {"APIC", "SRAT"}}
  \cup {Blank}

MCRsdts == {<<>>} \cup {<<t>> : t \in MCTables} \cup {<<t, u>> : t \in MCTables, u \in MCTables}

MCFirmwares ==
  [seg : {8}, slots : MCSlots, rsdtOk : {TRUE}, rsdt : MCRsdts]
  \cup [seg : {8}, slots : MCSlots, rsdtOk : {FALSE}, rsdt : {<<>>}]
=============================================================================
