----------------------------- MODULE Bootstrap -----------------------------
(***************************************************************************)
(* The bootstrap table builder of the bootloader                           *)
(* (svm_kernel/external/bootloader/src/mmu.rs): generate_page_table maps   *)
(* the first NG GiB 1:1 with 2 MiB pages whose flags come from the memory  *)
(* map, remap_first_2mb_with_4kb replaces the first 2 MiB page by a 4 KiB  *)
(* table, and setup_mmu loads the result.  The bootloader's stage code     *)
(* (not in this repository) calls the three in this order, on one core.    *)
(*                                                                         *)
(* Addresses are counted in 4 KiB pages and the geometry is scaled: a      *)
(* table has K entries, so a 2 MiB page is K pages and a 1 GiB table       *)
(* K * K.  The level 4 entry 0 always leads to the level 3 table, which is *)
(* all generate_page_table writes at level 4; level 2 tables are kept by   *)
(* position (p2[i] is the one p3[i] points to).  Table memory is static    *)
(* storage with unknown contents until the builder zeroes it.             *)
(***************************************************************************)
EXTENDS Naturals, Sequences

CONSTANTS
  K,           \* entries per table
  NG,          \* GiB mapped by generate_page_table (the loop bound 4)
  NTables,     \* level 2 tables between p2_tables_start and p2_tables_end
  MemoryMaps,  \* the memory maps the boot collaborator may hand over
  StackGuard,  \* page of the stack guard
  TrampStart,  \* first page of the SMP trampoline
  TrampEnd,    \* page after the SMP trampoline
  OneMeg,      \* page at 1 MiB
  Vga,         \* page of the legacy video memory 0xb8000
  TableAddr,   \* address field of a table pointer entry
  JunkAddr     \* address field of an entry in unzeroed table memory

PRESENT    == "PRESENT"
WRITABLE   == "WRITABLE"
NO_CACHE   == "NO_CACHE"
NO_EXECUTE == "NO_EXECUTE"
HUGE_PAGE  == "HUGE_PAGE"
FlagBits   == {PRESENT, WRITABLE, NO_CACHE, NO_EXECUTE, HUGE_PAGE}

Idx    == 0 .. K - 1
NPages == NG * K * K
Pages  == 0 .. NPages - 1
Types  == {"Usable", "Reserved"}

Entry(a, g) == [addr |-> a, flags |-> g]
UnusedEntry == Entry(0, {})
JunkEntry   == Entry(JunkAddr, {PRESENT, HUGE_PAGE})
Entries     == [addr : Nat, flags : SUBSET FlagBits]
Region      == [start : Nat, end : Nat, type : Types]

ASSUME BuilderAssumption ==
  /\ K \in Nat \ {0, 1} /\ NG \in 1 .. K /\ NTables \in Nat
  /\ MemoryMaps \subseteq Seq(Region)
  /\ {StackGuard, TrampStart, TrampEnd, OneMeg, Vga} \subseteq Nat
  /\ Vga \in 1 .. K - 1
  /\ TableAddr \in Nat /\ JunkAddr \in Nat \ Pages

VARIABLES
  memmap,  \* BootInfo.memory_map
  p3,      \* the level 3 table
  p2,      \* the level 2 tables, by the level 3 index that points to them
  p1,      \* the level 1 table of the first 2 MiB
  phase    \* how far the builder got: boot, generated, remapped, done, panic

vars == <<memmap, p3, p2, p1, phase>>

(* MemoryMap::get_region_by_addr (spec_modelled: memory_map.rs is not in   *)
(* this repository): the regions containing page a; the map's regions are  *)
(* disjoint, so there is at most one.                                      *)
RegionsAt(a) == {memmap[k] : k \in {k \in 1 .. Len(memmap) :
                                     memmap[k].start <= a /\ a < memmap[k].end}}

-----------------------------------------------------------------------------
(***************************************************************************)
(* generate_page_table: for each of the first NG level 3 entries take the  *)
(* next level 2 table (expect: panic when there is none), zero it, fill    *)
(* each entry with the 2 MiB page at the same address, flagged by the type *)
(* of the region that contains the page's first address (no region: the   *)
(* entry stays unused), and install it.                                    *)
(***************************************************************************)
BootFlags(t) ==
  IF t = "Usable" THEN {PRESENT, WRITABLE, HUGE_PAGE}
  ELSE {PRESENT, HUGE_PAGE, NO_EXECUTE}

BootEntry(a) ==
  IF RegionsAt(a) = {} THEN UnusedEntry
  ELSE Entry(a, BootFlags((CHOOSE r \in RegionsAt(a) : TRUE).type))

\* a level 2 table as the loop leaves it for level 3 index i
BootTable(i) == [j \in Idx |-> BootEntry(i * K * K + j * K)]

\* the outer loop's bound: for pdpe_i in 0..4
Iterations == NG

\* the number of level 3 entries that get a table before the loop stops
Filled == IF NTables < Iterations THEN NTables ELSE Iterations

GeneratePageTable ==
  /\ phase = "boot"
  /\ p3' = [i \in Idx |-> IF i < Filled THEN Entry(TableAddr, {PRESENT, WRITABLE})
                          ELSE UnusedEntry]
  /\ p2' = [i \in Idx |-> IF i < Filled THEN BootTable(i) ELSE p2[i]]
  /\ phase' = IF NTables < Iterations THEN "panic" ELSE "generated"
  /\ UNCHANGED <<memmap, p1>>

(***************************************************************************)
(* remap_first_2mb_with_4kb: zero the level 1 table and point p2[0][0] at  *)
(* it; map every page of the first 2 MiB but page 0 to itself (stack guard *)
(* present only, trampoline writable, up to 1 MiB no-cache and             *)
(* no-execute, the rest present); then the video page.                     *)
(***************************************************************************)
LowFlags(a) ==
  IF a = StackGuard THEN {PRESENT}
  ELSE IF TrampStart <= a /\ a < TrampEnd THEN {PRESENT, WRITABLE}
  ELSE IF a <= OneMeg THEN {PRESENT, NO_CACHE, NO_EXECUTE}
  ELSE {PRESENT}

\* p1_table.zero() left out: page 0, which the loop skips, keeps its contents
LowTableNoZero ==
  [[i \in Idx |-> IF i = 0 THEN JunkEntry ELSE Entry(i, LowFlags(i))]
     EXCEPT ![Vga] = Entry(Vga, {PRESENT, WRITABLE, NO_CACHE, NO_EXECUTE})]

LowTable ==
  [[i \in Idx |-> IF i = 0 THEN UnusedEntry ELSE Entry(i, LowFlags(i))]
     EXCEPT ![Vga] = Entry(Vga, {PRESENT, WRITABLE, NO_CACHE, NO_EXECUTE})]

RemapFirst2MB ==
  /\ phase = "generated"
  /\ p2' = [p2 EXCEPT ![0][0] = Entry(TableAddr, {PRESENT, WRITABLE})]
  /\ p1' = LowTable
  /\ phase' = "remapped"
  /\ UNCHANGED <<memmap, p3>>

(* setup_mmu: CR0.WP, EFER.NXE, and CR3 := the level 4 table.              *)
SetupMmu ==
  /\ phase = "remapped"
  /\ phase' = "done"
  /\ UNCHANGED <<memmap, p3, p2, p1>>

-----------------------------------------------------------------------------
Init ==
  /\ memmap \in MemoryMaps
  /\ p3 = [i \in Idx |-> JunkEntry]
  /\ p2 = [i \in Idx |-> [j \in Idx |-> JunkEntry]]
  /\ p1 = [i \in Idx |-> JunkEntry]
  /\ phase = "boot"

Next == GeneratePageTable \/ RemapFirst2MB \/ SetupMmu

Spec == Init /\ [][Next]_vars

-----------------------------------------------------------------------------
(* The hierarchy as the MMU walks it once CR3 points at it                 *)

NotMappedR == [kind |-> "NotMapped", size |-> "none", frame |-> 0, flags |-> {}]
MappedR(s, e) == [kind |-> "Mapped", size |-> s, frame |-> e.addr, flags |-> e.flags]

Translate(v) ==
  LET e3 == p3[v \div (K * K)]
      e2 == p2[v \div (K * K)][(v \div K) % K]
      e1 == p1[v % K] IN
  IF PRESENT \notin e3.flags THEN NotMappedR
  ELSE IF PRESENT \notin e2.flags THEN NotMappedR
  ELSE IF HUGE_PAGE \in e2.flags THEN MappedR("2MiB", e2)
  \* the only level 1 table is the one of the first 2 MiB
  ELSE IF v >= K \/ PRESENT \notin e1.flags THEN NotMappedR
  ELSE MappedR("4KiB", e1)

\* the page v reaches through a mapping
Target(r, v) == r.frame + (IF r.size = "2MiB" THEN v % K ELSE 0)

\* the builder has produced a hierarchy (it did not panic)
Built == phase \in {"generated", "remapped", "done"}

-----------------------------------------------------------------------------
(* Whatever the memory map, the tables built over storage of unknown       *)
(* contents map every page they map to itself, at every stage after the    *)
(* builder ran: generate_page_table and remap_first_2mb_with_4kb must      *)
(* overwrite or zero every entry a walk of the first NG GiB can reach.     *)
BootstrapIdentity ==
  Built => \A v \in Pages : Translate(v).kind = "Mapped" => Target(Translate(v), v) = v

(* Spec section 8: after construction every classified address of the     *)
(* first NG GiB is writable and executable if its region is usable, and    *)
(* no-execute and read-only otherwise (generate_page_table classifies a    *)
(* whole 2 MiB page by its first address).                                 *)
FlagsFollowMemoryMap ==
  phase = "generated" =>
    \A v \in Pages : \A r \in RegionsAt(v) :
      LET t == Translate(v) IN
      /\ t.kind = "Mapped"
      /\ r.type = "Usable" => WRITABLE \in t.flags /\ NO_EXECUTE \notin t.flags
      /\ r.type # "Usable" => NO_EXECUTE \in t.flags /\ WRITABLE \notin t.flags

(* Spec section 8: after the 2 MiB remap, address 0 is a 4 KiB page with   *)
(* no-cache and no-execute, the stack guard is present only and the video  *)
(* page is present, writable, no-cache and no-execute                      *)
(* (remap_first_2mb_with_4kb).                                             *)
LowPagesAsSpecified ==
  phase \in {"remapped", "done"} =>
    /\ Translate(0) = MappedR("4KiB", Entry(0, {PRESENT, NO_CACHE, NO_EXECUTE}))
    /\ StackGuard \in 1 .. K - 1 /\ StackGuard # Vga =>
         Translate(StackGuard).flags = {PRESENT}
    /\ Translate(Vga) = MappedR("4KiB", Entry(Vga, {PRESENT, WRITABLE, NO_CACHE, NO_EXECUTE}))

=============================================================================
