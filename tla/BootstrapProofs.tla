--------------------------- MODULE BootstrapProofs ---------------------------
(***************************************************************************)
(* BootstrapIdentity for every memory map, every table geometry and every  *)
(* number of level 2 tables: the hierarchy the builder leaves in table     *)
(* memory of unknown contents maps every page it maps to itself.           *)
(*                                                                         *)
(* The invariant that carries it describes the tables entry by entry once  *)
(* generate_page_table has run: the level 3 table points to NG level 2     *)
(* tables, every one of their entries is the 2 MiB entry the loop wrote    *)
(* for its address, and after remap_first_2mb_with_4kb the first of them   *)
(* leads to the 4 KiB table LowTable.  Junk the builder did not overwrite  *)
(* lies only behind unused level 3 entries.                                *)
(***************************************************************************)
EXTENDS Bootstrap, TLAPS

\* a level 3 or level 2 entry that points to the next table
TablePtr == Entry(TableAddr, {PRESENT, WRITABLE})

\* the shape of the tables' storage
TablesShaped ==
  /\ DOMAIN p3 = Idx /\ DOMAIN p2 = Idx /\ DOMAIN p1 = Idx
  /\ \A i \in Idx : DOMAIN p2[i] = Idx

(* The inductive invariant                                                 *)
BuiltTables ==
  /\ TablesShaped
  /\ Built =>
       /\ NG <= NTables
       /\ \A i \in Idx : p3[i] = IF i < NG THEN TablePtr ELSE UnusedEntry
       /\ \A i \in 0 .. NG - 1, j \in Idx :
            <<i, j>> # <<0, 0>> => p2[i][j] = BootEntry(i * K * K + j * K)
       /\ phase = "generated" => p2[0][0] = BootEntry(0)
       /\ phase \in {"remapped", "done"} => p2[0][0] = TablePtr /\ p1 = LowTable

-----------------------------------------------------------------------------
(* Arithmetic of the page walk: the MMU splits a page number into the      *)
(* level 3 index, the level 2 index and the offset within a 2 MiB page,    *)
(* and the three add back up to the page.                                  *)

(* Division by M has one quotient and remainder.                           *)
LEMMA DivUnique ==
  ASSUME NEW M \in Nat \ {0}, NEW v \in Nat, NEW q \in Nat, NEW r \in 0 .. M - 1,
         v = q * M + r
  PROVE  v \div M = q
BY SMT

(* A page below N * M has a quotient by M below N.                         *)
LEMMA QuotBound ==
  ASSUME NEW M \in Nat \ {0}, NEW N \in Nat, NEW v \in 0 .. N * M - 1
  PROVE  v \div M \in 0 .. N - 1
BY SMT

(* The indices Translate takes from v add back up to v.                    *)
LEMMA Split ==
  ASSUME NEW k \in Nat \ {0, 1}, NEW v \in Nat
  PROVE  v = (v \div (k * k)) * (k * k) + ((v \div k) % k) * k + (v % k)
<1>1. /\ v = (v \div k) * k + (v % k) /\ (v % k) \in 0 .. k - 1 /\ v \div k \in Nat
      /\ v \div k = ((v \div k) \div k) * k + ((v \div k) % k)
      /\ ((v \div k) % k) \in 0 .. k - 1 /\ (v \div k) \div k \in Nat
  BY SMT
<1>2. v = ((v \div k) \div k) * (k * k) + (((v \div k) % k) * k + (v % k))
  <2>1. PICK a \in Nat, b \in Nat, c \in Nat, d \in Nat :
          a = v \div k /\ b = v % k /\ c = (v \div k) \div k /\ d = (v \div k) % k
    BY <1>1, SMT
  <2>2. v = a * k + b /\ a = c * k + d
    BY <1>1, <2>1
  <2>3. v = c * (k * k) + (d * k + b)
    BY <2>2, SMT
  <2>. QED BY <2>1, <2>3
<1>3. ((v \div k) % k) * k + (v % k) \in 0 .. k * k - 1
  <2>1. ((v \div k) % k) * k <= (k - 1) * k
    BY <1>1, SMT
  <2>. QED BY <1>1, <2>1, SMT
<1>4. v \div (k * k) = (v \div k) \div k
  <2>1. k * k \in Nat \ {0}
    BY SMT
  <2>. QED BY <1>1, <1>2, <1>3, <2>1, DivUnique
<1>. QED BY <1>2, <1>4

-----------------------------------------------------------------------------
(* The entries the builder writes                                          *)

(* generate_page_table writes either an unused entry or a present 2 MiB    *)
(* entry for the page at the entry's own address.                          *)
LEMMA BootEntryShape ==
  ASSUME NEW a
  PROVE  \/ BootEntry(a) = UnusedEntry
         \/ /\ BootEntry(a).addr = a
            /\ PRESENT \in BootEntry(a).flags /\ HUGE_PAGE \in BootEntry(a).flags
BY DEF BootEntry, Entry, UnusedEntry, BootFlags, PRESENT, HUGE_PAGE, WRITABLE, NO_EXECUTE

(* remap_first_2mb_with_4kb maps every present 4 KiB page of the first     *)
(* 2 MiB to itself.                                                        *)
LEMMA LowTableIdentity ==
  ASSUME NEW x \in Idx, PRESENT \in LowTable[x].flags
  PROVE  LowTable[x].addr = x
<1>1. CASE x = Vga
  BY <1>1 DEF LowTable, Entry
<1>2. CASE x # Vga /\ x = 0
  BY <1>2 DEF LowTable, Entry, UnusedEntry
<1>3. CASE x # Vga /\ x # 0
  BY <1>3 DEF LowTable, Entry
<1>. QED BY <1>1, <1>2, <1>3

-----------------------------------------------------------------------------
(* BuiltTables is inductive                                                *)

(* The entry generate_page_table writes depends on nothing but the memory  *)
(* map, which no step changes.                                             *)
LEMMA BootEntryStable ==
  ASSUME memmap' = memmap
  PROVE  \A a : BootEntry(a)' = BootEntry(a)
BY DEF BootEntry, RegionsAt

(* Before the builder runs nothing is claimed of the junk in table memory. *)
LEMMA InitBuilt == Init => BuiltTables
BY DEF Init, BuiltTables, TablesShaped, Built

(* generate_page_table either panics or fills all NG level 3 entries.      *)
LEMMA GenerateBuilt == BuiltTables /\ GeneratePageTable => BuiltTables'
<1> SUFFICES ASSUME BuiltTables, GeneratePageTable PROVE BuiltTables'
  OBVIOUS
<1>1. NG \in 1 .. K /\ K \in Nat \ {0, 1}
  BY BuilderAssumption
<1>2. TablesShaped'
  BY <1>1 DEF BuiltTables, TablesShaped, GeneratePageTable, BootTable, Idx
<1>3. CASE NTables < Iterations
  BY <1>2, <1>3 DEF GeneratePageTable, BuiltTables, Built
<1>4. CASE ~(NTables < Iterations)
  <2>1. Filled = NG /\ NG <= NTables /\ phase' = "generated"
    BY <1>1, <1>4, BuilderAssumption DEF Filled, Iterations, GeneratePageTable
  <2>2. \A i \in Idx : p3'[i] = IF i < NG THEN TablePtr ELSE UnusedEntry
    BY <2>1 DEF GeneratePageTable, TablePtr
  <2>3. \A i \in 0 .. NG - 1, j \in Idx : p2'[i][j] = BootEntry(i * K * K + j * K)
    BY <1>1, <2>1 DEF GeneratePageTable, BootTable, Idx
  <2>4. memmap' = memmap
    BY DEF GeneratePageTable
  <2>. QED BY <1>2, <2>1, <2>2, <2>3, <2>4, <1>1, BootEntryStable DEF BuiltTables, Built, Idx
<1>. QED BY <1>3, <1>4

(* remap_first_2mb_with_4kb redirects only the first level 2 entry.        *)
LEMMA RemapBuilt == BuiltTables /\ RemapFirst2MB => BuiltTables'
<1> SUFFICES ASSUME BuiltTables, RemapFirst2MB PROVE BuiltTables'
  OBVIOUS
<1>1. 0 \in Idx /\ Built /\ phase' = "remapped"
  BY BuilderAssumption DEF Idx, RemapFirst2MB, Built
<1>2. \A i \in Idx, j \in Idx :
        p2'[i][j] = IF <<i, j>> = <<0, 0>> THEN TablePtr ELSE p2[i][j]
  BY <1>1 DEF BuiltTables, TablesShaped, RemapFirst2MB, TablePtr
<1>3. TablesShaped'
  BY <1>1 DEF BuiltTables, TablesShaped, RemapFirst2MB, LowTable
<1>4. NG \in 1 .. K /\ memmap' = memmap
  BY BuilderAssumption DEF RemapFirst2MB
<1>5. \A i \in 0 .. NG - 1, j \in Idx :
        <<i, j>> # <<0, 0>> => p2'[i][j] = BootEntry(i * K * K + j * K)'
  <2> SUFFICES ASSUME NEW i \in 0 .. NG - 1, NEW j \in Idx, <<i, j>> # <<0, 0>>
               PROVE  p2'[i][j] = BootEntry(i * K * K + j * K)'
    OBVIOUS
  <2>1. i \in Idx
    BY <1>4, BuilderAssumption DEF Idx
  <2>2. p2'[i][j] = p2[i][j]
    BY <1>2, <2>1
  <2>3. p2[i][j] = BootEntry(i * K * K + j * K)
    BY <1>1 DEF BuiltTables
  <2>. QED BY <2>2, <2>3, <1>4, BootEntryStable
<1>6. p2'[0][0] = TablePtr /\ p1' = LowTable /\ p3' = p3 /\ NG <= NTables
  BY <1>1, <1>2 DEF RemapFirst2MB, BuiltTables
<1>. QED BY <1>1, <1>3, <1>5, <1>6 DEF BuiltTables, Built

(* setup_mmu only loads the tables.                                        *)
LEMMA SetupBuilt == BuiltTables /\ SetupMmu => BuiltTables'
BY BootEntryStable DEF BuiltTables, TablesShaped, SetupMmu, Built

(* No step of the builder breaks BuiltTables.                              *)
LEMMA NextBuilt == BuiltTables /\ [Next]_vars => BuiltTables'
<1> SUFFICES ASSUME BuiltTables, [Next]_vars PROVE BuiltTables'
  OBVIOUS
<1>1. CASE GeneratePageTable
  BY <1>1, GenerateBuilt
<1>2. CASE RemapFirst2MB
  BY <1>2, RemapBuilt
<1>3. CASE SetupMmu
  BY <1>3, SetupBuilt
<1>4. CASE UNCHANGED vars
  BY <1>4, BootEntryStable DEF BuiltTables, TablesShaped, Built, vars
<1>. QED BY <1>1, <1>2, <1>3, <1>4 DEF Next

-----------------------------------------------------------------------------
(* The walk over BuiltTables                                               *)

(* Over the tables BuiltTables describes, the walk of every page of the    *)
(* first NG GiB that ends in a mapping ends at the page itself: a 2 MiB    *)
(* entry written by generate_page_table for the page's own 2 MiB, or the   *)
(* 4 KiB entry of LowTable for the page's own number.                      *)
LEMMA BuiltIdentity == BuiltTables => BootstrapIdentity
<1> SUFFICES ASSUME BuiltTables, Built, NEW v \in Pages, Translate(v).kind = "Mapped"
             PROVE  Target(Translate(v), v) = v
  BY DEF BootstrapIdentity
<1>1. K \in Nat \ {0, 1} /\ NG \in 1 .. K
  BY BuilderAssumption
<1>2. /\ v \div (K * K) \in 0 .. NG - 1
      /\ (v \div K) % K \in Idx /\ v % K \in Idx
      /\ v = (v \div (K * K)) * (K * K) + ((v \div K) % K) * K + (v % K)
  <2>1. K * K \in Nat \ {0} /\ NG \in Nat /\ v \in Nat /\ v \in 0 .. NG * (K * K) - 1
    BY <1>1, SMT DEF Pages, NPages
  <2>2. v \div (K * K) \in 0 .. NG - 1
    BY <1>1, <2>1, QuotBound
  <2>3. (v \div K) % K \in Idx /\ v % K \in Idx
    BY <1>1, <2>1, SMT DEF Idx
  <2>. QED BY <1>1, <2>1, <2>2, <2>3, Split
<1>3. PICK i \in 0 .. NG - 1, j \in Idx, r \in Idx :
        i = v \div (K * K) /\ j = (v \div K) % K /\ r = v % K
  BY <1>2
<1>4. /\ i \in Idx
      /\ p3[i] = TablePtr
      /\ v = i * K * K + j * K + r
  <2>1. i \in Idx /\ i < NG
    BY <1>1 DEF Idx
  <2>2. p3[i] = TablePtr
    BY <2>1 DEF BuiltTables
  <2>3. v = i * (K * K) + j * K + r
    BY <1>2, <1>3
  <2>4. i * K * K = i * (K * K)
    BY <1>1, SMT DEF Idx
  <2>. QED BY <2>1, <2>2, <2>3, <2>4
\* the walk of v, level by level
<1>5. Translate(v) =
        IF PRESENT \notin p3[i].flags THEN NotMappedR
        ELSE IF PRESENT \notin p2[i][j].flags THEN NotMappedR
        ELSE IF HUGE_PAGE \in p2[i][j].flags THEN MappedR("2MiB", p2[i][j])
        ELSE IF v >= K \/ PRESENT \notin p1[r].flags THEN NotMappedR
        ELSE MappedR("4KiB", p1[r])
  BY <1>3 DEF Translate
<1>6. PRESENT \in p3[i].flags
  BY <1>4 DEF TablePtr, Entry, PRESENT, WRITABLE
<1>7. CASE <<i, j>> = <<0, 0>> /\ phase \in {"remapped", "done"}
  <2>1. p2[i][j] = TablePtr /\ p1 = LowTable
    BY <1>7 DEF BuiltTables
  <2>2. v = r
    BY <1>4, <1>7, <1>1, SMT DEF Idx
  <2>3. v < K
    BY <2>2, <1>1 DEF Idx
  <2>4. PRESENT \in p2[i][j].flags /\ HUGE_PAGE \notin p2[i][j].flags
    BY <2>1 DEF TablePtr, Entry, PRESENT, WRITABLE, HUGE_PAGE
  <2>5. PRESENT \in LowTable[r].flags /\ Translate(v) = MappedR("4KiB", LowTable[r])
    BY <1>5, <1>6, <2>1, <2>3, <2>4 DEF NotMappedR, MappedR
  <2>6. LowTable[r].addr = r
    BY <2>5, LowTableIdentity
  <2>. QED BY <2>2, <2>5, <2>6, <1>1 DEF Target, MappedR, Idx
<1>8. CASE ~(<<i, j>> = <<0, 0>> /\ phase \in {"remapped", "done"})
  <2>1. p2[i][j] = BootEntry(i * K * K + j * K)
    <3>1. CASE <<i, j>> # <<0, 0>>
      BY <3>1 DEF BuiltTables
    <3>2. CASE <<i, j>> = <<0, 0>>
      <4>1. phase = "generated"
        BY <1>8, <3>2 DEF Built
      <4>2. i = 0 /\ j = 0 /\ i * K * K + j * K = 0
        BY <3>2, <1>1, SMT
      <4>. QED BY <4>1, <4>2 DEF BuiltTables
    <3>. QED BY <3>1, <3>2
  <2>2. CASE BootEntry(i * K * K + j * K) = UnusedEntry
    BY <1>5, <1>6, <2>1, <2>2 DEF UnusedEntry, Entry, NotMappedR
  <2>3. CASE /\ BootEntry(i * K * K + j * K).addr = i * K * K + j * K
             /\ PRESENT \in BootEntry(i * K * K + j * K).flags
             /\ HUGE_PAGE \in BootEntry(i * K * K + j * K).flags
    <3>1. Translate(v) = MappedR("2MiB", BootEntry(i * K * K + j * K))
      BY <1>5, <1>6, <2>1, <2>3
    <3>2. Target(Translate(v), v) = (i * K * K + j * K) + r
      BY <3>1, <2>3, <1>3 DEF Target, MappedR
    <3>. QED BY <3>2, <1>4
  <2>. QED BY <2>2, <2>3, BootEntryShape
<1>. QED BY <1>7, <1>8

(* Whatever the memory map, the geometry and the number of level 2 tables, *)
(* every page of the first NG GiB that the builder's tables map, at every  *)
(* stage after generate_page_table, is mapped to itself                    *)
(* (generate_page_table, remap_first_2mb_with_4kb, setup_mmu).             *)
THEOREM BootIdentity == Spec => []BootstrapIdentity
<1>1. Init => BuiltTables
  BY InitBuilt
<1>2. BuiltTables /\ [Next]_vars => BuiltTables'
  BY NextBuilt
<1>3. BuiltTables => BootstrapIdentity
  BY BuiltIdentity
<1>. QED BY <1>1, <1>2, <1>3, PTL DEF Spec

=============================================================================
