# Formal models of the svm_kernel virtual-memory core

This directory holds TLA+ models of svm_kernel's memory core (the page-table
mapper, the physical frame allocator, the identity-mapping policy and the
bootloader's table builder) and of the code that runs on top of it at boot
(ACPI discovery). It also holds TLC configurations that model-check the
models on small instances, and TLAPS proofs, for every value of the
constants, of the invariants and action properties listed under "What is
proved".

## The system

The parts of the repository, and how they interact:

| Part | Source | What it does |
|---|---|---|
| Page-table primitives | not in `src/` (page_table.rs, page.rs, frame.rs) | An entry is an address plus flags (PRESENT, WRITABLE, NO_CACHE, NO_EXECUTE, HUGE_PAGE). A table is an array of entries. |
| Table walker | `crates/x86/.../mapper/mapped_page_table.rs` 312-408 | `next_table`/`next_table_mut` follow an entry, or fail with NotMapped or MappedToHugePage. `create_next_table` allocates and zeroes a table for an unused entry, or merges the parent flags into a used one before following it. |
| Generic mapper | same file, 1-310 | A two-level `MappedPageTable`: `map_to`, `unmap`, `update_flags` and `set_flags_p2_entry` for 4 KiB and 4 MiB pages, plus `translate`. |
| Frame allocator | `svm_kernel/src/memory.rs` 191-281 | `BootInfoFrameAllocator`: a cursor `next` into the lazily recomputed sequence `usable_frames::<T>()`, shared by the 4 KiB and 2 MiB allocators. |
| Identity-mapping policy | `memory.rs` 64-189 | `id_map`, `id_map_nocache`, `id_map_nocache_update_flags` and `map_and_read_phys`, on the x86_64 crate's 4-level `OffsetPageTable`. |
| Bootstrap builder | `external/bootloader/src/mmu.rs` | Builds the boot identity map with raw pointers, before any allocator exists. |
| ACPI discovery | `svm_kernel/src/acpi.rs` | `init_acpi_table` stores the parsed tables once in the static `ACPI_TABLES`; `Acpi::init` scans the EBDA and the BIOS area for the RSDP, walks the RSDT and parses the MADT and SRAT, reading every structure through `map_and_read_phys`. |
| Kernel entry | `svm_kernel/src/main.rs` | `kernel_main` runs on every core: the core with APIC id 0 stores its `CoreState` in `BSPCORE_STATE`; the others compare theirs with it in `smp_main`. Not modelled (see "Not modelled"). |
| Boot info | `external/bootloader/src/bootinfo/mod.rs` | The memory map and core list the bootloader hands the kernel. |

Control flow: the bootstrap builder runs once. Then the kernel builds an
`OffsetPageTable` and a `BootInfoFrameAllocator` from the boot memory map.
Every later mapping, including ACPI's identity maps, goes through a mapper
that takes its table frames from the allocator. The `MappedPageTable` of the
x86 crate in this repository is the same walker-plus-mapper design over two
levels. It is the mapper whose code is in `src/`, so it is the one modelled.

## Modules

### `MappedPageTable.tla`: walker, mapper and the 4 KiB allocator

State:

| Variable | Code |
|---|---|
| `p2` | The level 2 table: one entry `[addr, flags]` per index in `P2Idx`. |
| `mem` | The physical frames that can be read as a level 1 table: the allocator's frames and the 4 MiB frames callers map. A frame never written by the mapper holds a present entry to `JunkAddr`. That entry stands for arbitrary bits. |
| `next` | `BootInfoFrameAllocator.next`. |
| `ret` | The last operation, its inputs and its `Result`. |

Addresses are counted in 4 KiB units, so every entry address is 4 KiB
aligned, as the entry's address field is. The allocator is the 4 KiB
`allocate_frame`: call *n* returns element *n* of the fixed sequence
`UsableFrames`, or `None`, and it advances the cursor either way.

Actions, one per operation, each covering the whole call chain:

- `Map4MiB` is `map_to_4mib`.
- `Map4KiBCreate` is `map_to_4kib` on an unused level 2 entry. It covers `create_next_table`'s allocation, the entry install, `zero()` and the level 1 write. On allocation failure it returns FrameAllocationFailed.
- `Map4KiBExisting` is `map_to_4kib` on a used entry. It covers the flag merge, then either the huge-page refusal or the `is_unused` check and the write.
- `Unmap4MiB`, `Unmap4KiB`, `UpdateFlags4KiB` and `SetFlagsP2Entry4KiB` model the functions of the same names. `UpdateFlags4MiB` also stands for `set_flags_p2_entry<Size4MiB>`, which has the same body.

Each action's early returns are an IF/ELSE chain in the order the code checks
them. `Translate` is `Translate::translate`.

Properties:

- `TypeOK` is the type invariant.
- `TableFramesExclusive`: an allocator frame backs at most one level 2 entry.
- `NoStaleEntries`: a page under a created table translates only to a frame some map installed, never to stale memory.
- `ResultsAgreeWithTranslate` is an action property. Every `Ok` moves its page along the contract's per-page state machine, as `translate` sees it:
  - map goes from NotMapped to Mapped(frame, flags);
  - unmap goes from Mapped(frame) to NotMapped and returns that frame;
  - update_flags goes from Mapped to Mapped(frame, flags).
- `FailedMapKeepsTranslations`: a rejected map changes no translation.
- `FlagUpdatesKeepFrames`: a flag update never changes whether a page is mapped, or to which frame.

### `FrameAllocator.tla`: `BootInfoFrameAllocator` with both page sizes

- `memmap` is chosen in `Init` among all ordered, disjoint memory maps. The memory map is modelled from the spec, because memory_map.rs is not in `src/`.
- `UsableFramesOf` translates `usable_frames::<T>`: the type filter, the end adjustment, the start adjustment, the size filter, `step_by`, and the flatten.
- `Allocate(sz)` is `allocate_frame` at either size.
- `handed` records the frames returned so far.

Properties:

- `SmallFramesMatchReference`: the 4 KiB sequence enumerates exactly the 4 KiB frames that lie inside usable regions, in increasing order.
- `HandedFramesDisjoint`: no two returned frames of any size overlap.
- `HandedFramesUsable`: every returned frame of any size lies inside a usable region.

### `FrameSource.tla`: what a 4 KiB frame allocator promises

The abstract specification: `AllocateFrame` hands out a usable frame that was
never handed out before, and `Exhausted` (a `None`) happens only once every
usable frame is out. `FrameAllocator.tla` instances it with the refinement
mapping `given <- GivenFrames` (the start pages of the 4 KiB frames returned
so far) and `failed <- RanOut` (the cursor has passed the end of
`usable_frames`). `AllocatorRefinesSource == Source!Spec` is checked of
`Spec4KiB`, the allocator called at 4 KiB only.

### `IdMap.tla`: the identity-mapping policy (`memory.rs` 64-189)

The x86_64 crate's `OffsetPageTable` is not in this repository, so its
`map_to`, `update_flags` and `translate` (`MapToIn`, `UpdateFlagsIn`,
`TranslateIn`, with the walker's `create_next_table` as `Create3`/`Create2`)
are modelled from the spec, on the same walker design as `crates/x86`. It has
three levels below the one level 4 entry of low memory, with 4 KiB, 2 MiB
and 1 GiB leaves. The policy itself is translated from the source:

| Definition | Code |
|---|---|
| `IdMapIn`, `IdMap` | `id_map`: translate, then the chain of checks of lines 149-185 (size, identity, flags) in the code's order, then `identity_map` with every error turned into FrameAllocationFailed. |
| `IdMapNocache` | `id_map_nocache`: `id_map` with NO_CACHE added. |
| `IdMapNocacheUpdateFlags` | The variant: on AlreadyMappedDiffFlags it calls `update_flags::<T>` and unwraps it. |
| `MapAndReadPhys` | `map_and_read_phys`: `id_map` of the 4 KiB frame of `addr` and, if different, of `addr + size`, each unwrapped, then the read. |

`free` abstracts the allocator to the number of frames it can still hand out.
`ret` records the last call and its result, and `panicked` an unwrap that
failed (a panic halts the kernel, so nothing runs after it).

Properties: `TypeOK`; `IdMapOkMeansIdentity` and `ReadsAreIdentity` (action
properties: an Ok leaves the page, or every page the read touches, identity
mapped with the flags asked for); four properties that fail (items 3 and 8-10 under Findings).

### `Bootstrap.tla`: the bootloader's table builder (`mmu.rs`)

`GeneratePageTable`, `RemapFirst2MB` and `SetupMmu` are the three functions,
each one action, in the order the bootloader's stage code calls them on the
boot core. The tables live in static storage whose contents are unknown
until zeroed: `Init` fills them with a present `JunkEntry`. The geometry is
scaled to K entries per table. `Filled` is the number of level 3 entries the
loop fills before `expect` runs out of level 2 tables (`phase = "panic"`).
`LowTable` is the 4 KiB table of the first 2 MiB, with `LowFlags` translating
the if-chain of lines 120-141 and the VGA page written last. `RegionsAt` is
`get_region_by_addr`, modelled from its use (memory_map.rs is not in `src/`).
`Translate` is the hardware walk of the resulting hierarchy.

Properties: `BootstrapIdentity` (every page the tables map, maps to itself:
no junk entry is reachable); two properties that fail (items 11-12 under
Findings). Whether the builder reaches `done` depends only on `NTables`, the
number of level 2 tables the linker script reserves, which is outside
`src/`; no property is stated about it.

### `Acpi.tla`: ACPI discovery (`acpi.rs`)

State: `ACPI_TABLES` (the static `Option<Acpi>`), `acpi` (the `Acpi` under
construction), `pc` (where `Acpi::init` is: idle, scan, rsdt, tables),
`region`/`addr` (the `search_rsdp` loops), `entry` (the RSDT loop),
`lastRead`, `panicked` (a tag naming the panic message: `"InitTwice"`,
`"NoRsdp"`, `"MultipleSrat"`, ..., or `"none"`) and `calls`. The firmware `fw` is chosen in `Init`:
the EBDA segment word, the RSDP candidates at each 16-byte slot, and the
RSDT's tables. Each table is abstracted to what `parse_madt`/`parse_srat`
return (signature, checksum, the LAPIC, IOAPIC and domain lists, the
PCAT_COMPAT bit and the parity of the header's length word).

Actions: `InitAcpiTable` (panics when `ACPI_TABLES` is set), `GetAcpiTable`
(unwrap), one `ScanStep` per candidate read of `search_rsdp`, `ParseRsdt`,
one `TableStep` per RSDT entry (`HandleMadt`, `HandleSrat` with their
once-only checks and panics), and `InitDone`. `Call` is a call from the
kernel (at most `MaxCalls`); `Step` is the next step of an `init` in progress.

Properties: `SratFromSingleTable` (the domains come from one SRAT),
`InitializedOnce` (action property: once `ACPI_TABLES` is set it never
changes and no `init` starts); four properties that fail (items 4, 5, 13
and 14 under Findings).

### `*Proofs.tla`: TLAPS proofs

Described under "What is proved" below.

### `MC*.tla` and `*.cfg`: TLC instances

Described under "Runs" below.

## Runs

| Run | cfg | Expect | Shows |
|---|---|---|---|
| mapper_api | `MCMappedPageTable.cfg` | pass | See below. |
| failed_map_into_huge | `MCMappedPageTable_FailedMapKeepsTranslations.cfg` | violation | Finding 1. |
| allocator | `MCFrameAllocator.cfg` | pass | See below. |
| allocator_mixed_sizes | `MCFrameAllocator_HandedFramesDisjoint.cfg` | violation | Finding 2. |
| allocator_refines_source | `MCFrameAllocator_Refinement.cfg` | pass | The 4 KiB allocator implements `FrameSource`. |
| idmap | `MCIdMap.cfg` | pass | See below. |
| read_maps_extra_page | `MCIdMap_MapAndReadPanicsOnlyOnReadPages.cfg` | violation | Finding 3. |
| bootstrap | `MCBootstrap.cfg` | pass | See below. |
| acpi | `MCAcpi.cfg` | pass | See below. |
| acpi_second_madt | `MCAcpi_SecondMadtRejected.cfg` | violation | Finding 4. |
| rsdp_scan_overrun | `MCAcpi_ScanReadsInsideArea.cfg` | violation | Finding 5. |

The other cfgs named `MC<Module>_<Property>.cfg` each check one property that
TLC finds violated; they show the further discrepancies listed after the
findings.

**mapper_api** covers all interleavings of the operations on two level 2 and
two level 1 indices. It reaches about 1.36 M distinct states in about 2
minutes.

**allocator** covers every memory map of at most 2 regions below address 10.
Any mix of 4 KiB and 2 MiB calls keeps the 4 KiB frame sequence exactly
the usable 4 KiB frames, in order. It reaches about 33 k states. **allocator_refines_source** runs the
same memory maps with 4 KiB calls only (about 15 k states).

**idmap** starts from three page-table states the kernel can be in when ACPI
runs (the bootloader's identity map of low memory with page 0 unmapped, next
to non-identity kernel mappings; a 1 GiB identity page; an unused level 3
slot), with up to two free frames, and explores every sequence of three
calls of the four functions at every size and frame, with add-flags {} and
{WRITABLE}, and reads of 1 or 2 bytes at odd addresses (straddling a page or
ending on one). About 149 k states, 15 s.

**bootstrap** takes every memory map of up to two ordered, disjoint regions
with bounds among {0, 4, 8, 16, 68, 128} pages, so regions start on and off a
2 MiB boundary (8 pages) and leave gaps; K = 8, NG = 2 and two level 2
tables. About 680 states.

**acpi** takes firmware images with RSDP candidates of every kind (revision 0,
revision 2, revision 2 with a bad extended checksum, bad checksum) in the
EBDA kilobyte and in the BIOS area, RSDTs of up to two tables among MADT and
SRAT variants and bad tables, and two calls of `init_acpi_table` or
`get_acpi_table` in any order. About 39 k states.

**Bounds**, and why they are enough. The mapper instance has:

- two indices at each level, so two entries can share or not share a table;
- one 4 KiB data frame and one 4 MiB data frame;
- two allocator frames and `MaxNext = 3`, so the allocator runs dry on the third table creation;
- flag sets {P} and {P, W}, and parent flags {P, W}, so a merge can add WRITABLE to a read-only entry.

Index symmetry is sound because no property names a particular index.

The allocator instance has 2 MiB = 4 units. Addresses up to 10 allow a
region with an unaligned start that holds more than one big frame. Two
regions allow a reserved region next to a usable one. `MaxNext = 6` allows a
big allocation after a small one, and two small ones after a big one.

IdMap's two entries per table give each kind of parent (unused, table,
huge page) at each level side by side; three calls let one call create a
table that the next one finds, and exhaust two frames. Bootstrap's two
regions and two level 2 tables reach the loop's end with every kind of
2 MiB page, and `NTables < NG` is the panic of `expect`. Acpi's two tables
per RSDT are what a duplicate MADT or SRAT needs, and two calls what a
second `init` needs.

**Deadlock.** The allocator, IdMap, Acpi and Bootstrap cfgs set
`CHECK_DEADLOCK FALSE`: their runs end at the call bound or at a panic
(which halts the kernel), which are the ends of the bounded run, or, for
the builder, at `done`, after which the bootloader jumps into the kernel. The mapper run checks deadlock.

**Fairness.** None is assumed, and no liveness property is stated. The
mapper, the allocator and the policy are sequential objects whose
operations return in one step, and ACPI's `init` is such a call too. The
only thing that must eventually happen is that the bootstrap builder
finishes. It runs three steps on one core, so whether it finishes is decided
by `NTables` alone, and that value comes from the linker script.

**Mutants.** Each property of the passing runs is shown to catch a plausible
fault in the code, written as an operator before the definition it replaces:

| Property | Fault |
|---|---|
| `TypeOK` (mapper) | `Map4KiBCreateUnchecked`: the allocator's `None` is installed as a frame. |
| `TableFramesExclusive` | `Map4KiBCreateNoAdvance`: the cursor is not advanced. |
| `NoStaleEntries` | `Map4KiBCreateNoZero`: `zero()` is dropped. |
| `ResultsAgreeWithTranslate` | `Map4KiBExistingOverwrite`: no `is_unused` check on the level 1 entry. |
| `TypeOK` (allocator) | `AdjustEndUp`: the end is rounded up. |
| `SmallFramesMatchReference` | `UsableFramesOfAnyType`: the region type filter is dropped. |
| `AllocatorRefinesSource` | `RegionFramesInclusive`: the range includes its end. |
| `TypeOK` (IdMap) | `Create2Unchecked`: `create_next_table` installs a level 1 table although the allocator returned `None`. |
| `IdMapOkMeansIdentity` | `IdMapInNoIdentity4K`: the identity check of a 4 KiB mapping is dropped. |
| `ReadsAreIdentity` | `MapAndReadPhysFirstFrame`: only the frame of the start address is mapped. |
| `BootstrapIdentity` | `LowTableNoZero`: `p1_table.zero()` is dropped. |
| `SratFromSingleTable` | `HandleSratUnguarded`: no once-only check on the SRAT. |
| `InitializedOnce` | `InitAcpiTableUnguarded`: no check that `ACPI_TABLES` is unset. |

## Findings

Each is a run of PROJECT.json.

1. **A rejected 4 KiB map changes a huge page.** (`mapped_page_table.rs:390`)
   `create_next_table` merges the parent flags into a used level 2 entry
   before it discovers that the entry is HUGE. So `map_to::<Size4KiB>`
   returns ParentEntryHugePage after making the 4 MiB page writable.
2. **The shared cursor mixes sizes.** (`memory.rs:277-278`)
   The 2 MiB allocator indexes the 2 MiB sequence with a cursor counted in
   4 KiB frames, and then adds 512. As a result:
   - 4 KiB and 2 MiB frames overlap when the calls are mixed;
   - 2 MiB calls alone skip 511 of every 512 huge frames.
3. **`map_and_read_phys` maps one page too many.** (`memory.rs:74`)
   The second frame is taken at `addr + size`, not `addr + size - 1`: an
   object that ends on a page boundary also id_maps the next page, and the
   kernel panics when `id_map` fails for that page. In TLC's trace the
   object is the last byte of page 3 (`Tree2`, no free frame). Page 4 lies
   under an unused level 3 entry, so `id_map` needs a new table, the
   allocator has none, and the `unwrap` panics on `FrameAllocationFailed`.
4. **A second MADT is accepted.** (`acpi.rs:204`) The duplicate check tests
   `apics`, which stays None when the first MADT lists no enabled local
   APIC; the second overwrites the first one's results.
5. **The RSDP scan reads past its area.** (`acpi.rs:123`) `struct_end` is
   computed from the area's aligned start instead of the loop address, so
   the check "Break out of the scan if we are out of bounds of this region"
   never fires once the loop has left the area's first slot. In TLC's trace
   the EBDA area ends at 71 and an `Rsdp` is read at 64, up to address 83.

### Further discrepancies

Each is stated by a property of its module and violated under the cfg named.

6. **Level 2 flag updates ignore the page size.** (`mapped_page_table.rs:149,166,252`)
   `update_flags`/`set_flags_p2_entry` check only `is_unused`, while `unmap`
   also checks HUGE_PAGE. `set_flags_p2_entry::<Size4KiB>` on a 4 MiB page
   clears HUGE_PAGE, so the data frame is walked as a level 1 table. The 4 MiB
   variants turn a table pointer into a huge page. (`MCMappedPageTable_FlagUpdatesKeepFrames.cfg`)
7. **A 2 MiB frame can leave its region.** (`memory.rs:226`)
   The end is shortened by `size % T::SIZE` before the start is aligned up.
   With an unaligned start, `step_by` yields a last frame that crosses the
   region end. (`MCFrameAllocator_HandedFramesUsable.cfg`; for every frame
   size, theorem `UnalignedLastFrameOverruns`.)
8. **The update variant changes a non-identity mapping.** (`memory.rs:163`)
   For 2 MiB and 1 GiB mappings `id_map` compares the flags before the
   target, so a huge page mapped elsewhere with other flags is reported as
   AlreadyMappedDiffFlags; `id_map_nocache_update_flags` then updates its
   flags and returns Ok. (`MCIdMap_UpdateFlagsOkMeansIdentity.cfg`)
9. **The update variant panics inside a huge page.** (`memory.rs:123`)
   `update_flags::<Size4KiB>` on a page that a 2 MiB or 1 GiB mapping covers
   fails with ParentEntryHugePage, and the `unwrap` panics. (`MCIdMap_UpdateVariantNeverPanics.cfg`)
10. **Every mapping error is reported as allocation failure.** (`memory.rs:146`)
    A conflicting mapping inside a huge page gives FrameAllocationFailed while
    frames remain. (`MCIdMap_AllocFailureMeansExhausted.cfg`)
11. **Flags are chosen per 2 MiB page.** (`mmu.rs:60`) Only the page's first
    address is looked up, so a usable region that starts inside a 2 MiB page
    is unmapped or gets the flags of the region before it. (`MCBootstrap_FlagsFollowMemoryMap.cfg`)
12. **Page 0 is not mapped.** (`mmu.rs:116`) `skip(1)` leaves address 0
    unmapped after the remap, where spec section 8 asks for a no-cache,
    no-execute page. (`MCBootstrap_LowPagesAsSpecified.cfg`)
13. **The EBDA is never scanned.** (`acpi.rs:113`) The word at 0x40e is a
    real-mode segment; the scan starts at its value instead of value * 16. (`MCAcpi_RsdpFoundWhenPresent.cfg`)
14. **`mask_pics` follows the table length.** (`acpi.rs:260`) The MADT flags
    are read at offset 4, which is the header's length field. (`MCAcpi_MaskPicsFromMadtFlags.cfg`)

## What is proved

Every theorem holds for every value of the constants that satisfies the
`ASSUME`s of its model.

`MappedPageTableProofs.tla`:

- `TypeCorrect == Spec => []TypeOK`
- `TablesExclusive == Spec => []TableFramesExclusive`
- `NoStale == Spec => []NoStaleEntries`
- `ResultsAgree == Spec => ResultsAgreeWithTranslate`
- `FailedMapKeepsFramesThm == Spec => FailedMapKeepsFrames`

**Assumptions.** The proofs rest on these `ASSUME`s of `MappedPageTable`:

- the index sets are finite;
- `UsableFrames` is injective, because the memory map's regions are disjoint;
- allocator frames and the frames callers map are disjoint;
- callers' flag sets contain PRESENT and never HUGE_PAGE, because `set_frame` rejects HUGE_PAGE.

**Argument.** Neither invariant is inductive alone. `IInv` strengthens them with two facts:

- `UsedAddrsInMemory`: every used level 2 entry points into modelled memory. Without it, the level 1 entry an operation reads has no known type.
- `AllocatedBeforeUse`: every allocator frame a level 2 entry points to has index at most `next`. So the frame `create_next_table` installs next, element `next+1`, is referenced by no entry. This is lemma `FreshFrameUnreferenced`, which uses injectivity.

`InitIInv` proves that `Init` establishes `IInv`. Then there is one lemma per
operation (`Map4MiBStep`, `Map4KiBCreateStep`, `Map4KiBExistingStep`,
`Unmap4MiBStep`, `FlagOpStep`, `L1OpStep`), each showing that the operation
preserves `IInv`; `NoNewRefsKeep` factors out a step that gives no entry a
new address. `NoStale` adds `AllocTablesClean` (every allocator table an
entry points to holds only unused entries or entries written by a map),
with one preservation lemma per operation and `CleanNoStale`.

`ResultsAgree` is an action property proved from `IInv`. `NextOk` shows that
every step of `Next` satisfies `OkStep`: a call that returns Ok leaves
`Translate` as its contract says. There is one lemma per operation
(`Map4MiBOk`, `Map4KiBCreateOk`, `Map4KiBExistingOk`, `Unmap4MiBOk`,
`Unmap4KiBOk`, `UpdateFlags4KiBOk`, `P2FlagOpsOk`). `UnusedWalk`, `TableWalk`
and `MergedWalk` say what `Translate` returns after an entry is written.

`FailedMapKeepsFramesThm` is the positive side of finding 1. A `map_to` that
fails leaves the kind and the frame of every page's translation as they were.
Only the flags of one huge page can change, through `create_next_table`'s
merge. This needs one more invariant, `UsedArePresent`: every used level 2
entry is PRESENT, so a merged entry still walks to the same place
(`MergedSameWalk`). TLC checked both on the mapper instance before they were
proved. Neither is a run property, because `FailedMapKeepsTranslations`
already is.

`FrameAllocatorProofs.tla` covers the frames `usable_frames::<T>` takes from
one region, for every frame size `sz`:

- `AlignedRegionFrames`: if the region's start is aligned, the list names
  each aligned frame lying wholly inside the region once, in increasing
  order.
- `UnalignedLastFrameOverruns`: if the start is unaligned and the length is a
  whole number of frames, the last frame listed ends `sz - start % sz` past
  the region. Such a frame exists whenever the region is two frames long.
  This is finding 7 for every size, not only the instance's.

The argument is division with remainder. `DivMod`, `ModUnique`, `MultAligned`
and `AlignedDiff` state it. `AlignedFramesForm` and `UnalignedFramesForm`
give the list in closed form. `ClosedFormInside` and `InsideClosedForm`
compare it with the aligned frames inside the region.

`AcpiProofs.tla`, for every firmware image:

- `TablesInitializedOnce == Spec => InitializedOnce`. The strengthening is
  `NoInitOverTables` (while `ACPI_TABLES` is set no `init` is in progress);
  `InitStepsKeepTables` shows that every step of `init` but the last needs
  one in progress and leaves `ACPI_TABLES` alone.
- `SratSingle == Spec => []SratFromSingleTable`, from the inductive
  invariant `AcpiInv`. Besides types, it says: while `init` is past the scan,
  the slot at `addr` passed `search_rsdp`'s checks; during the scan and the
  RSDT parse no domains are recorded; in the table loop, and once the tables
  are stored, the domains are those of the SRATs before `entry`
  (`DomainsFrom`), and there is at most one such SRAT. The last fact is what
  `HandleSrat`'s panic keeps true. Once stored, `entry` is past the last table,
  so the SRATs "before `entry`" are all of the RSDT's. One lemma per action
  (`ScanStepInv`, `ParseRsdtInv`, `TableStepInv`, ...) shows it is kept;
  `SkipNonSrat` factors out the tables that are not an SRAT.

`BootstrapProofs.tla`: `BootIdentity == Spec => []BootstrapIdentity`, for
every memory map, geometry `K`, `NG` and number of level 2 tables. The
invariant is about a walk, so it is not inductive: nothing in it says what
the entries hold. `BuiltTables` describes the tables entry by entry once the
builder has run. The level 3 table points to `NG` level 2 tables. Every level
2 entry but `p2[0][0]` is the `BootEntry` of its own address. `p2[0][0]` is
that entry until `remap_first_2mb_with_4kb`, and after it a pointer to
`LowTable`. So the junk in table memory lies only behind unused level 3
entries, and the level 1 table is reached only once it holds `LowTable`.
`BuiltIdentity` then follows the walk. Its arithmetic comes from three lemmas:

- `Split`: the three indices `Translate` takes add back up to the page;
- `QuotBound`: the level 3 index of a page of the first `NG` GiB is below `NG`;
- `DivUnique`.

`BootEntryShape` and `LowTableIdentity` show that every entry either of the
two functions writes is unused or maps its own address.

`IdMapProofs.tla`, for every table geometry, initial tree and read request
the constants allow:

- `TypeCorrect == Spec => []TypeOK`. The caller's state is a record of
  `MState`, and each helper keeps a state in it: `Create3Type`, `Create2Type`,
  `MapToType`, `UpdateFlagsType` and `IdMapInType`. Nested `EXCEPT` updates
  are typed layer by layer, with `SetP1Type` and its siblings.
- `IdMapOk == Spec => IdMapOkMeansIdentity`. When `id_map` or `id_map_nocache` returns Ok, the
  frame is mapped to itself with at least the requested flags. `IdMapInOk`
  proves this for each path through the chain of checks. The path that
  creates a mapping rests on `Create3Ok`, `Create2Ok` and `MapToOk`: a new
  parent table is empty, and a merged parent entry keeps its target.
- `ReadsOk == Spec => ReadsAreIdentity`. When `map_and_read_phys` returns, the
  page of every byte it read is identity mapped. `BytePages` shows that such
  a byte lies in the frame of the object's first byte or in the frame of the
  byte after it. `IdMapInKeeps` shows that the second `id_map` call leaves
  the first frame's mapping alone. It rests on `Create3Keeps`, `Create2Keeps`
  and `MapToKeeps`: writing the path of one page leaves the walk of every
  other page where it was.

Panic messages are tags in `Acpi.tla` (`"NoRsdp"`, ...) because the
prover's SMT backend cannot encode string literals that contain spaces.

**Only model-checked:**

- the mapper's violations;
- the allocator's run properties (`TypeOK`, `SmallFramesMatchReference`)
  and the refinement. `UsableFramesOf` concatenates the
  regions' lists with `FlattenSeq`, a recursive function. What it yields for
  a memory map of arbitrarily many regions needs induction over the map. The
  library's induction theorems take an operator parameter that the installed
  provers cannot instantiate. The per-region half of the argument is proved
  (above), and TLC checks the concatenation on the instance;
- Bootstrap's `FlagsFollowMemoryMap` and `LowPagesAsSpecified`: they
  quantify over the results of nested table walks, and TLC checks them on
  instances that hold every kind of entry at every level. IdMap's violations
  are findings, so there is nothing to prove about them.

## Not modelled

- **`memory::init` and `print_pagetable`.** `init` builds an
  `OffsetPageTable` over CR3 and a `BootInfoFrameAllocator`, with no
  decision of its own; `print_pagetable` is logging. The tables `init`
  hands on are IdMap's initial states.
- **The byte-level parsing of ACPI tables.** `parse_madt` and `parse_srat`
  walk the entries of a table in memory; `Acpi.tla` keeps their results and
  panics, and the checksums as booleans. Reading structures byte by byte
  would make the firmware image the state and shows nothing the findings
  do not.
- **Boot info beyond the memory map.** `Cores`/`Core` are plain data the
  bootloader fills; only the memory map enters the models.
- **The 4 MiB translate offset mask** (`0o777_7777`, `mapped_page_table.rs:283`).
  It depends on page.rs, which is missing.
- **The bootloader's stage code**, which calls the builder and starts the
  other cores, is not in the repository; its order is an assumption of
  `Bootstrap`.
- **Kernel entry** (`kernel_main`, `smp_main`, `main.rs` 40-101). The boot
  core stores its `CoreState` in `BSPCORE_STATE`, and a secondary core
  unwraps it and panics if its own state differs (line 93). No code in
  `src/` starts a secondary core. The kernel gets the SMP trampoline from
  `BootInfo` and starts the other cores itself, after its own init. So every
  core reads the value stored before it, and a model would only restate the
  comparison.

## Plan

1. **Composition.** The mapper driven by the allocator module itself
   (2 MiB allocations included), instead of a fixed frame sequence. Check
   that table frames never overlap mapped data frames.
2. **Refinement of the mapper.** An abstract per-page state machine
   (NotMapped / Mapped), with `MappedPageTable` implementing it under
   `page |-> Translate(page)`, restricted to the operations the findings do
   not break, and a TLAPS proof of the step.
3. **More proofs.** The allocator's invariants, once an induction over the
   memory map is within the provers' reach.
