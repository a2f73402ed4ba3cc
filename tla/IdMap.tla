------------------------------- MODULE IdMap -------------------------------
(***************************************************************************)
(* The identity-mapping policy of svm_kernel/src/memory.rs: id_map,        *)
(* id_map_nocache, id_map_nocache_update_flags and map_and_read_phys, over *)
(* the x86_64 crate's OffsetPageTable that the kernel hands them.          *)
(*                                                                         *)
(* That mapper is not in this repository; it is modelled from the spec     *)
(* (and the 2-level crate in crates/x86, whose walker it shares): below    *)
(* the one level 4 entry that covers low memory, a level 3 table whose     *)
(* entries are unused, point to a level 2 table, or map a 1 GiB page; each *)
(* level 2 table's entries are unused, point to a level 1 table or map a   *)
(* 2 MiB page; level 1 entries map 4 KiB pages.  Tables are kept by        *)
(* position (p2[i3] is the table p3[i3] points to), which is sound because *)
(* nothing here frees a table and a created table is zeroed; a table       *)
(* pointer's address field is the fixed TableAddr.  The geometry is scaled *)
(* down: a table has K entries, a page is B bytes, and addresses are       *)
(* counted in 4 KiB pages, so a 2 MiB frame is K pages and a 1 GiB frame   *)
(* K * K pages.  The frame allocator is abstracted to the number of frames *)
(* it can still hand out (its cursor only advances).                       *)
(***************************************************************************)
EXTENDS Naturals, FiniteSets

CONSTANTS
  K,            \* entries per table
  B,            \* bytes per 4 KiB page
  TableAddr,    \* address field of a table pointer entry
  InitTrees,    \* page-table states the kernel may be in when ACPI runs
  InitFree,     \* frames the allocator may still hand out at that point
  AddFlagSets,  \* flag sets callers pass as add_flags
  ReadRequests, \* <<address, size>> of the objects map_and_read_phys reads
  MaxCalls      \* bound on the number of calls explored

PRESENT    == "PRESENT"
WRITABLE   == "WRITABLE"
NO_CACHE   == "NO_CACHE"
NO_EXECUTE == "NO_EXECUTE"
HUGE_PAGE  == "HUGE_PAGE"
FlagBits   == {PRESENT, WRITABLE, NO_CACHE, NO_EXECUTE, HUGE_PAGE}

Idx    == 0 .. K - 1
NPages == K * K * K
PageNo == 0 .. NPages - 1
Sizes  == {"4KiB", "2MiB", "1GiB"}

Entry(a, g)  == [addr |-> a, flags |-> g]
UnusedEntry  == Entry(0, {})
IsUnused(e)  == e = UnusedEntry
Entries      == [addr : Nat, flags : SUBSET FlagBits]
ZeroTable    == [i \in Idx |-> UnusedEntry]

Trees == [p3 : [Idx -> Entries], p2 : [Idx -> [Idx -> Entries]],
          p1 : [Idx -> [Idx -> [Idx -> Entries]]]]

ASSUME GeometryAssumption ==
  K \in Nat \ {0, 1} /\ B \in Nat \ {0, 1} /\ TableAddr \in Nat
ASSUME InitAssumption ==
  /\ InitTrees \subseteq Trees /\ InitFree \in Nat
  /\ AddFlagSets \subseteq SUBSET (FlagBits \ {HUGE_PAGE})
  /\ ReadRequests \subseteq (Nat \X (1 .. B))
  /\ \A q \in ReadRequests : (q[1] + q[2]) \div B \in PageNo
  /\ MaxCalls \in Nat

VARIABLES
  p3, p2, p1,  \* the level 3, 2 and 1 tables, by position
  free,        \* frames the allocator can still hand out
  ret,         \* the last call, its inputs and its result
  panicked,    \* an unwrap in the last call panicked
  calls        \* number of calls made

vars == <<p3, p2, p1, free, ret, panicked, calls>>

\* indices of a page number, and the size of a frame in pages
I3(v) == v \div (K * K)
I2(v) == (v \div K) % K
I1(v) == v % K
SizePages(s) == IF s = "4KiB" THEN 1 ELSE IF s = "2MiB" THEN K ELSE K * K
\* PhysFrame::<S>::containing_address, in pages
Containing(s, a) == a - (a % SizePages(s))

-----------------------------------------------------------------------------
(* The mapper state as a value, so that one call can be the composition of *)
(* the mapper operations it makes.  err is the error of the last of them.  *)

Cur == [p3 |-> p3, p2 |-> p2, p1 |-> p1, free |-> free, err |-> "none"]

Commit(m) == p3' = m.p3 /\ p2' = m.p2 /\ p1' = m.p1 /\ free' = m.free

\* PageTableEntry::frame as the walker reports it (spec_modelled)
WalkResult(e) ==
  IF PRESENT \notin e.flags THEN "NotMapped"
  ELSE IF HUGE_PAGE \in e.flags THEN "MappedToHugePage"
  ELSE "Ok"

WalkError(w) == IF w = "NotMapped" THEN "PageNotMapped" ELSE "ParentEntryHugePage"

MergedFlags(e, pg) ==
  IF pg # {} /\ ~(pg \subseteq e.flags) THEN e.flags \cup pg ELSE e.flags

(* PageTableWalker::create_next_table on p3[i3] and on p2[i3][i2]          *)
(* (spec_modelled): allocate, install and zero an unused entry's table, or *)
(* merge the parent flags into a used entry and then refuse a huge one.    *)
Create3(m, i3, pg) ==
  LET e == m.p3[i3] IN
  IF IsUnused(e) THEN
    IF m.free = 0 THEN [m EXCEPT !.err = "FrameAllocationFailed"]
    ELSE [m EXCEPT !.p3[i3] = Entry(TableAddr, pg), !.p2[i3] = ZeroTable,
                   !.free = @ - 1]
  ELSE LET n == Entry(e.addr, MergedFlags(e, pg)) IN
    [m EXCEPT !.p3[i3] = n,
              !.err = IF WalkResult(n) = "MappedToHugePage"
                      THEN "ParentEntryHugePage" ELSE "none"]

\* Fault, for the mutation runs: the allocator's None is not turned into
\* FrameAllocationFailed (no check before the table is installed).
Create2Unchecked(m, i3, i2, pg) ==
  LET e == m.p2[i3][i2] IN
  IF IsUnused(e) THEN
    [m EXCEPT !.p2[i3][i2] = Entry(TableAddr, pg), !.p1[i3][i2] = ZeroTable,
              !.free = @ - 1]
  ELSE LET n == Entry(e.addr, MergedFlags(e, pg)) IN
    [m EXCEPT !.p2[i3][i2] = n,
              !.err = IF WalkResult(n) = "MappedToHugePage"
                      THEN "ParentEntryHugePage" ELSE "none"]

Create2(m, i3, i2, pg) ==
  LET e == m.p2[i3][i2] IN
  IF IsUnused(e) THEN
    IF m.free = 0 THEN [m EXCEPT !.err = "FrameAllocationFailed"]
    ELSE [m EXCEPT !.p2[i3][i2] = Entry(TableAddr, pg), !.p1[i3][i2] = ZeroTable,
                   !.free = @ - 1]
  ELSE LET n == Entry(e.addr, MergedFlags(e, pg)) IN
    [m EXCEPT !.p2[i3][i2] = n,
              !.err = IF WalkResult(n) = "MappedToHugePage"
                      THEN "ParentEntryHugePage" ELSE "none"]

(* Mapper<S>::map_to_with_table_flags for OffsetPageTable (spec_modelled): *)
(* walk or create the parent levels, refuse a used terminal entry, else    *)
(* install the frame (HUGE_PAGE forced above level 1).                     *)
MapToIn(m, s, v, f, g, pg) ==
  LET i3 == I3(v)  i2 == I2(v)  i1 == I1(v) IN
  IF s = "1GiB" THEN
    IF ~IsUnused(m.p3[i3]) THEN [m EXCEPT !.err = "PageAlreadyMapped"]
    ELSE [m EXCEPT !.p3[i3] = Entry(f, g \cup {HUGE_PAGE})]
  ELSE
    LET m3 == Create3(m, i3, pg) IN
    IF m3.err # "none" THEN m3
    ELSE IF s = "2MiB" THEN
      IF ~IsUnused(m3.p2[i3][i2]) THEN [m3 EXCEPT !.err = "PageAlreadyMapped"]
      ELSE [m3 EXCEPT !.p2[i3][i2] = Entry(f, g \cup {HUGE_PAGE})]
    ELSE
      LET m2 == Create2(m3, i3, i2, pg) IN
      IF m2.err # "none" THEN m2
      ELSE IF ~IsUnused(m2.p1[i3][i2][i1]) THEN [m2 EXCEPT !.err = "PageAlreadyMapped"]
      ELSE [m2 EXCEPT !.p1[i3][i2][i1] = Entry(f, g)]

(* Mapper<S>::update_flags for OffsetPageTable (spec_modelled): walk the   *)
(* parent levels, refuse an unused terminal entry, else set its flags      *)
(* (with HUGE_PAGE above level 1).  The entry's size is not checked.       *)
UpdateFlagsIn(m, s, v, g) ==
  LET i3 == I3(v)  i2 == I2(v)  i1 == I1(v) IN
  IF s = "1GiB" THEN
    IF IsUnused(m.p3[i3]) THEN [m EXCEPT !.err = "PageNotMapped"]
    ELSE [m EXCEPT !.p3[i3].flags = g \cup {HUGE_PAGE}]
  ELSE IF WalkResult(m.p3[i3]) # "Ok" THEN
    [m EXCEPT !.err = WalkError(WalkResult(m.p3[i3]))]
  ELSE IF s = "2MiB" THEN
    IF IsUnused(m.p2[i3][i2]) THEN [m EXCEPT !.err = "PageNotMapped"]
    ELSE [m EXCEPT !.p2[i3][i2].flags = g \cup {HUGE_PAGE}]
  ELSE IF WalkResult(m.p2[i3][i2]) # "Ok" THEN
    [m EXCEPT !.err = WalkError(WalkResult(m.p2[i3][i2]))]
  ELSE IF IsUnused(m.p1[i3][i2][i1]) THEN [m EXCEPT !.err = "PageNotMapped"]
  ELSE [m EXCEPT !.p1[i3][i2][i1].flags = g]

(* Translate::translate for OffsetPageTable (spec_modelled): the frame a   *)
(* page lies in, its size and flags; a huge frame address that is not      *)
(* aligned to its size is InvalidFrameAddress.                             *)
NotMappedR == [kind |-> "NotMapped", size |-> "none", frame |-> 0, flags |-> {}]
InvalidR   == [kind |-> "InvalidFrameAddress", size |-> "none", frame |-> 0, flags |-> {}]
MappedR(s, e) ==
  IF e.addr % SizePages(s) # 0 THEN InvalidR
  ELSE [kind |-> "Mapped", size |-> s, frame |-> e.addr, flags |-> e.flags]

TranslateIn(m, v) ==
  LET e3 == m.p3[I3(v)]  e2 == m.p2[I3(v)][I2(v)]  e1 == m.p1[I3(v)][I2(v)][I1(v)] IN
  IF PRESENT \notin e3.flags THEN NotMappedR
  ELSE IF HUGE_PAGE \in e3.flags THEN MappedR("1GiB", e3)
  ELSE IF PRESENT \notin e2.flags THEN NotMappedR
  ELSE IF HUGE_PAGE \in e2.flags THEN MappedR("2MiB", e2)
  ELSE IF IsUnused(e1) THEN NotMappedR
  ELSE MappedR("4KiB", e1)

\* the physical page a mapped page v reaches
Target(r, v) == r.frame + (v % SizePages(r.size))

IsIdentity(m, v) ==
  TranslateIn(m, v).kind = "Mapped" /\ Target(TranslateIn(m, v), v) = v

-----------------------------------------------------------------------------
(***************************************************************************)
(* id_map::<S>(frame v, add_flags): translate the frame's own address; map *)
(* it when not mapped (every error of identity_map becomes                 *)
(* FrameAllocationFailed); otherwise check identity and flags, in that     *)
(* order for a 4 KiB mapping and in the other order for 2 MiB and 1 GiB.   *)
(* The result carries the mapper state after the call.                     *)
(***************************************************************************)
Result(m, res, g) == [m |-> m, res |-> res, flags |-> g]

\* Fault of id_map, for the mutation runs: the identity check of the 4 KiB
\* arm dropped.
IdMapInNoIdentity4K(m, s, v, add) ==
  LET my == {PRESENT} \cup add
      r  == TranslateIn(m, v) IN
  IF r.kind = "NotMapped" THEN
    LET n == MapToIn(m, s, v, v, my, my \cap {PRESENT, WRITABLE}) IN
    Result([n EXCEPT !.err = "none"],
           IF n.err = "none" THEN "Ok" ELSE "FrameAllocationFailed", {})
  ELSE IF r.kind = "InvalidFrameAddress" THEN Result(m, "FrameAllocationFailed", {})
  ELSE IF r.size = "4KiB" THEN
    IF ~(my \subseteq r.flags) THEN Result(m, "AlreadyMappedDiffFlags", r.flags)
    ELSE Result(m, "Ok", {})
  ELSE IF ~(my \subseteq r.flags) THEN Result(m, "AlreadyMappedDiffFlags", r.flags)
  ELSE IF Containing(r.size, v) # r.frame THEN Result(m, "MappingIsNotIdentity", {})
  ELSE Result(m, "Ok", {})

IdMapIn(m, s, v, add) ==
  LET my == {PRESENT} \cup add
      r  == TranslateIn(m, v) IN
  IF r.kind = "NotMapped" THEN
    LET n == MapToIn(m, s, v, v, my, my \cap {PRESENT, WRITABLE}) IN
    Result([n EXCEPT !.err = "none"],
           IF n.err = "none" THEN "Ok" ELSE "FrameAllocationFailed", {})
  ELSE IF r.kind = "InvalidFrameAddress" THEN Result(m, "FrameAllocationFailed", {})
  ELSE IF r.size = "4KiB" THEN
    IF v # r.frame THEN Result(m, "MappingIsNotIdentity", {})
    ELSE IF ~(my \subseteq r.flags) THEN Result(m, "AlreadyMappedDiffFlags", r.flags)
    ELSE Result(m, "Ok", {})
  ELSE IF ~(my \subseteq r.flags) THEN Result(m, "AlreadyMappedDiffFlags", r.flags)
  ELSE IF Containing(r.size, v) # r.frame THEN Result(m, "MappingIsNotIdentity", {})
  ELSE Result(m, "Ok", {})

Rec(op, s, v, add, res, a, n) ==
  ret' = [op |-> op, size |-> s, page |-> v, add |-> add, res |-> res,
          addr |-> a, len |-> n]

\* id_map, and id_map_nocache, which is id_map with NO_CACHE added
IdMap(s, v, add) ==
  LET o == IdMapIn(Cur, s, v, add) IN
  /\ Commit(o.m)
  /\ Rec("id_map", s, v, add, o.res, 0, 0)
  /\ UNCHANGED panicked

IdMapNocache(s, v, add) == IdMap(s, v, {NO_CACHE} \cup add)

(***************************************************************************)
(* id_map_nocache_update_flags: on AlreadyMappedDiffFlags, update_flags::  *)
(* <S> with PRESENT | NO_CACHE | add, unwrapped, and Ok.                   *)
(***************************************************************************)
IdMapNocacheUpdateFlags(s, v, add) ==
  LET my == {NO_CACHE} \cup add
      o  == IdMapIn(Cur, s, v, my)
      u  == UpdateFlagsIn(o.m, s, v, {PRESENT} \cup my) IN
  IF o.res = "AlreadyMappedDiffFlags" THEN
    IF u.err # "none" THEN
      Commit(o.m) /\ panicked' = TRUE /\ Rec("id_map_update", s, v, my, "panic", 0, 0)
    ELSE
      Commit(u) /\ UNCHANGED panicked /\ Rec("id_map_update", s, v, my, "Ok", 0, 0)
  ELSE Commit(o.m) /\ UNCHANGED panicked /\ Rec("id_map_update", s, v, my, o.res, 0, 0)

(***************************************************************************)
(* map_and_read_phys::<T>(addr) with size_of::<T>() = n: id_map the 4 KiB  *)
(* frame of addr and, if different, the frame of addr + n, unwrapping      *)
(* both; then read bytes addr .. addr + n - 1.                             *)
(***************************************************************************)
\* Fault of map_and_read_phys, for the mutation runs: only the frame of the
\* start address is mapped.
MapAndReadPhysFirstFrame(a, n) ==
  LET f1 == a \div B
      o1 == IdMapIn(Cur, "4KiB", f1, {}) IN
  IF o1.res # "Ok" THEN
    Commit(o1.m) /\ panicked' = TRUE /\ Rec("map_and_read", "4KiB", f1, {}, "panic", a, n)
  ELSE
    /\ Commit(o1.m)
    /\ UNCHANGED panicked
    /\ Rec("map_and_read", "4KiB", f1, {}, "Ok", a, n)

MapAndReadPhys(a, n) ==
  LET f1 == a \div B
      f2 == (a + n) \div B
      o1 == IdMapIn(Cur, "4KiB", f1, {})
      o2 == IdMapIn(o1.m, "4KiB", f2, {}) IN
  IF o1.res # "Ok" THEN
    Commit(o1.m) /\ panicked' = TRUE /\ Rec("map_and_read", "4KiB", f1, {}, "panic", a, n)
  ELSE IF f1 # f2 /\ o2.res # "Ok" THEN
    Commit(o2.m) /\ panicked' = TRUE /\ Rec("map_and_read", "4KiB", f1, {}, "panic", a, n)
  ELSE
    /\ Commit(IF f1 # f2 THEN o2.m ELSE o1.m)
    /\ UNCHANGED panicked
    /\ Rec("map_and_read", "4KiB", f1, {}, "Ok", a, n)

-----------------------------------------------------------------------------
\* a frame of size s starts at an aligned page
Frames(s) == {v \in PageNo : v % SizePages(s) = 0}

Init ==
  /\ \E t \in InitTrees : p3 = t.p3 /\ p2 = t.p2 /\ p1 = t.p1
  /\ free \in 0 .. InitFree
  /\ ret = [op |-> "none", size |-> "none", page |-> 0, add |-> {}, res |-> "none",
            addr |-> 0, len |-> 0]
  /\ panicked = FALSE
  /\ calls = 0

\* a panic halts the kernel: nothing runs after it
Next ==
  /\ ~panicked
  /\ calls < MaxCalls
  /\ calls' = calls + 1
  /\ \/ \E s \in Sizes, add \in AddFlagSets : \E v \in Frames(s) : IdMap(s, v, add)
     \/ \E s \in Sizes, add \in AddFlagSets : \E v \in Frames(s) : IdMapNocache(s, v, add)
     \/ \E s \in Sizes, add \in AddFlagSets : \E v \in Frames(s) :
          IdMapNocacheUpdateFlags(s, v, add)
     \/ \E q \in ReadRequests : MapAndReadPhys(q[1], q[2])

Spec == Init /\ [][Next]_vars

-----------------------------------------------------------------------------
(* Properties                                                              *)

Ops     == {"none", "id_map", "id_map_update", "map_and_read"}
Results == {"none", "Ok", "FrameAllocationFailed", "MappingIsNotIdentity",
            "AlreadyMappedDiffFlags", "panic"}

\* Every variable has its expected shape.
TypeOK ==
  /\ [p3 |-> p3, p2 |-> p2, p1 |-> p1] \in Trees
  /\ free \in 0 .. InitFree
  /\ ret \in [op : Ops, size : Sizes \cup {"none"}, page : PageNo,
              add : SUBSET FlagBits, res : Results, addr : Nat, len : Nat]
  /\ panicked \in BOOLEAN
  /\ calls \in 0 .. MaxCalls

\* the page ret names is mapped to itself with at least the flags asked for
IdentityWithFlags(r) ==
  /\ IsIdentity(Cur, r.page)
  /\ {PRESENT} \cup r.add \subseteq TranslateIn(Cur, r.page).flags

(***************************************************************************)
(* When id_map or id_map_nocache returns Ok, the frame's own address is    *)
(* mapped to itself with every flag the caller asked for, whatever the     *)
(* size and target of the mapping that was there before (the identity and  *)
(* flag checks of memory.rs:149-185, and the new mapping of line 145).     *)
(***************************************************************************)
IdMapOkMeansIdentity ==
  [][\A r \in {ret'} : (r.op = "id_map" /\ r.res = "Ok") => IdentityWithFlags(r)']_vars

(***************************************************************************)
(* The same promise for id_map_nocache_update_flags: Ok means the frame is *)
(* identity mapped with the flags asked for.                               *)
(***************************************************************************)
UpdateFlagsOkMeansIdentity ==
  [][\A r \in {ret'} : (r.op = "id_map_update" /\ r.res = "Ok") => IdentityWithFlags(r)']_vars

(***************************************************************************)
(* When map_and_read_phys returns, every byte it read lies in a page that  *)
(* is identity mapped: the first and last frame of the object are both     *)
(* mapped before the read.                                                 *)
(***************************************************************************)
ReadsAreIdentity ==
  [][\A r \in {ret'} : (r.op = "map_and_read" /\ r.res = "Ok") =>
        \A b \in r.addr .. (r.addr + r.len - 1) : IsIdentity(Cur, b \div B)']_vars

(***************************************************************************)
(* map_and_read_phys panics only when a page the read touches cannot be    *)
(* identity mapped, never because of a page outside the object.            *)
(***************************************************************************)
MapAndReadPanicsOnlyOnReadPages ==
  [][\A r \in {ret'} : (r.op = "map_and_read" /\ r.res = "panic") =>
        \E b \in r.addr .. (r.addr + r.len - 1) :
          IdMapIn(Cur, "4KiB", b \div B, {}).res # "Ok"]_vars

(***************************************************************************)
(* id_map_nocache_update_flags never panics: a mapping with other flags is *)
(* the recoverable case the variant exists for (spec 4.4 and 7).           *)
(***************************************************************************)
UpdateVariantNeverPanics ==
  [][ret'.op = "id_map_update" => ~panicked']_vars

(***************************************************************************)
(* id_map reports FrameAllocationFailed only when the allocator is out of  *)
(* frames (spec 7: frame-allocation-failed is resource exhaustion).        *)
(***************************************************************************)
AllocFailureMeansExhausted ==
  [][\A r \in {ret'} : (r.op \in {"id_map", "id_map_update"} /\
                        r.res = "FrameAllocationFailed") => free' = 0]_vars

=============================================================================
