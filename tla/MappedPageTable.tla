--------------------------- MODULE MappedPageTable ---------------------------
(***************************************************************************)
(* The two-level page-table mapper of the x86 crate                        *)
(* (crates/x86/src/structures/paging/mapper/mapped_page_table.rs): a level *)
(* 2 table whose entries are unused, point to a level 1 table, or map a    *)
(* 4 MiB huge page; the PageTableWalker that follows or creates level 1    *)
(* tables; and the Mapper<Size4KiB> / Mapper<Size4MiB> operations.         *)
(*                                                                         *)
(* Physical addresses are counted in 4 KiB units, so every entry address   *)
(* is 4 KiB aligned (the entry's address field keeps only those bits).     *)
(* A virtual 4 KiB page is a pair <<i2, i1>> of table indices; a 4 MiB     *)
(* page is its level 2 index i2.  Physical memory is modelled only where   *)
(* it can be read as a level 1 table: the frames the allocator hands out   *)
(* and the 4 MiB frames callers map (a P2 entry can be turned into a table *)
(* pointer to one of those).  Memory that was never written by the mapper  *)
(* holds arbitrary bits, modelled as a present entry to JunkAddr.          *)
(*                                                                         *)
(* The frame allocator is BootInfoFrameAllocator used at 4 KiB size        *)
(* (svm_kernel/src/memory.rs): the n-th call returns the n-th element of   *)
(* a fixed sequence of usable frames, and advances its cursor even when    *)
(* the sequence is exhausted.                                              *)
(***************************************************************************)
EXTENDS Naturals, Sequences, FiniteSets

CONSTANTS
  P2Idx,          \* level 2 indices of the pages considered
  P1Idx,          \* level 1 indices of the pages considered
  HugeUnits,      \* 4 KiB units in a 4 MiB frame (alignment of huge frames)
  Frames4K,       \* 4 KiB frames callers map
  Frames4M,       \* 4 MiB frames callers map (multiples of HugeUnits)
  UsableFrames,   \* the allocator's sequence of usable 4 KiB frames
  FlagSets,       \* flag sets callers pass for a mapping
  ParentFlagSets, \* flag sets callers pass for created parent entries
  JunkAddr,       \* address field of a stale entry in unwritten memory
  MaxNext,        \* bound on the allocator cursor
  NoIdx           \* level 1 index recorded for an operation on a 4 MiB page

PRESENT    == "PRESENT"
WRITABLE   == "WRITABLE"
NO_CACHE   == "NO_CACHE"
NO_EXECUTE == "NO_EXECUTE"
HUGE_PAGE  == "HUGE_PAGE"
FlagBits   == {PRESENT, WRITABLE, NO_CACHE, NO_EXECUTE, HUGE_PAGE}

AllocFrames == {UsableFrames[k] : k \in 1..Len(UsableFrames)}
MemFrames   == AllocFrames \cup Frames4M

ASSUME IndexAssumption ==
  IsFiniteSet(P2Idx) /\ IsFiniteSet(P1Idx) /\ NoIdx \notin P2Idx \cup P1Idx
ASSUME HugeAssumption  == HugeUnits \in Nat \ {0}
ASSUME FrameAssumption ==
  /\ Frames4K \subseteq Nat /\ Frames4M \subseteq Nat
  /\ \A f \in Frames4M : f % HugeUnits = 0
  /\ UsableFrames \in Seq(Nat)
  \* the allocator hands out each frame once (the memory map's regions are
  \* disjoint) and never a frame a caller maps as data
  /\ \A k, l \in 1..Len(UsableFrames) : UsableFrames[k] = UsableFrames[l] => k = l
  /\ AllocFrames \cap (Frames4K \cup Frames4M) = {}
  /\ JunkAddr \in Nat \ (Frames4K \cup Frames4M \cup AllocFrames)
ASSUME FlagAssumption ==
  \* every caller passes PRESENT, and HUGE_PAGE only through the huge-page
  \* operations (PageTableEntry::set_frame refuses it)
  /\ FlagSets \subseteq SUBSET (FlagBits \ {HUGE_PAGE})
  /\ ParentFlagSets \subseteq SUBSET (FlagBits \ {HUGE_PAGE})
  /\ \A g \in FlagSets \cup ParentFlagSets : PRESENT \in g
ASSUME BoundAssumption == MaxNext \in Nat

VARIABLES
  p2,    \* the level 2 table: P2Idx -> entry
  mem,   \* contents of physical frames read as level 1 tables
  next,  \* BootInfoFrameAllocator.next
  ret    \* the last operation, its inputs and its result

vars == <<p2, mem, next, ret>>

-----------------------------------------------------------------------------
(* PageTableEntry (spec_modelled: page_table.rs is not in this repository) *)

Entry(a, f) == [addr |-> a, flags |-> f]
UnusedEntry == Entry(0, {})
JunkEntry   == Entry(JunkAddr, {PRESENT})
Entries     == [addr : Nat, flags : SUBSET FlagBits]

IsUnused(e) == e = UnusedEntry

\* PageTableEntry::frame, as PageTableWalker::next_table reports it
WalkResult(e) ==
  IF PRESENT \notin e.flags THEN "NotMapped"
  ELSE IF HUGE_PAGE \in e.flags THEN "MappedToHugePage"
  ELSE "Ok"

\* a failed walk as an UnmapError / FlagUpdateError (From<PageTableWalkError>)
WalkError(w) == IF w = "NotMapped" THEN "PageNotMapped" ELSE "ParentEntryHugePage"

ZeroTable == [i \in P1Idx |-> UnusedEntry]

\* PhysFrame::<Size4MiB>::containing_address
Containing4M(a) == a - (a % HugeUnits)

-----------------------------------------------------------------------------
(* Translate::translate on an address of the 4 KiB page <<i2, i1>>         *)

NotMappedResult == [kind |-> "NotMapped", size |-> "none", frame |-> 0, flags |-> {}]
Mapped(sz, f, g) == [kind |-> "Mapped", size |-> sz, frame |-> f, flags |-> g]

Translate(i2, i1) ==
  LET e2 == p2[i2] IN
  CASE WalkResult(e2) = "NotMapped" -> NotMappedResult
    [] WalkResult(e2) = "MappedToHugePage" ->
         Mapped("4MiB", Containing4M(e2.addr), e2.flags)
    [] OTHER ->
         LET e1 == mem[e2.addr][i1] IN
         IF IsUnused(e1) THEN NotMappedResult
         ELSE Mapped("4KiB", e1.addr, e1.flags)

Pages == P2Idx \X P1Idx

-----------------------------------------------------------------------------
Init ==
  /\ p2 = [i \in P2Idx |-> UnusedEntry]
  \* no frame has been written by the mapper yet: each holds stale bits
  /\ mem = [t \in MemFrames |-> [i \in P1Idx |-> JunkEntry]]
  /\ next = 0
  /\ ret = [op |-> "none", i2 |-> NoIdx, i1 |-> NoIdx, frame |-> 0,
            flags |-> {}, res |-> "none"]

Ret(op, i2, i1, f, g, res) ==
  ret' = [op |-> op, i2 |-> i2, i1 |-> i1, frame |-> f, flags |-> g, res |-> res]

\* FrameAllocator<Size4KiB>::allocate_frame of BootInfoFrameAllocator
AllocateFrame == IF next < Len(UsableFrames) THEN UsableFrames[next + 1] ELSE 0 - 1

(***************************************************************************)
(* Mapper<Size4MiB>::map_to_with_table_flags (map_to_4mib): refuses a used *)
(* P2 entry, else installs the frame with HUGE_PAGE forced.                *)
(***************************************************************************)
Map4MiB(i2, f, g) ==
  /\ \/ /\ ~IsUnused(p2[i2])
        /\ Ret("map4M", i2, NoIdx, f, g, "PageAlreadyMapped")
        /\ UNCHANGED p2
     \/ /\ IsUnused(p2[i2])
        /\ p2' = [p2 EXCEPT ![i2] = Entry(f, g \cup {HUGE_PAGE})]
        /\ Ret("map4M", i2, NoIdx, f, g, "Ok")
  /\ UNCHANGED <<mem, next>>

(***************************************************************************)
(* PageTableWalker::create_next_table on p2[i2] followed by the rest of    *)
(* map_to_4kib.  An unused entry gets a fresh frame from the allocator,    *)
(* which is zeroed; a used one has the parent flags merged into it before  *)
(* it is followed.  pg contains PRESENT, so the walk's "entry should be    *)
(* mapped at this point" panic cannot fire.                                *)
(***************************************************************************)
MergedFlags(e, pg) ==
  IF pg # {} /\ ~(pg \subseteq e.flags) THEN e.flags \cup pg ELSE e.flags

(* Faults of create_next_table, for the mutation runs: the allocator's     *)
(* None taken for a frame, the cursor not advanced, the new table not      *)
(* zeroed.                                                                 *)
Map4KiBCreateUnchecked(i2, i1, f, g, pg) ==
  /\ IsUnused(p2[i2]) /\ next < MaxNext /\ next' = next + 1
  /\ p2' = [p2 EXCEPT ![i2] = Entry(AllocateFrame, pg)]
  /\ mem' = [mem EXCEPT ![AllocateFrame] = [ZeroTable EXCEPT ![i1] = Entry(f, g)]]
  /\ Ret("map4K", i2, i1, f, g, "Ok")

Map4KiBCreateNoAdvance(i2, i1, f, g, pg) ==
  /\ IsUnused(p2[i2]) /\ next < MaxNext /\ UNCHANGED next
  /\ LET t == AllocateFrame IN
     IF t < 0 THEN Ret("map4K", i2, i1, f, g, "FrameAllocationFailed") /\ UNCHANGED <<p2, mem>>
     ELSE /\ p2' = [p2 EXCEPT ![i2] = Entry(t, pg)]
          /\ mem' = [mem EXCEPT ![t] = [ZeroTable EXCEPT ![i1] = Entry(f, g)]]
          /\ Ret("map4K", i2, i1, f, g, "Ok")

Map4KiBCreateNoZero(i2, i1, f, g, pg) ==
  /\ IsUnused(p2[i2]) /\ next < MaxNext /\ next' = next + 1
  /\ LET t == AllocateFrame IN
     IF t < 0 THEN Ret("map4K", i2, i1, f, g, "FrameAllocationFailed") /\ UNCHANGED <<p2, mem>>
     ELSE /\ p2' = [p2 EXCEPT ![i2] = Entry(t, pg)]
          /\ mem' = [mem EXCEPT ![t][i1] = Entry(f, g)]
          /\ Ret("map4K", i2, i1, f, g, "Ok")

Map4KiBCreate(i2, i1, f, g, pg) ==
  /\ IsUnused(p2[i2])
  /\ next < MaxNext
  /\ next' = next + 1
  /\ LET t == AllocateFrame IN
     IF t < 0
     THEN /\ Ret("map4K", i2, i1, f, g, "FrameAllocationFailed")
          /\ UNCHANGED <<p2, mem>>
     ELSE /\ p2' = [p2 EXCEPT ![i2] = Entry(t, pg)]
          /\ mem' = [mem EXCEPT ![t] = [ZeroTable EXCEPT ![i1] = Entry(f, g)]]
          /\ Ret("map4K", i2, i1, f, g, "Ok")

\* Fault of map_to_4kib, for the mutation runs: no is_unused check on the
\* level 1 entry, so a mapped page is overwritten.
Map4KiBExistingOverwrite(i2, i1, f, g, pg) ==
  /\ ~IsUnused(p2[i2])
  /\ LET e == Entry(p2[i2].addr, MergedFlags(p2[i2], pg)) IN
     /\ p2' = [p2 EXCEPT ![i2] = e]
     /\ IF WalkResult(e) = "MappedToHugePage" THEN
          Ret("map4K", i2, i1, f, g, "ParentEntryHugePage") /\ UNCHANGED mem
        ELSE /\ mem' = [mem EXCEPT ![e.addr][i1] = Entry(f, g)]
             /\ Ret("map4K", i2, i1, f, g, "Ok")
  /\ UNCHANGED next

Map4KiBExisting(i2, i1, f, g, pg) ==
  /\ ~IsUnused(p2[i2])
  /\ LET e == Entry(p2[i2].addr, MergedFlags(p2[i2], pg)) IN
     /\ p2' = [p2 EXCEPT ![i2] = e]
     /\ IF WalkResult(e) = "MappedToHugePage" THEN
          Ret("map4K", i2, i1, f, g, "ParentEntryHugePage") /\ UNCHANGED mem
        ELSE IF ~IsUnused(mem[e.addr][i1]) THEN
          Ret("map4K", i2, i1, f, g, "PageAlreadyMapped") /\ UNCHANGED mem
        ELSE /\ mem' = [mem EXCEPT ![e.addr][i1] = Entry(f, g)]
             /\ Ret("map4K", i2, i1, f, g, "Ok")
  /\ UNCHANGED next

Map4KiB(i2, i1, f, g, pg) ==
  Map4KiBCreate(i2, i1, f, g, pg) \/ Map4KiBExisting(i2, i1, f, g, pg)

(***************************************************************************)
(* Mapper<Size4MiB>::unmap: not present, not huge, or a frame address that *)
(* is not 4 MiB aligned are refused; otherwise the entry is cleared and    *)
(* its frame returned.                                                     *)
(***************************************************************************)
Unmap4MiB(i2) ==
  LET e == p2[i2] IN
  /\ IF PRESENT \notin e.flags THEN
       Ret("unmap4M", i2, NoIdx, 0, {}, "PageNotMapped") /\ UNCHANGED p2
     ELSE IF HUGE_PAGE \notin e.flags THEN
       Ret("unmap4M", i2, NoIdx, 0, {}, "ParentEntryHugePage") /\ UNCHANGED p2
     ELSE IF e.addr % HugeUnits # 0 THEN
       Ret("unmap4M", i2, NoIdx, 0, {}, "InvalidFrameAddress") /\ UNCHANGED p2
     ELSE /\ p2' = [p2 EXCEPT ![i2] = UnusedEntry]
          /\ Ret("unmap4M", i2, NoIdx, e.addr, {}, "Ok")
  /\ UNCHANGED <<mem, next>>

(* Mapper<Size4MiB>::update_flags: any used P2 entry gets g | HUGE_PAGE.   *)
UpdateFlags4MiB(i2, g) ==
  /\ \/ /\ IsUnused(p2[i2])
        /\ Ret("update4M", i2, NoIdx, 0, g, "PageNotMapped")
        /\ UNCHANGED p2
     \/ /\ ~IsUnused(p2[i2])
        /\ p2' = [p2 EXCEPT ![i2].flags = g \cup {HUGE_PAGE}]
        /\ Ret("update4M", i2, NoIdx, p2[i2].addr, g, "Ok")
  /\ UNCHANGED <<mem, next>>

(* Mapper<Size4KiB>::set_flags_p2_entry: any used P2 entry gets exactly g. *)
SetFlagsP2Entry4KiB(i2, g) ==
  /\ \/ /\ IsUnused(p2[i2])
        /\ Ret("setP2_4K", i2, NoIdx, 0, g, "PageNotMapped")
        /\ UNCHANGED p2
     \/ /\ ~IsUnused(p2[i2])
        /\ p2' = [p2 EXCEPT ![i2].flags = g]
        /\ Ret("setP2_4K", i2, NoIdx, p2[i2].addr, g, "Ok")
  /\ UNCHANGED <<mem, next>>

(***************************************************************************)
(* Mapper<Size4KiB>::unmap: next_table_mut on p2[i2], then                 *)
(* PageTableEntry::frame on the level 1 entry; success clears it.          *)
(***************************************************************************)
Unmap4KiB(i2, i1) ==
  LET e2 == p2[i2] IN
  /\ IF WalkResult(e2) # "Ok" THEN
       /\ Ret("unmap4K", i2, i1, 0, {}, WalkError(WalkResult(e2)))
       /\ UNCHANGED mem
     ELSE IF WalkResult(mem[e2.addr][i1]) # "Ok" THEN
       /\ Ret("unmap4K", i2, i1, 0, {}, WalkError(WalkResult(mem[e2.addr][i1])))
       /\ UNCHANGED mem
     ELSE /\ mem' = [mem EXCEPT ![e2.addr][i1] = UnusedEntry]
          /\ Ret("unmap4K", i2, i1, mem[e2.addr][i1].addr, {}, "Ok")
  /\ UNCHANGED <<p2, next>>

(* Mapper<Size4KiB>::update_flags: the level 1 entry must be used.         *)
UpdateFlags4KiB(i2, i1, g) ==
  LET e2 == p2[i2] IN
  /\ IF WalkResult(e2) # "Ok" THEN
       /\ Ret("update4K", i2, i1, 0, g, WalkError(WalkResult(e2)))
       /\ UNCHANGED mem
     ELSE IF IsUnused(mem[e2.addr][i1]) THEN
       Ret("update4K", i2, i1, 0, g, "PageNotMapped") /\ UNCHANGED mem
     ELSE /\ mem' = [mem EXCEPT ![e2.addr][i1].flags = g]
          /\ Ret("update4K", i2, i1, mem[e2.addr][i1].addr, g, "Ok")
  /\ UNCHANGED <<p2, next>>

-----------------------------------------------------------------------------
Next ==
  \/ \E i2 \in P2Idx, f \in Frames4M, g \in FlagSets : Map4MiB(i2, f, g)
  \/ \E i2 \in P2Idx, i1 \in P1Idx, f \in Frames4K, g \in FlagSets, pg \in ParentFlagSets :
       Map4KiB(i2, i1, f, g, pg)
  \/ \E i2 \in P2Idx : Unmap4MiB(i2)
  \/ \E i2 \in P2Idx, i1 \in P1Idx : Unmap4KiB(i2, i1)
  \/ \E i2 \in P2Idx, g \in FlagSets : UpdateFlags4MiB(i2, g) \/ SetFlagsP2Entry4KiB(i2, g)
  \/ \E i2 \in P2Idx, i1 \in P1Idx, g \in FlagSets : UpdateFlags4KiB(i2, i1, g)

Spec == Init /\ [][Next]_vars

-----------------------------------------------------------------------------
(* Properties                                                              *)

Ops     == {"none", "map4M", "map4K", "unmap4M", "unmap4K", "update4M",
            "setP2_4K", "update4K"}
Results == {"none", "Ok", "PageAlreadyMapped", "FrameAllocationFailed",
            "ParentEntryHugePage", "PageNotMapped", "InvalidFrameAddress"}

\* Every variable has its expected shape.
TypeOK ==
  /\ p2 \in [P2Idx -> Entries]
  /\ mem \in [MemFrames -> [P1Idx -> Entries]]
  /\ next \in 0..MaxNext
  /\ ret \in [op : Ops, i2 : P2Idx \cup {NoIdx}, i1 : P1Idx \cup {NoIdx},
              frame : Nat, flags : SUBSET FlagBits, res : Results]

(***************************************************************************)
(* A frame handed out by the allocator backs at most one level 2 entry:    *)
(* create_next_table never installs the same level 1 table under two       *)
(* indices, which needs the allocator's cursor to advance on every call    *)
(* and no operation to copy a table address into another entry.            *)
(***************************************************************************)
Refers(i, t) == ~IsUnused(p2[i]) /\ p2[i].addr = t

TableFramesExclusive ==
  \A t \in AllocFrames : \A i, j \in P2Idx : Refers(i, t) /\ Refers(j, t) => i = j

(***************************************************************************)
(* A page whose level 1 table was created by the walker translates only    *)
(* to a frame some map_to_4kib installed: the stale contents of a freshly  *)
(* allocated frame are never read as live entries (create_next_table      *)
(* zeroes the table it creates).                                           *)
(***************************************************************************)
NoStaleEntries ==
  \A p \in Pages :
    (WalkResult(p2[p[1]]) = "Ok" /\ p2[p[1]].addr \in AllocFrames) =>
      \/ Translate(p[1], p[2]).kind = "NotMapped"
      \/ Translate(p[1], p[2]).frame \in Frames4K

(***************************************************************************)
(* Each successful map, unmap and 4 KiB flag update moves the target page  *)
(* along the per-page state machine of the mapper's contract, as           *)
(* translate sees it: map from NotMapped to Mapped(frame, flags), unmap    *)
(* from Mapped(frame, _) to NotMapped returning that frame, update_flags   *)
(* from Mapped(frame, _) to Mapped(frame, flags).                          *)
(***************************************************************************)
Region(i2) == {<<i2, i1>> : i1 \in P1Idx}

OkStepFollowsContract(r) ==
  CASE r.op = "map4K" ->
         /\ Translate(r.i2, r.i1) = NotMappedResult
         /\ Translate(r.i2, r.i1)' = Mapped("4KiB", r.frame, r.flags)
    [] r.op = "map4M" ->
         \A p \in Region(r.i2) :
           /\ Translate(p[1], p[2]) = NotMappedResult
           /\ Translate(p[1], p[2])' = Mapped("4MiB", r.frame, r.flags \cup {HUGE_PAGE})
    [] r.op = "unmap4K" ->
         /\ Translate(r.i2, r.i1).kind = "Mapped"
         /\ Translate(r.i2, r.i1).frame = r.frame
         /\ Translate(r.i2, r.i1)' = NotMappedResult
    [] r.op = "unmap4M" ->
         \A p \in Region(r.i2) :
           /\ Translate(p[1], p[2]).kind = "Mapped"
           /\ Translate(p[1], p[2]).frame = r.frame
           /\ Translate(p[1], p[2])' = NotMappedResult
    [] r.op = "update4K" ->
         /\ Translate(r.i2, r.i1).kind = "Mapped"
         /\ Translate(r.i2, r.i1)' = Mapped("4KiB", r.frame, r.flags)
    [] OTHER -> TRUE

ResultsAgreeWithTranslate ==
  [][\A r \in {ret'} : r.res = "Ok" => OkStepFollowsContract(r)]_vars

(***************************************************************************)
(* A map that fails changes no page's translation (the contract: map is    *)
(* rejected from Mapped, never silently applied).                          *)
(***************************************************************************)
FailedMapKeepsTranslations ==
  [][(ret'.op \in {"map4K", "map4M"} /\ ret'.res # "Ok") =>
       \A p \in Pages : Translate(p[1], p[2])' = Translate(p[1], p[2])]_vars

(***************************************************************************)
(* A flag update (update_flags, set_flags_p2_entry) never changes whether  *)
(* a page is mapped or to which frame.                                     *)
(***************************************************************************)
FlagUpdatesKeepFrames ==
  [][ret'.op \in {"update4M", "setP2_4K", "update4K"} =>
       \A p \in Pages :
         /\ Translate(p[1], p[2])'.kind = Translate(p[1], p[2]).kind
         /\ Translate(p[1], p[2])'.frame = Translate(p[1], p[2]).frame]_vars

=============================================================================
