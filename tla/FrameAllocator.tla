---------------------------- MODULE FrameAllocator ----------------------------
(***************************************************************************)
(* BootInfoFrameAllocator of svm_kernel/src/memory.rs: a cursor `next`     *)
(* into the lazily computed sequence usable_frames::<T>() of frames of     *)
(* size T carved out of the usable regions of the boot memory map.  The    *)
(* 4 KiB allocator returns element `next` and advances the cursor by 1;    *)
(* the 2 MiB allocator returns element `next` of the 2 MiB sequence and    *)
(* advances the same cursor by 512, the number of 4 KiB frames in 2 MiB.   *)
(*                                                                         *)
(* Addresses are counted in 4 KiB units: the boot memory map's FrameRange  *)
(* stores frame numbers, so every region boundary is 4 KiB aligned.  A     *)
(* 2 MiB frame is BigUnits units.  The memory map is chosen in Init among  *)
(* all ordered, disjoint maps of at most MaxRegions regions below MaxAddr. *)
(***************************************************************************)
EXTENDS Naturals, Sequences, SequencesExt

CONSTANTS
  BigUnits,    \* 4 KiB units in a 2 MiB frame (Size2MiB::SIZE / Size4KiB::SIZE)
  MaxAddr,     \* memory map addresses range over 0..MaxAddr
  MaxRegions,  \* memory maps have at most this many regions
  MaxNext      \* bound on the cursor

ASSUME AllocatorAssumption ==
  /\ BigUnits \in Nat \ {0, 1}
  /\ MaxAddr \in Nat /\ MaxRegions \in Nat /\ MaxNext \in Nat

SmallUnits == 1   \* Size4KiB::SIZE in 4 KiB units

RegionTypes == {"Usable", "Reserved"}

(* bootinfo::MemoryRegion (spec_modelled: memory_map.rs is not in this     *)
(* repository): a range [start, end) and a type.                           *)
Regions ==
  {[start |-> s, end |-> e, type |-> t] : s \in 0..MaxAddr, e \in 0..MaxAddr, t \in RegionTypes}
EmptyRegion == [start |-> 0, end |-> 0, type |-> "Empty"]

\* the boot memory map: regions disjoint and ordered by start address
MemoryMaps ==
  {m \in BoundedSeq({r \in Regions : r.start < r.end}, MaxRegions) :
     \A k \in 1..Len(m) - 1 : m[k].end <= m[k + 1].start}

-----------------------------------------------------------------------------
(* usable_frames::<T>, with sz the size of T                               *)

\* Fault, for the mutation runs: the end rounded up instead of down.
AdjustEndUp(r, sz) ==
  LET diff == (r.end - r.start) % sz IN
  IF diff # 0 THEN [r EXCEPT !.end = r.end + (sz - diff)] ELSE r

\* "Reduce frame range to fit into 2Mb pages": shorten the end by size % sz
AdjustEnd(r, sz) ==
  LET diff == (r.end - r.start) % sz IN
  IF diff # 0 THEN [r EXCEPT !.end = r.end - diff] ELSE r

\* "Increase the start of frame range to fit into alignment"
AdjustStart(r, sz) ==
  LET rest == r.start % sz
      new  == r.start + (sz - rest)
  IN  IF rest = 0 THEN r
      ELSE IF new > r.end THEN EmptyRegion
      ELSE [r EXCEPT !.start = new]

\* regions smaller than sz are dropped; the rest become start, start + sz,
\* ... below end (Range::step_by)
\* Fault, for the mutation runs: an inclusive range start..=end.
RegionFramesInclusive(r, sz) ==
  IF r.end - r.start >= sz
  THEN [k \in 1..((r.end - r.start + sz) \div sz) |-> r.start + (k - 1) * sz]
  ELSE <<>>

RegionFrames(r, sz) ==
  IF r.end - r.start >= sz
  THEN [k \in 1..((r.end - r.start + sz - 1) \div sz) |-> r.start + (k - 1) * sz]
  ELSE <<>>

\* Fault, for the mutation runs: the region type filter dropped.
UsableFramesOfAnyType(mm, sz) ==
  FlattenSeq([k \in 1..Len(mm) |-> RegionFrames(AdjustStart(AdjustEnd(mm[k], sz), sz), sz)])

UsableFramesOf(mm, sz) ==
  FlattenSeq([k \in 1..Len(mm) |->
                IF mm[k].type = "Usable"
                THEN RegionFrames(AdjustStart(AdjustEnd(mm[k], sz), sz), sz)
                ELSE <<>>])

(* Reference: the sz-aligned frames lying wholly inside a usable region;   *)
(* a frame sequence enumerates them when it lists each once, in increasing *)
(* order.                                                                  *)
InUsable(mm, a, sz) ==
  \E k \in 1..Len(mm) : mm[k].type = "Usable" /\ mm[k].start <= a /\ a + sz <= mm[k].end

RefFrames(mm, sz) == {a \in 0..MaxAddr : a % sz = 0 /\ InUsable(mm, a, sz)}

Enumerates(fs, X) ==
  /\ ToSet(fs) = X
  /\ \A k \in 1..Len(fs) - 1 : fs[k] < fs[k + 1]

-----------------------------------------------------------------------------
VARIABLES
  memmap,  \* BootInfoFrameAllocator.memory_map (read only)
  next,    \* BootInfoFrameAllocator.next
  handed   \* history: the frames returned so far, as <<start, size>>

vars == <<memmap, next, handed>>

Init ==
  /\ memmap \in MemoryMaps
  /\ next = 0
  /\ handed = <<>>

\* allocate_frame of FrameAllocator<Size4KiB> / <Size2MiB>: nth(next), then
\* next += SIZE / Size4KiB::SIZE, whether or not a frame was found
Allocate(sz) ==
  LET fs == UsableFramesOf(memmap, sz) IN
  /\ next < MaxNext
  /\ next' = next + sz \div SmallUnits
  /\ handed' = IF next < Len(fs) THEN Append(handed, <<fs[next + 1], sz>>) ELSE handed
  /\ UNCHANGED memmap

Allocate4KiB == Allocate(SmallUnits)
Allocate2MiB == Allocate(BigUnits)

Next == Allocate4KiB \/ Allocate2MiB

Spec == Init /\ [][Next]_vars

-----------------------------------------------------------------------------
(* Properties                                                              *)

\* Every variable has its expected shape.
TypeOK ==
  /\ memmap \in MemoryMaps
  /\ next \in Nat
  /\ handed \in Seq((0..MaxAddr) \X {SmallUnits, BigUnits})

(***************************************************************************)
(* The 4 KiB frame sequence is exactly the 4 KiB frames of the usable      *)
(* regions in address order: the filter, the alignment adjustments and     *)
(* the flattening of usable_frames lose or invent no frame.                *)
(***************************************************************************)
SmallFramesMatchReference ==
  Enumerates(UsableFramesOf(memmap, SmallUnits), RefFrames(memmap, SmallUnits))

(***************************************************************************)
(* No two frames the allocator returns overlap, whatever their sizes (the  *)
(* shared cursor is meant to keep the size classes consistent).            *)
(***************************************************************************)
Overlap(x, y) == x[1] < y[1] + y[2] /\ y[1] < x[1] + x[2]

HandedFramesDisjoint ==
  \A i, j \in 1..Len(handed) : i # j => ~Overlap(handed[i], handed[j])

(***************************************************************************)
(* Every frame the allocator returns, of either size, lies wholly inside   *)
(* one usable region of the memory map.                                    *)
(***************************************************************************)
HandedFramesUsable ==
  \A i \in 1..Len(handed) : InUsable(memmap, handed[i][1], handed[i][2])

-----------------------------------------------------------------------------
(* The allocator as the page-table mapper uses it: 4 KiB calls only.       *)
Spec4KiB == Init /\ [][Allocate4KiB]_vars

\* the refinement mapping: the 4 KiB frames handed out, and whether a call
\* has run past the end of the frame sequence (and so returned None)
GivenFrames == {handed[i][1] : i \in {i \in 1..Len(handed) : handed[i][2] = SmallUnits}}
RanOut == next > Len(UsableFramesOf(memmap, SmallUnits))

Source == INSTANCE FrameSource WITH given <- GivenFrames, failed <- RanOut

(***************************************************************************)
(* BootInfoFrameAllocator implements FrameSource: every 4 KiB call returns *)
(* a fresh frame of a usable region, and returns None only once all of     *)
(* them are out (the cursor walks usable_frames, which must enumerate the  *)
(* usable frames completely and without repetition).                       *)
(***************************************************************************)
AllocatorRefinesSource == Source!Spec

=============================================================================
