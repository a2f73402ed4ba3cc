------------------------- MODULE FrameAllocatorProofs -------------------------
(***************************************************************************)
(* Proofs about the frame list usable_frames::<T> builds from one region   *)
(* of the boot memory map (memory.rs): the region's end is cut down to a   *)
(* whole number of frames, its start is rounded up to the next frame       *)
(* boundary, and the range is stepped by the frame size.                   *)
(*                                                                         *)
(* For a region whose start is aligned, for every frame size, the list     *)
(* names each aligned frame lying wholly inside the region once, in        *)
(* increasing order (AlignedRegionFrames).  For a region whose start is    *)
(* not aligned and whose length is a whole number of frames, the last      *)
(* frame listed overruns the region (UnalignedLastFrameOverruns).  The     *)
(* argument is arithmetic on division with remainder, kept in small        *)
(* lemmas so that each solver call sees no more than it needs.             *)
(*                                                                         *)
(* What the whole map yields is a concatenation over the regions           *)
(* (FlattenSeq, a recursive function); its value over arbitrarily many     *)
(* regions needs induction over the map, which stays with TLC.             *)
(***************************************************************************)
EXTENDS FrameAllocator, TLAPS

\* 4 KiB frames (one unit): every region is kept whole and every address of
\* it is listed once, in order.
LEMMA SmallRegionFrames ==
  ASSUME NEW r \in Regions, r.start < r.end
  PROVE  RegionFrames(AdjustStart(AdjustEnd(r, SmallUnits), SmallUnits), SmallUnits)
           = [k \in 1 .. (r.end - r.start) |-> r.start + (k - 1)]
<1>1. AdjustEnd(r, SmallUnits) = r
  BY DEF AdjustEnd, SmallUnits, Regions
<1>2. AdjustStart(r, SmallUnits) = r
  BY DEF AdjustStart, SmallUnits, Regions
<1> QED BY <1>1, <1>2 DEF RegionFrames, SmallUnits, Regions

\* The frames usable_frames::<T> takes from one region, with sz the size of T.
FramesOfRegion(r, sz) == RegionFrames(AdjustStart(AdjustEnd(r, sz), sz), sz)

\* Division with remainder, with the quotient and the remainder named.
LEMMA DivMod ==
  ASSUME NEW L \in Nat, NEW sz \in Nat \ {0}
  PROVE  /\ L \div sz \in Nat /\ L % sz \in 0 .. sz - 1
         /\ L = (L \div sz) * sz + (L % sz)
BY SMT

\* The remainder of q * sz + d, for d below sz, is d.
LEMMA ModUnique ==
  ASSUME NEW sz \in Nat \ {0}, NEW q \in Nat, NEW d \in 0 .. sz - 1
  PROVE  (q * sz + d) % sz = d /\ (q * sz + d) \div sz = q
BY SMT

\* An aligned address stays aligned when whole frames are added.
LEMMA MultAligned ==
  ASSUME NEW a \in Nat, NEW m \in Nat, NEW sz \in Nat \ {0}, a % sz = 0
  PROVE  (a + m * sz) % sz = 0
<1>1. a = (a \div sz) * sz /\ a \div sz \in Nat
  BY DivMod
<1>2. PICK x \in Nat : a = x * sz
  BY <1>1
<1>3. a + m * sz = (x + m) * sz + 0 /\ x + m \in Nat
  BY <1>2, SMT
<1>4. ((x + m) * sz + 0) % sz = 0
  BY <1>3, ModUnique
<1> QED BY <1>3, <1>4

\* Two aligned addresses differ by a multiple of sz.
LEMMA AlignedDiff ==
  ASSUME NEW a \in Nat, NEW b \in Nat, NEW sz \in Nat \ {0},
         a % sz = 0, b % sz = 0, a <= b
  PROVE  \E m \in Nat : b = a + m * sz
<1>0. a = (a \div sz) * sz + (a % sz) /\ b = (b \div sz) * sz + (b % sz)
      /\ a \div sz \in Nat /\ b \div sz \in Nat
  BY DivMod
<1>1. a = (a \div sz) * sz /\ b = (b \div sz) * sz /\ a \div sz \in Nat /\ b \div sz \in Nat
  BY <1>0
<1>2. PICK x \in Nat, y \in Nat : a = x * sz /\ b = y * sz
  BY <1>1
<1>3. x <= y
  BY <1>2, SMT
<1>4. b = a + (y - x) * sz /\ y - x \in Nat
  BY <1>2, <1>3, SMT
<1> QED BY <1>4

\* Moving a term across an equation.
LEMMA MoveTerm ==
  ASSUME NEW a \in Int, NEW b \in Int, NEW c \in Int, NEW d \in Int, a - b = c + d
  PROVE  a - d - b = c
BY SMT

\* The frames of a region whose start is aligned, in closed form: the end is
\* cut down to the last whole frame, and the start stays.
LEMMA AlignedFramesForm ==
  ASSUME NEW r \in Regions, NEW sz \in Nat \ {0}, r.start < r.end, r.start % sz = 0
  PROVE  FramesOfRegion(r, sz) =
           [k \in 1 .. ((r.end - r.start) \div sz) |-> r.start + (k - 1) * sz]
<1>1. r.start \in Nat /\ r.end \in Nat /\ r.end - r.start \in Nat
  BY DEF Regions
<1>2. /\ (r.end - r.start) \div sz \in Nat
      /\ (r.end - r.start) % sz \in 0 .. sz - 1
      /\ r.end - r.start = ((r.end - r.start) \div sz) * sz + ((r.end - r.start) % sz)
  BY <1>1, DivMod, Zenon
<1>3. PICK q \in Nat, d \in 0 .. sz - 1 :
        /\ q = (r.end - r.start) \div sz /\ d = (r.end - r.start) % sz
  BY <1>2
<1>4. r.end - r.start = q * sz + d /\ q \in Nat /\ d \in 0 .. sz - 1
  BY <1>2, <1>3, Zenon
<1> SUFFICES FramesOfRegion(r, sz) = [k \in 1 .. q |-> r.start + (k - 1) * sz]
  BY <1>3
<1>5. AdjustEnd(r, sz).start = r.start /\ AdjustEnd(r, sz).end = r.end - d
  BY <1>3 DEF AdjustEnd, Regions
<1>6. AdjustStart(AdjustEnd(r, sz), sz) = AdjustEnd(r, sz)
  <2>1. AdjustEnd(r, sz).start % sz = 0
    BY <1>5
  <2> QED BY <2>1 DEF AdjustStart
<1>7. r.end - d - r.start = q * sz
  <2>1. q * sz \in Int /\ d \in Int /\ r.start \in Int /\ r.end \in Int
    BY <1>1, <1>4
  <2>2. r.end - r.start = q * sz + d
    BY <1>4
  <2> QED BY <2>1, <2>2, MoveTerm, Zenon
<1>8. CASE q = 0
  <2>1. ~(r.end - d - r.start >= sz)
    BY <1>7, <1>8, SMT
  <2>2. FramesOfRegion(r, sz) = <<>>
    BY <1>5, <1>6, <2>1 DEF FramesOfRegion, RegionFrames
  <2>3. 1 .. q = {}
    BY <1>8
  <2> QED BY <2>2, <2>3
<1>9. CASE q # 0
  <2>1. r.end - d - r.start >= sz
    BY <1>7, <1>9, SMT
  <2>2. (q * sz + (sz - 1)) \div sz = q
    BY ModUnique
  <2>3. r.end - d - r.start + sz - 1 = q * sz + (sz - 1)
    BY <1>1, <1>7, SMT
  <2>4. (r.end - d - r.start + sz - 1) \div sz = q
    BY <2>2, <2>3
  <2> QED BY <1>5, <1>6, <2>1, <2>4 DEF FramesOfRegion, RegionFrames
<1> QED BY <1>8, <1>9

\* One frame more.
LEMMA NextFrame ==
  ASSUME NEW k \in Int, NEW sz \in Int
  PROVE  (k - 1) * sz + sz = k * sz
BY SMT

\* Multiplying by a frame size keeps the order of frame counts.
LEMMA MulLe ==
  ASSUME NEW x \in Nat, NEW y \in Nat, NEW sz \in Nat \ {0}
  PROVE  x <= y <=> x * sz <= y * sz
BY SMT

\* The sz-aligned frames lying wholly inside the region r.
FramesInside(r, sz) == {a \in Nat : a % sz = 0 /\ r.start <= a /\ a + sz <= r.end}

\* Each frame of the closed form lies wholly inside the region.
LEMMA ClosedFormInside ==
  ASSUME NEW r \in Regions, NEW sz \in Nat \ {0}, r.start % sz = 0,
         NEW q \in Nat, NEW d \in 0 .. sz - 1, r.end - r.start = q * sz + d,
         NEW k \in 1 .. q
  PROVE  r.start + (k - 1) * sz \in FramesInside(r, sz)
<1>1. r.start \in Nat /\ r.end \in Nat /\ k - 1 \in Nat /\ (k - 1) * sz \in Nat
  BY DEF Regions
<1>2. (r.start + (k - 1) * sz) % sz = 0
  BY <1>1, MultAligned
<1>3. k * sz <= q * sz /\ k * sz \in Nat /\ q * sz \in Nat
  BY MulLe
<1>4. r.start + (k - 1) * sz + sz = r.start + k * sz
  <2>1. (k - 1) * sz + sz = k * sz
    BY NextFrame
  <2> QED BY <1>1, <1>3, <2>1
<1>5. r.start + k * sz <= r.end
  BY <1>1, <1>3, SMT
<1> QED BY <1>1, <1>2, <1>4, <1>5 DEF FramesInside

\* Each aligned frame inside the region is one of the closed form.
LEMMA InsideClosedForm ==
  ASSUME NEW r \in Regions, NEW sz \in Nat \ {0}, r.start % sz = 0,
         NEW q \in Nat, NEW d \in 0 .. sz - 1, r.end - r.start = q * sz + d,
         NEW a \in FramesInside(r, sz)
  PROVE  \E k \in 1 .. q : a = r.start + (k - 1) * sz
<1>1. r.start \in Nat /\ r.end \in Nat /\ a \in Nat /\ a % sz = 0
      /\ r.start <= a /\ a + sz <= r.end
  BY DEF Regions, FramesInside
<1>2. PICK m \in Nat : a = r.start + m * sz
  BY <1>1, AlignedDiff
<1>3. (m + 1) * sz <= q * sz + d /\ m * sz \in Nat /\ q * sz \in Nat
  BY <1>1, <1>2, SMT
<1>4. (m + 1) * sz < (q + 1) * sz
  BY <1>3, SMT
<1>5. m + 1 <= q
  BY <1>4, MulLe
<1>6. a = r.start + ((m + 1) - 1) * sz /\ m + 1 \in 1 .. q
  BY <1>2, <1>5
<1> QED BY <1>6

(***************************************************************************)
(* For a region of the memory map whose start is aligned to the frame size *)
(* sz, usable_frames::<T> takes from it exactly the sz-aligned frames that *)
(* lie wholly inside it, each once and in increasing order, for every sz:  *)
(* AdjustEnd cuts the end down to the last whole frame, and the step_by    *)
(* range stops there.  (An unaligned start is the other case: AdjustEnd    *)
(* runs before AdjustStart, so the last frame can end past the region, as  *)
(* MCFrameAllocator_HandedFramesUsable.cfg shows.)                         *)
(***************************************************************************)
THEOREM AlignedRegionFrames ==
  ASSUME NEW r \in Regions, NEW sz \in Nat \ {0}, r.start < r.end, r.start % sz = 0
  PROVE  Enumerates(FramesOfRegion(r, sz), FramesInside(r, sz))
<1>1. r.start \in Nat /\ r.end \in Nat /\ r.end - r.start \in Nat
  BY DEF Regions
<1>2. /\ (r.end - r.start) \div sz \in Nat
      /\ (r.end - r.start) % sz \in 0 .. sz - 1
      /\ r.end - r.start = ((r.end - r.start) \div sz) * sz + ((r.end - r.start) % sz)
  BY <1>1, DivMod, Zenon
<1>3. PICK q \in Nat, d \in 0 .. sz - 1 :
        /\ q = (r.end - r.start) \div sz /\ d = (r.end - r.start) % sz
  BY <1>2
<1>4. r.end - r.start = q * sz + d
  BY <1>2, <1>3, Zenon
<1>5. FramesOfRegion(r, sz) = [k \in 1 .. q |-> r.start + (k - 1) * sz]
  BY <1>3, AlignedFramesForm
<1>6. Len(FramesOfRegion(r, sz)) = q
  BY <1>5
<1>7. ToSet(FramesOfRegion(r, sz)) = FramesInside(r, sz)
  <2>1. \A k \in 1 .. q : r.start + (k - 1) * sz \in FramesInside(r, sz)
    BY <1>4, ClosedFormInside
  <2>2. \A a \in FramesInside(r, sz) : \E k \in 1 .. q : a = r.start + (k - 1) * sz
    BY <1>4, InsideClosedForm
  <2>3. DOMAIN FramesOfRegion(r, sz) = 1 .. q
    BY <1>5
  <2>4. ASSUME NEW i \in 1 .. q PROVE FramesOfRegion(r, sz)[i] \in FramesInside(r, sz)
    BY <1>5, <2>1
  <2>5. ASSUME NEW a \in FramesInside(r, sz)
        PROVE  \E i \in 1 .. q : FramesOfRegion(r, sz)[i] = a
    BY <1>5, <2>2
  <2> QED BY <2>3, <2>4, <2>5 DEF ToSet
<1>8. \A k \in 1 .. Len(FramesOfRegion(r, sz)) - 1 :
        FramesOfRegion(r, sz)[k] < FramesOfRegion(r, sz)[k + 1]
  <2> SUFFICES ASSUME NEW k \in 1 .. q - 1
               PROVE  r.start + (k - 1) * sz < r.start + ((k + 1) - 1) * sz
    BY <1>5, <1>6
  <2> QED BY <1>1, SMT
<1> QED BY <1>7, <1>8 DEF Enumerates

\* q frames of size sz from the boundary after x * sz.
FramesFrom(x, q, sz) == [k \in 1 .. q |-> (x + 1) * sz + (k - 1) * sz]

\* The unaligned region in closed form: the start moves up to the next
\* boundary, the end stays, and q frames are listed (none when q = 1).
LEMMA UnalignedFramesForm ==
  ASSUME NEW r \in Regions, NEW sz \in Nat \ {0},
         NEW x \in Nat, NEW rest \in Nat, NEW q \in Nat \ {0},
         0 < rest, rest < sz, r.start = x * sz + rest, r.end - r.start = q * sz
  PROVE  /\ q = 1 => FramesOfRegion(r, sz) = <<>>
         /\ q # 1 => FramesOfRegion(r, sz) = FramesFrom(x, q, sz)
<1>1. r.start \in Nat /\ r.end \in Nat
  BY DEF Regions
<1>2. (r.end - r.start) % sz = 0
  <2>1. (q * sz + 0) % sz = 0
    BY ModUnique
  <2> QED BY <2>1
<1>3. AdjustEnd(r, sz) = r
  BY <1>2 DEF AdjustEnd
<1>4. r.start % sz = rest
  BY ModUnique
<1>5. r.start + (sz - rest) = (x + 1) * sz /\ (x + 1) * sz <= r.end
  <2>1. (x + 1) * sz = x * sz + sz /\ q * sz >= sz
    BY SMT
  <2> QED BY <2>1, <1>1, SMT
<1>6. AdjustStart(r, sz) = [r EXCEPT !.start = (x + 1) * sz]
  <2>1. r.start % sz # 0 /\ ~(r.start + (sz - (r.start % sz)) > r.end)
    BY <1>1, <1>4, <1>5, SMT
  <2>2. r.start + (sz - (r.start % sz)) = (x + 1) * sz
    BY <1>4, <1>5
  <2> QED BY <2>1, <2>2 DEF AdjustStart
<1>7. r.end - (x + 1) * sz = (q - 1) * sz + rest
  <2>1. (q - 1) * sz + sz = q * sz
    BY NextFrame
  <2> QED BY <1>1, <1>5, <2>1, SMT
<1>8. CASE q = 1
  <2>1. ~(r.end - (x + 1) * sz >= sz)
    BY <1>7, <1>8, SMT
  <2> QED BY <1>3, <1>6, <1>8, <2>1 DEF FramesOfRegion, RegionFrames
<1>9. CASE q # 1
  <2>1. (q - 1) * sz >= sz
    BY <1>9, SMT
  <2>2. r.end - (x + 1) * sz >= sz
    BY <1>7, <2>1, SMT
  <2>3. (q * sz + (rest - 1)) \div sz = q
    BY ModUnique
  <2>4. r.end - (x + 1) * sz + sz - 1 = q * sz + (rest - 1)
    <3>1. (q - 1) * sz + sz = q * sz
      BY NextFrame
    <3> QED BY <1>7, <3>1, SMT
  <2>5. (r.end - (x + 1) * sz + sz - 1) \div sz = q
    BY <2>3, <2>4
  <2> QED BY <1>3, <1>6, <1>9, <2>2, <2>5 DEF FramesOfRegion, RegionFrames, FramesFrom
<1> QED BY <1>8, <1>9

(***************************************************************************)
(* The other case, where the code goes wrong.  When a region's start is    *)
(* not aligned to sz and its length is a whole number of frames,           *)
(* AdjustEnd changes nothing and AdjustStart moves the start up alone, so  *)
(* the last frame usable_frames::<T> lists from it ends sz - start % sz    *)
(* units past the region's end; there is such a frame whenever the region  *)
(* is at least two frames long.  This holds for every frame size, 2 MiB    *)
(* included (memory.rs, usable_frames: the end is reduced before the       *)
(* start is aligned).                                                      *)
(***************************************************************************)
THEOREM UnalignedLastFrameOverruns ==
  ASSUME NEW r \in Regions, NEW sz \in Nat \ {0}, r.start < r.end,
         r.start % sz # 0, (r.end - r.start) % sz = 0
  PROVE  /\ r.end - r.start >= 2 * sz => Len(FramesOfRegion(r, sz)) > 0
         /\ Len(FramesOfRegion(r, sz)) > 0 =>
              r.end < FramesOfRegion(r, sz)[Len(FramesOfRegion(r, sz))] + sz
<1>1. r.start \in Nat /\ r.end \in Nat /\ r.end - r.start \in Nat \ {0}
  BY DEF Regions
<1>2. /\ r.start \div sz \in Nat /\ r.start % sz \in 0 .. sz - 1
      /\ r.start = (r.start \div sz) * sz + (r.start % sz)
      /\ (r.end - r.start) \div sz \in Nat
      /\ r.end - r.start = ((r.end - r.start) \div sz) * sz + ((r.end - r.start) % sz)
  BY <1>1, DivMod, Zenon
<1>3. PICK x \in Nat, rest \in 1 .. sz - 1, q \in Nat :
        /\ x = r.start \div sz /\ rest = r.start % sz /\ q = (r.end - r.start) \div sz
  BY <1>2
<1>4. r.start = x * sz + rest /\ r.end - r.start = q * sz + 0
  BY <1>2, <1>3, Zenon
<1>5. q \in Nat \ {0} /\ r.end - r.start = q * sz
  BY <1>1, <1>4, SMT
<1>0. /\ q = 1 => FramesOfRegion(r, sz) = <<>>
      /\ q # 1 => FramesOfRegion(r, sz) = FramesFrom(x, q, sz)
  <2>1. r.start = x * sz + rest
    BY <1>4
  <2>2. r.end - r.start = q * sz
    BY <1>5
  <2>3. q \in Nat \ {0}
    BY <1>5
  <2>4. rest \in Nat /\ 0 < rest /\ rest < sz
    BY <1>3
  <2>5. 0 < rest
    BY <2>4
  <2>6. rest < sz
    BY <2>4
  <2>7. rest \in Nat
    BY <2>4
  <2> QED BY ONLY <2>1, <2>2, <2>3, <2>5, <2>6, <2>7, UnalignedFramesForm, Zenon
<1>6. CASE q = 1
  <2>1. FramesOfRegion(r, sz) = <<>>
    BY <1>0, <1>6
  <2>2. ~(r.end - r.start >= 2 * sz)
    BY <1>5, <1>6, SMT
  <2> QED BY <2>1, <2>2
<1>7. CASE q # 1
  <2>1. FramesOfRegion(r, sz) = [k \in 1 .. q |-> (x + 1) * sz + (k - 1) * sz]
    BY <1>0, <1>7 DEF FramesFrom
  <2>2. Len(FramesOfRegion(r, sz)) = q /\ q > 0
    BY <1>5, <2>1
  <2>3. FramesOfRegion(r, sz)[q] = (x + 1) * sz + (q - 1) * sz
    BY <1>5, <2>1
  <2>4. (x + 1) * sz + (q - 1) * sz + sz = r.end + (sz - rest)
    <3>1. (q - 1) * sz + sz = q * sz /\ (x + 1) * sz = x * sz + sz
      BY NextFrame, SMT
    <3> QED BY <1>1, <1>4, <1>5, <3>1, SMT
  <2>5. FramesOfRegion(r, sz)[Len(FramesOfRegion(r, sz))] + sz = r.end + (sz - rest)
    BY <2>2, <2>3, <2>4
  <2>6. r.end < r.end + (sz - rest)
    BY <1>1, <1>3, SMT
  <2> QED BY <2>2, <2>5, <2>6
<1> QED BY <1>6, <1>7
=============================================================================
