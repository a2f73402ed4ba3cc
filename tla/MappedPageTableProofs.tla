------------------------ MODULE MappedPageTableProofs ------------------------
(***************************************************************************)
(* Proofs about MappedPageTable for every value of its constants: the type *)
(* invariant, and that a frame handed out by the allocator backs at most   *)
(* one level 2 entry (TableFramesExclusive).                               *)
(*                                                                         *)
(* Neither is inductive on its own.  TypeOK needs to know that every used  *)
(* level 2 entry points into modelled memory (UsedAddrsInMemory), or the   *)
(* level 1 entry read through it has no known type.  TableFramesExclusive  *)
(* needs to know that every allocator frame a level 2 entry points to was  *)
(* handed out already (AllocatedBeforeUse): the frame create_next_table    *)
(* installs next is then, the sequence being injective, referenced by no   *)
(* entry.                                                                  *)
(*                                                                         *)
(* On the same invariant: every call that returns Ok leaves the page       *)
(* table translating as its contract says (ResultsAgree); and a map call   *)
(* that fails leaves the kind and the frame of every page's translation    *)
(* as they were (FailedMapKeepsFramesThm), which needs in addition that    *)
(* every used level 2 entry is PRESENT (UsedArePresent).                   *)
(***************************************************************************)
EXTENDS MappedPageTable, SequenceTheorems, TLAPS

UsedAddrsInMemory ==
  \A i \in P2Idx : ~IsUnused(p2[i]) => p2[i].addr \in MemFrames

AllocatedBeforeUse ==
  \A i \in P2Idx : (~IsUnused(p2[i]) /\ p2[i].addr \in AllocFrames) =>
    \E k \in 1..Len(UsableFrames) : k <= next /\ UsableFrames[k] = p2[i].addr

IInv == TypeOK /\ UsedAddrsInMemory /\ AllocatedBeforeUse /\ TableFramesExclusive

-----------------------------------------------------------------------------
LEMMA EntryTyped ==
  ASSUME NEW a \in Nat, NEW g \in SUBSET FlagBits
  PROVE  Entry(a, g) \in Entries
BY DEF Entry, Entries

LEMMA FlagSetsTyped ==
  FlagSets \subseteq SUBSET FlagBits /\ ParentFlagSets \subseteq SUBSET FlagBits
BY FlagAssumption

LEMMA AllocFramesTyped == AllocFrames \subseteq Nat /\ MemFrames \subseteq Nat
<1>1. \A k \in 1..Len(UsableFrames) : UsableFrames[k] \in Nat
  BY FrameAssumption, ElementOfSeq
<1> QED BY <1>1, FrameAssumption DEF AllocFrames, MemFrames

LEMMA InitIInv == Init => IInv
<1> SUFFICES ASSUME Init PROVE IInv
  OBVIOUS
<1>1. UnusedEntry \in Entries
  BY DEF UnusedEntry, Entry, Entries
<1>2. JunkEntry \in Entries
  BY FrameAssumption DEF JunkEntry, Entry, Entries, FlagBits
<1>3. TypeOK
  <2>1. p2 \in [P2Idx -> Entries]
    BY <1>1 DEF Init
  <2>2. mem \in [MemFrames -> [P1Idx -> Entries]]
    BY <1>2 DEF Init
  <2>3. next \in 0..MaxNext
    BY BoundAssumption DEF Init
  <2>4. ret \in [op : Ops, i2 : P2Idx \cup {NoIdx}, i1 : P1Idx \cup {NoIdx},
                 frame : Nat, flags : SUBSET FlagBits, res : Results]
    BY DEF Init, Ops, Results
  <2> QED BY <2>1, <2>2, <2>3, <2>4 DEF TypeOK
<1>4. UsedAddrsInMemory /\ AllocatedBeforeUse /\ TableFramesExclusive
  BY DEF Init, UsedAddrsInMemory, AllocatedBeforeUse, TableFramesExclusive, Refers, IsUnused
<1> QED BY <1>3, <1>4 DEF IInv

-----------------------------------------------------------------------------
(* Facts shared by the step proofs                                         *)

RetSet == [op : Ops, i2 : P2Idx \cup {NoIdx}, i1 : P1Idx \cup {NoIdx},
           frame : Nat, flags : SUBSET FlagBits, res : Results]

LEMMA RetTyped ==
  ASSUME NEW op \in Ops, NEW a \in P2Idx \cup {NoIdx}, NEW b \in P1Idx \cup {NoIdx},
         NEW f \in Nat, NEW g \in SUBSET FlagBits, NEW res \in Results,
         Ret(op, a, b, f, g, res)
  PROVE  ret' \in RetSet
BY DEF Ret, RetSet

\* A step that gives no level 2 entry a new address: each entry becomes
\* unused or keeps the address of a used entry.
NoNewRefs ==
  \A i \in P2Idx : IsUnused(p2'[i]) \/ (~IsUnused(p2[i]) /\ p2'[i].addr = p2[i].addr)

LEMMA NoNewRefsKeep ==
  ASSUME IInv, NoNewRefs, p2' \in [P2Idx -> Entries],
         next' \in Nat, next <= next'
  PROVE  UsedAddrsInMemory' /\ AllocatedBeforeUse' /\ TableFramesExclusive'
<1>1. UsedAddrsInMemory'
  BY DEF IInv, NoNewRefs, UsedAddrsInMemory
<1>2. AllocatedBeforeUse'
  <2> SUFFICES ASSUME NEW i \in P2Idx, ~IsUnused(p2'[i]), p2'[i].addr \in AllocFrames
               PROVE  \E k \in 1..Len(UsableFrames) : k <= next' /\ UsableFrames[k] = p2'[i].addr
    BY DEF AllocatedBeforeUse
  <2>1. ~IsUnused(p2[i]) /\ p2'[i].addr = p2[i].addr
    BY DEF NoNewRefs
  <2>2. PICK k \in 1..Len(UsableFrames) : k <= next /\ UsableFrames[k] = p2[i].addr
    BY <2>1 DEF IInv, AllocatedBeforeUse
  <2>3. next \in Nat
    BY DEF IInv, TypeOK
  <2> QED BY <2>1, <2>2, <2>3, FrameAssumption, LenProperties
<1>3. TableFramesExclusive'
  BY DEF IInv, NoNewRefs, TableFramesExclusive, Refers
<1> QED BY <1>1, <1>2, <1>3


LEMMA TypeStep ==
  ASSUME p2' \in [P2Idx -> Entries], mem' \in [MemFrames -> [P1Idx -> Entries]],
         next' \in 0..MaxNext, ret' \in RetSet
  PROVE  TypeOK'
BY DEF TypeOK, RetSet

\* Rewriting the flags of a used level 2 entry keeps its address.
LEMMA ReflagKeep ==
  ASSUME IInv, NEW i2 \in P2Idx, NEW g \in SUBSET FlagBits, ~IsUnused(p2[i2]),
         p2' = [p2 EXCEPT ![i2] = Entry(p2[i2].addr, g)]
  PROVE  p2' \in [P2Idx -> Entries] /\ NoNewRefs
<1>1. p2 \in [P2Idx -> Entries]
  BY DEF IInv, TypeOK
<1>2. Entry(p2[i2].addr, g) \in Entries
  BY <1>1, EntryTyped DEF Entries
<1>3. p2' \in [P2Idx -> Entries]
  BY <1>1, <1>2
<1>4. NoNewRefs
  BY <1>1 DEF NoNewRefs, Entry
<1> QED BY <1>3, <1>4

\* A step that leaves the level 2 table alone keeps IInv's reference facts.
LEMMA SameP2 ==
  ASSUME IInv, UNCHANGED p2
  PROVE  NoNewRefs /\ p2' \in [P2Idx -> Entries]
BY DEF IInv, TypeOK, NoNewRefs

-----------------------------------------------------------------------------
(* One lemma per operation: it preserves IInv                              *)

LEMMA Unmap4MiBStep ==
  ASSUME IInv, NEW i2 \in P2Idx, Unmap4MiB(i2)
  PROVE  IInv'
<1> DEFINE e == p2[i2]
<1>1. e \in Entries /\ e.addr \in Nat /\ p2 \in [P2Idx -> Entries]
  BY DEF IInv, TypeOK, Entries
<1>2. UnusedEntry \in Entries
  BY DEF UnusedEntry, Entry, Entries
<1>3. /\ p2' \in [P2Idx -> Entries]
      /\ NoNewRefs
      /\ ret' \in RetSet
  <2>1. CASE PRESENT \notin e.flags
    <3>1. Ret("unmap4M", i2, NoIdx, 0, {}, "PageNotMapped") /\ UNCHANGED p2
      BY <2>1 DEF Unmap4MiB
    <3> QED BY <3>1, <1>1, RetTyped DEF NoNewRefs, Ops, Results
  <2>2. CASE PRESENT \in e.flags /\ HUGE_PAGE \notin e.flags
    <3>1. Ret("unmap4M", i2, NoIdx, 0, {}, "ParentEntryHugePage") /\ UNCHANGED p2
      BY <2>2 DEF Unmap4MiB
    <3> QED BY <3>1, <1>1, RetTyped DEF NoNewRefs, Ops, Results
  <2>3. CASE PRESENT \in e.flags /\ HUGE_PAGE \in e.flags /\ e.addr % HugeUnits # 0
    <3>1. Ret("unmap4M", i2, NoIdx, 0, {}, "InvalidFrameAddress") /\ UNCHANGED p2
      BY <2>3 DEF Unmap4MiB
    <3> QED BY <3>1, <1>1, RetTyped DEF NoNewRefs, Ops, Results
  <2>4. CASE PRESENT \in e.flags /\ HUGE_PAGE \in e.flags /\ e.addr % HugeUnits = 0
    <3>1. /\ p2' = [p2 EXCEPT ![i2] = UnusedEntry]
          /\ Ret("unmap4M", i2, NoIdx, e.addr, {}, "Ok")
      BY <2>4 DEF Unmap4MiB
    <3>2. IsUnused(UnusedEntry)
      BY DEF IsUnused
    <3> QED BY <3>1, <3>2, <1>1, <1>2, RetTyped DEF NoNewRefs, Ops, Results
  <2> QED BY <2>1, <2>2, <2>3, <2>4
<1>4. UNCHANGED <<mem, next>>
  BY DEF Unmap4MiB
<1>5. TypeOK'
  BY <1>3, <1>4 DEF IInv, TypeOK, RetSet
<1> QED BY <1>3, <1>4, <1>5, NoNewRefsKeep DEF IInv, TypeOK

LEMMA FlagOpStep ==
  ASSUME IInv, NEW i2 \in P2Idx, NEW g \in FlagSets,
         UpdateFlags4MiB(i2, g) \/ SetFlagsP2Entry4KiB(i2, g)
  PROVE  IInv'
<1>1. p2 \in [P2Idx -> Entries] /\ g \in SUBSET FlagBits
  BY FlagSetsTyped DEF IInv, TypeOK
<1>2. UNCHANGED <<mem, next>>
  BY DEF UpdateFlags4MiB, SetFlagsP2Entry4KiB
<1>3. /\ p2' \in [P2Idx -> Entries]
      /\ NoNewRefs
      /\ ret' \in RetSet
  <2>1. CASE IsUnused(p2[i2])
    <3>1. UNCHANGED p2 /\ \E op \in Ops : Ret(op, i2, NoIdx, 0, g, "PageNotMapped")
      BY <2>1 DEF UpdateFlags4MiB, SetFlagsP2Entry4KiB, Ops
    <3> QED BY <3>1, <1>1, SameP2, RetTyped DEF Results
  <2>2. CASE ~IsUnused(p2[i2])
    <3> DEFINE h == IF UpdateFlags4MiB(i2, g) THEN g \cup {HUGE_PAGE} ELSE g
    <3>1. h \in SUBSET FlagBits
      BY <1>1 DEF FlagBits, HUGE_PAGE
    <3>2. p2[i2].addr \in Nat
      BY <1>1 DEF Entries
    <3>3. p2' = [p2 EXCEPT ![i2] = Entry(p2[i2].addr, h)]
      BY <2>2, <1>1 DEF UpdateFlags4MiB, SetFlagsP2Entry4KiB, Entry, Entries
    <3>4. \E op \in Ops : Ret(op, i2, NoIdx, p2[i2].addr, g, "Ok")
      BY <2>2 DEF UpdateFlags4MiB, SetFlagsP2Entry4KiB, Ops
    <3> QED BY <3>1, <3>2, <3>3, <3>4, <2>2, <1>1, ReflagKeep, RetTyped DEF Results
  <2> QED BY <2>1, <2>2
<1>4. TypeOK'
  BY <1>2, <1>3, TypeStep DEF IInv, TypeOK
<1> QED BY <1>2, <1>3, <1>4, NoNewRefsKeep DEF IInv, TypeOK

\* The level 1 table a walkable level 2 entry points to is modelled memory.
LEMMA WalkedTableTyped ==
  ASSUME IInv, NEW i2 \in P2Idx, NEW i1 \in P1Idx, WalkResult(p2[i2]) = "Ok"
  PROVE  /\ p2[i2].addr \in MemFrames
         /\ mem[p2[i2].addr][i1] \in Entries
<1>1. ~IsUnused(p2[i2])
  BY DEF WalkResult, IsUnused, UnusedEntry, Entry
<1>2. p2[i2].addr \in MemFrames
  BY <1>1 DEF IInv, UsedAddrsInMemory
<1> QED BY <1>2 DEF IInv, TypeOK

LEMMA L1OpStep ==
  ASSUME IInv, NEW i2 \in P2Idx, NEW i1 \in P1Idx, NEW g \in SUBSET FlagBits,
         Unmap4KiB(i2, i1) \/ UpdateFlags4KiB(i2, i1, g)
  PROVE  IInv'
<1>1. UNCHANGED <<p2, next>>
  BY DEF Unmap4KiB, UpdateFlags4KiB
<1>2. g \in SUBSET FlagBits /\ mem \in [MemFrames -> [P1Idx -> Entries]]
  BY FlagSetsTyped DEF IInv, TypeOK
<1>3. mem' \in [MemFrames -> [P1Idx -> Entries]] /\ ret' \in RetSet
  <2>1. CASE WalkResult(p2[i2]) # "Ok"
    <3>1. UNCHANGED mem /\ \E op \in Ops, f \in Nat, h \in SUBSET FlagBits, r \in Results :
                              Ret(op, i2, i1, f, h, r)
      BY <2>1, <1>2 DEF Unmap4KiB, UpdateFlags4KiB, WalkError, Ops, Results
    <3> QED BY <3>1, <1>2, RetTyped
  <2>2. CASE WalkResult(p2[i2]) = "Ok"
    <3> DEFINE a == p2[i2].addr
               e1 == mem[a][i1]
    <3>1. a \in MemFrames /\ e1 \in Entries
      BY <2>2, WalkedTableTyped
    <3>2. UnusedEntry \in Entries /\ [e1 EXCEPT !.flags = g] \in Entries
      BY <3>1, <1>2 DEF UnusedEntry, Entry, Entries
    <3>3. \/ UNCHANGED mem
          \/ mem' = [mem EXCEPT ![a][i1] = UnusedEntry]
          \/ mem' = [mem EXCEPT ![a][i1] = [e1 EXCEPT !.flags = g]]
      BY <2>2 DEF Unmap4KiB, UpdateFlags4KiB
    <3>4. mem' \in [MemFrames -> [P1Idx -> Entries]]
      <4>1. CASE UNCHANGED mem
        BY <4>1, <1>2
      <4>2. ASSUME NEW v \in Entries, mem' = [mem EXCEPT ![a][i1] = v]
            PROVE  mem' \in [MemFrames -> [P1Idx -> Entries]]
        BY <4>2, <3>1, <1>2
      <4> QED BY <3>2, <3>3, <4>1, <4>2
    <3>5. \E op \in Ops, f \in Nat, h \in SUBSET FlagBits, r \in Results :
            Ret(op, i2, i1, f, h, r)
      BY <2>2, <3>1, <1>2 DEF Unmap4KiB, UpdateFlags4KiB, WalkError, Ops, Results, Entries
    <3> QED BY <3>4, <3>5, RetTyped
  <2> QED BY <2>1, <2>2
<1>4. NoNewRefs /\ p2' \in [P2Idx -> Entries]
  BY <1>1, SameP2
<1>5. TypeOK'
  BY <1>1, <1>3, <1>4, TypeStep DEF IInv, TypeOK
<1> QED BY <1>1, <1>4, <1>5, NoNewRefsKeep DEF IInv, TypeOK

LEMMA Map4KiBExistingStep ==
  ASSUME IInv, NEW i2 \in P2Idx, NEW i1 \in P1Idx, NEW f \in Frames4K,
         NEW g \in FlagSets, NEW pg \in ParentFlagSets,
         Map4KiBExisting(i2, i1, f, g, pg)
  PROVE  IInv'
<1> DEFINE a == p2[i2].addr
           e == Entry(a, MergedFlags(p2[i2], pg))
<1>1. /\ p2 \in [P2Idx -> Entries]
      /\ mem \in [MemFrames -> [P1Idx -> Entries]]
      /\ g \in SUBSET FlagBits /\ pg \in SUBSET FlagBits /\ f \in Nat
  BY FlagSetsTyped, FrameAssumption DEF IInv, TypeOK
<1>2. ~IsUnused(p2[i2]) /\ a \in MemFrames
  BY DEF Map4KiBExisting, IInv, UsedAddrsInMemory
<1>3. MergedFlags(p2[i2], pg) \in SUBSET FlagBits
  BY <1>1 DEF MergedFlags, Entries
<1>4. p2' = [p2 EXCEPT ![i2] = e] /\ UNCHANGED next
  BY DEF Map4KiBExisting
<1>5. p2' \in [P2Idx -> Entries] /\ NoNewRefs
  BY <1>2, <1>3, <1>4, ReflagKeep
<1>6. Entry(f, g) \in Entries
  BY <1>1, EntryTyped
<1>7. mem' \in [MemFrames -> [P1Idx -> Entries]]
  <2>1. UNCHANGED mem \/ mem' = [mem EXCEPT ![a][i1] = Entry(f, g)]
    BY DEF Map4KiBExisting, Entry
  <2> QED BY <2>1, <1>1, <1>2, <1>6
<1>8. \E r \in Results : Ret("map4K", i2, i1, f, g, r)
  BY DEF Map4KiBExisting, Results
<1>9. ret' \in RetSet
  BY <1>1, <1>8, RetTyped DEF Ops
<1>10. TypeOK'
  BY <1>4, <1>5, <1>7, <1>9, TypeStep DEF IInv, TypeOK
<1> QED BY <1>4, <1>5, <1>10, NoNewRefsKeep DEF IInv, TypeOK

LEMMA Map4MiBStep ==
  ASSUME IInv, NEW i2 \in P2Idx, NEW f \in Frames4M, NEW g \in FlagSets,
         Map4MiB(i2, f, g)
  PROVE  IInv'
<1>1. /\ p2 \in [P2Idx -> Entries]
      /\ g \in SUBSET FlagBits /\ f \in Nat
      /\ f \in MemFrames /\ f \notin AllocFrames
  BY FlagSetsTyped, FrameAssumption DEF IInv, TypeOK, MemFrames
<1>2. UNCHANGED <<mem, next>>
  BY DEF Map4MiB
<1>3. ret' \in RetSet
  <2>1. \E r \in Results : Ret("map4M", i2, NoIdx, f, g, r)
    BY DEF Map4MiB, Results
  <2> QED BY <2>1, <1>1, RetTyped DEF Ops
<1>4. CASE ~IsUnused(p2[i2])
  <2>1. UNCHANGED p2
    BY <1>4 DEF Map4MiB
  <2>2. NoNewRefs /\ p2' \in [P2Idx -> Entries]
    BY <2>1, SameP2
  <2> QED BY <1>2, <1>3, <2>1, <2>2, TypeStep, NoNewRefsKeep DEF IInv, TypeOK
<1>5. CASE IsUnused(p2[i2])
  <2> DEFINE E == Entry(f, g \cup {HUGE_PAGE})
  <2>1. p2' = [p2 EXCEPT ![i2] = E]
    BY <1>5 DEF Map4MiB
  <2>2. E \in Entries /\ E.addr = f
    BY <1>1, EntryTyped DEF FlagBits, HUGE_PAGE, Entry
  <2>3. p2' \in [P2Idx -> Entries]
    BY <1>1, <2>1, <2>2
  <2>4. TypeOK'
    BY <1>2, <1>3, <2>3, TypeStep DEF IInv, TypeOK
  <2>5. UsedAddrsInMemory'
    BY <1>1, <2>1, <2>2 DEF IInv, UsedAddrsInMemory
  <2>6. AllocatedBeforeUse'
    BY <1>1, <1>2, <2>1, <2>2 DEF IInv, AllocatedBeforeUse
  <2>7. TableFramesExclusive'
    <3> SUFFICES ASSUME NEW t \in AllocFrames, NEW i \in P2Idx, NEW j \in P2Idx,
                        Refers(i, t)', Refers(j, t)'
                 PROVE  i = j
      BY DEF TableFramesExclusive
    <3>1. i # i2 /\ j # i2
      BY <1>1, <2>1, <2>2 DEF Refers
    <3>2. Refers(i, t) /\ Refers(j, t)
      BY <3>1, <2>1 DEF Refers
    <3> QED BY <3>2 DEF IInv, TableFramesExclusive
  <2> QED BY <2>4, <2>5, <2>6, <2>7 DEF IInv
<1> QED BY <1>4, <1>5

(* The frame create_next_table installs was never handed out before, so no *)
(* level 2 entry refers to it yet.                                         *)
LEMMA FreshFrameUnreferenced ==
  ASSUME IInv, next < Len(UsableFrames)
  PROVE  \A j \in P2Idx : ~Refers(j, UsableFrames[next + 1])
<1> SUFFICES ASSUME NEW j \in P2Idx, Refers(j, UsableFrames[next + 1]) PROVE FALSE
  OBVIOUS
<1>1. next \in Nat /\ UsableFrames \in Seq(Nat)
  BY FrameAssumption DEF IInv, TypeOK
<1>2. next + 1 \in 1..Len(UsableFrames)
  BY <1>1
<1>3. p2[j].addr \in AllocFrames /\ ~IsUnused(p2[j])
  BY <1>2 DEF Refers, AllocFrames
<1>4. PICK k \in 1..Len(UsableFrames) : k <= next /\ UsableFrames[k] = p2[j].addr
  BY <1>3 DEF IInv, AllocatedBeforeUse
<1>5. UsableFrames[k] = UsableFrames[next + 1]
  BY <1>4 DEF Refers
<1> QED BY <1>1, <1>2, <1>4, <1>5, FrameAssumption

LEMMA Map4KiBCreateStep ==
  ASSUME IInv, NEW i2 \in P2Idx, NEW i1 \in P1Idx, NEW f \in Frames4K,
         NEW g \in FlagSets, NEW pg \in ParentFlagSets,
         Map4KiBCreate(i2, i1, f, g, pg)
  PROVE  IInv'
<1>1. /\ p2 \in [P2Idx -> Entries]
      /\ mem \in [MemFrames -> [P1Idx -> Entries]]
      /\ g \in SUBSET FlagBits /\ pg \in SUBSET FlagBits /\ f \in Nat
      /\ next \in 0..MaxNext /\ UsableFrames \in Seq(Nat)
  BY FlagSetsTyped, FrameAssumption DEF IInv, TypeOK
<1>2. next' = next + 1 /\ next' \in 0..MaxNext /\ next <= next'
  <2>1. next < MaxNext /\ next' = next + 1
    BY DEF Map4KiBCreate
  <2> QED BY <2>1, <1>1, BoundAssumption
<1>3. ret' \in RetSet
  <2>1. \E r \in Results : Ret("map4K", i2, i1, f, g, r)
    BY DEF Map4KiBCreate, Results
  <2> QED BY <2>1, <1>1, RetTyped DEF Ops
<1>4. CASE next >= Len(UsableFrames)
  <2>1. AllocateFrame = 0 - 1
    BY <1>4, <1>1 DEF AllocateFrame
  <2>2. UNCHANGED <<p2, mem>>
    BY <2>1 DEF Map4KiBCreate
  <2>3. NoNewRefs /\ p2' \in [P2Idx -> Entries]
    BY <2>2, SameP2
  <2> QED BY <1>1, <1>2, <1>3, <2>2, <2>3, TypeStep, NoNewRefsKeep DEF IInv
<1>5. CASE next < Len(UsableFrames)
  <2> DEFINE t == UsableFrames[next + 1]
  <2>1. next + 1 \in 1..Len(UsableFrames) /\ t \in AllocFrames /\ t \in MemFrames /\ t \in Nat
    BY <1>5, <1>1, ElementOfSeq DEF AllocFrames, MemFrames
  <2>2. AllocateFrame = t /\ ~(t < 0)
    BY <1>5, <1>1, <2>1 DEF AllocateFrame
  <2>3. /\ p2' = [p2 EXCEPT ![i2] = Entry(t, pg)]
        /\ mem' = [mem EXCEPT ![t] = [ZeroTable EXCEPT ![i1] = Entry(f, g)]]
    BY <2>2 DEF Map4KiBCreate
  <2>4. Entry(t, pg) \in Entries /\ Entry(f, g) \in Entries /\ ZeroTable \in [P1Idx -> Entries]
    BY <1>1, <2>1, EntryTyped DEF ZeroTable, UnusedEntry
  <2>5. TypeOK'
    <3>1. p2' \in [P2Idx -> Entries]
      BY <1>1, <2>3, <2>4
    <3>2. mem' \in [MemFrames -> [P1Idx -> Entries]]
      BY <1>1, <2>1, <2>3, <2>4
    <3> QED BY <3>1, <3>2, <1>2, <1>3, TypeStep
  <2>6. UsedAddrsInMemory'
    BY <1>1, <2>1, <2>3 DEF IInv, UsedAddrsInMemory, Entry
  <2>7. AllocatedBeforeUse'
    <3> SUFFICES ASSUME NEW i \in P2Idx, ~IsUnused(p2'[i]), p2'[i].addr \in AllocFrames
                 PROVE  \E k \in 1..Len(UsableFrames) : k <= next' /\ UsableFrames[k] = p2'[i].addr
      BY DEF AllocatedBeforeUse
    <3>1. CASE i = i2
      BY <3>1, <1>1, <1>2, <2>1, <2>3 DEF Entry
    <3>2. CASE i # i2
      <4>1. p2'[i] = p2[i]
        BY <3>2, <2>3, <1>1
      <4>2. PICK k \in 1..Len(UsableFrames) : k <= next /\ UsableFrames[k] = p2[i].addr
        BY <4>1 DEF IInv, AllocatedBeforeUse
      <4> QED BY <4>1, <4>2, <1>1, <1>2
    <3> QED BY <3>1, <3>2
  <2>8. TableFramesExclusive'
    <3> SUFFICES ASSUME NEW u \in AllocFrames, NEW i \in P2Idx, NEW j \in P2Idx,
                        Refers(i, u)', Refers(j, u)', i # j
                 PROVE  FALSE
      BY DEF TableFramesExclusive
    <3>1. \A k \in P2Idx : k # i2 => (Refers(k, u)' <=> Refers(k, u))
      BY <2>3, <1>1 DEF Refers
    <3>2. Refers(i2, u)' => u = t
      BY <2>3, <1>1 DEF Refers, Entry
    <3>3. \A k \in P2Idx : ~Refers(k, t)
      BY <1>5, FreshFrameUnreferenced
    <3>4. CASE i = i2
      BY <3>4, <3>1, <3>2, <3>3
    <3>5. CASE j = i2
      BY <3>5, <3>1, <3>2, <3>3
    <3>6. CASE i # i2 /\ j # i2
      BY <3>6, <3>1 DEF IInv, TableFramesExclusive
    <3> QED BY <3>4, <3>5, <3>6
  <2> QED BY <2>5, <2>6, <2>7, <2>8 DEF IInv
<1> QED BY <1>4, <1>5, <1>1

-----------------------------------------------------------------------------
LEMMA NextIInv == IInv /\ [Next]_vars => IInv'
<1> SUFFICES ASSUME IInv, [Next]_vars PROVE IInv'
  OBVIOUS
<1>1. CASE \E i2 \in P2Idx, f \in Frames4M, g \in FlagSets : Map4MiB(i2, f, g)
  BY <1>1, Map4MiBStep
<1>2. CASE \E i2 \in P2Idx, i1 \in P1Idx, f \in Frames4K, g \in FlagSets,
              pg \in ParentFlagSets : Map4KiB(i2, i1, f, g, pg)
  BY <1>2, Map4KiBCreateStep, Map4KiBExistingStep DEF Map4KiB
<1>3. CASE \E i2 \in P2Idx : Unmap4MiB(i2)
  BY <1>3, Unmap4MiBStep
<1>4. CASE \E i2 \in P2Idx, i1 \in P1Idx : Unmap4KiB(i2, i1)
  <2>1. PICK i2 \in P2Idx, i1 \in P1Idx : Unmap4KiB(i2, i1)
    BY <1>4
  <2> QED BY <2>1, L1OpStep
<1>5. CASE \E i2 \in P2Idx, g \in FlagSets :
             UpdateFlags4MiB(i2, g) \/ SetFlagsP2Entry4KiB(i2, g)
  BY <1>5, FlagOpStep
<1>6. CASE \E i2 \in P2Idx, i1 \in P1Idx, g \in FlagSets : UpdateFlags4KiB(i2, i1, g)
  BY <1>6, L1OpStep, FlagSetsTyped
<1>7. CASE UNCHANGED vars
  BY <1>7 DEF vars, IInv, TypeOK, UsedAddrsInMemory, AllocatedBeforeUse,
              TableFramesExclusive, Refers
<1> QED BY <1>1, <1>2, <1>3, <1>4, <1>5, <1>6, <1>7 DEF Next

-----------------------------------------------------------------------------
(***************************************************************************)
(* NoStaleEntries.  A level 1 table the allocator handed out holds, while  *)
(* some level 2 entry points to it, only unused entries and entries to     *)
(* frames callers mapped (AllocTablesClean).  This is inductive together   *)
(* with IInv: create_next_table installs a zeroed table in a frame nobody  *)
(* refers to, and every other write into a table puts an unused entry, a   *)
(* caller's frame, or new flags on an entry that keeps its address.        *)
(***************************************************************************)
CleanEntry(e) == IsUnused(e) \/ e.addr \in Frames4K

AllocTablesClean ==
  \A t \in AllocFrames :
    (\E i \in P2Idx : Refers(i, t)) => \A i1 \in P1Idx : CleanEntry(mem[t][i1])

\* A step that makes no new reference keeps the tables clean when every
\* entry it writes into an allocator frame is unused, a caller's frame, or
\* a used entry that keeps its address.
LEMMA CleanKeep ==
  ASSUME AllocTablesClean, NoNewRefs,
         \A t \in AllocFrames, i1 \in P1Idx :
           \/ mem'[t][i1] = mem[t][i1]
           \/ CleanEntry(mem'[t][i1])
           \/ ~IsUnused(mem[t][i1]) /\ mem'[t][i1].addr = mem[t][i1].addr
  PROVE  AllocTablesClean'
<1> SUFFICES ASSUME NEW t \in AllocFrames, NEW i \in P2Idx, Refers(i, t)',
                    NEW i1 \in P1Idx
             PROVE  CleanEntry(mem'[t][i1])
  BY DEF AllocTablesClean
<1>1. Refers(i, t)
  BY DEF NoNewRefs, Refers
<1>2. CleanEntry(mem[t][i1])
  BY <1>1 DEF AllocTablesClean
<1> QED BY <1>2 DEF CleanEntry

LEMMA InitClean == Init => AllocTablesClean
BY DEF Init, AllocTablesClean, Refers, IsUnused

\* The operations on level 2 entries alone: unmap of a 4 MiB page and the
\* two flag updates only clear an entry or rewrite its flags.
LEMMA P2OpClean ==
  ASSUME IInv, AllocTablesClean, NEW i2 \in P2Idx, NEW g \in SUBSET FlagBits,
         \/ Unmap4MiB(i2)
         \/ UpdateFlags4MiB(i2, g)
         \/ SetFlagsP2Entry4KiB(i2, g)
  PROVE  AllocTablesClean'
<1>1. UNCHANGED mem /\ p2 \in [P2Idx -> Entries]
  BY DEF Unmap4MiB, UpdateFlags4MiB, SetFlagsP2Entry4KiB, IInv, TypeOK
<1>2. \/ UNCHANGED p2
      \/ p2' = [p2 EXCEPT ![i2] = UnusedEntry]
      \/ \E h : ~IsUnused(p2[i2]) /\ p2' = [p2 EXCEPT ![i2].flags = h]
  BY DEF Unmap4MiB, UpdateFlags4MiB, SetFlagsP2Entry4KiB
<1>3. NoNewRefs
  <2>1. CASE UNCHANGED p2
    BY <2>1 DEF NoNewRefs
  <2>2. CASE p2' = [p2 EXCEPT ![i2] = UnusedEntry]
    BY <2>2, <1>1 DEF NoNewRefs, IsUnused
  <2>3. ASSUME NEW h, ~IsUnused(p2[i2]), p2' = [p2 EXCEPT ![i2].flags = h]
        PROVE  NoNewRefs
    <3>1. p2'[i2].addr = p2[i2].addr
      BY <2>3, <1>1 DEF Entries
    <3> QED BY <2>3, <3>1, <1>1 DEF NoNewRefs
  <2> QED BY <1>2, <2>1, <2>2, <2>3
<1> QED BY <1>1, <1>3, CleanKeep

LEMMA Map4MiBClean ==
  ASSUME IInv, AllocTablesClean, NEW i2 \in P2Idx, NEW f \in Frames4M,
         NEW g \in FlagSets, Map4MiB(i2, f, g)
  PROVE  AllocTablesClean'
<1>1. f \notin AllocFrames /\ UNCHANGED mem /\ p2 \in [P2Idx -> Entries]
  BY FrameAssumption DEF Map4MiB, IInv, TypeOK
<1>2. \A i \in P2Idx, t \in AllocFrames : Refers(i, t)' => Refers(i, t)
  <2>1. CASE UNCHANGED p2
    BY <2>1 DEF Refers
  <2>2. CASE p2' = [p2 EXCEPT ![i2] = Entry(f, g \cup {HUGE_PAGE})]
    BY <2>2, <1>1 DEF Refers, Entry
  <2> QED BY <2>1, <2>2 DEF Map4MiB
<1> QED BY <1>1, <1>2 DEF AllocTablesClean

LEMMA Map4KiBExistingClean ==
  ASSUME IInv, AllocTablesClean, NEW i2 \in P2Idx, NEW i1 \in P1Idx,
         NEW f \in Frames4K, NEW g \in FlagSets, NEW pg \in ParentFlagSets,
         Map4KiBExisting(i2, i1, f, g, pg)
  PROVE  AllocTablesClean'
<1> DEFINE a == p2[i2].addr
<1>1. /\ p2 \in [P2Idx -> Entries]
      /\ mem \in [MemFrames -> [P1Idx -> Entries]]
      /\ pg \in SUBSET FlagBits
  BY FlagSetsTyped DEF IInv, TypeOK
<1>2. ~IsUnused(p2[i2]) /\ a \in MemFrames
  BY DEF Map4KiBExisting, IInv, UsedAddrsInMemory
<1>3. MergedFlags(p2[i2], pg) \in SUBSET FlagBits
  BY <1>1 DEF MergedFlags, Entries
<1>4. p2' \in [P2Idx -> Entries] /\ NoNewRefs
  <2>1. p2' = [p2 EXCEPT ![i2] = Entry(a, MergedFlags(p2[i2], pg))]
    BY DEF Map4KiBExisting
  <2> QED BY <1>2, <1>3, <2>1, ReflagKeep, Zenon
<1>5. UNCHANGED mem \/ mem' = [mem EXCEPT ![a][i1] = Entry(f, g)]
  BY DEF Map4KiBExisting, Entry
<1>6. CleanEntry(Entry(f, g))
  BY DEF CleanEntry, Entry
<1> QED BY <1>1, <1>2, <1>4, <1>5, <1>6, CleanKeep DEF MemFrames

LEMMA Map4KiBCreateClean ==
  ASSUME IInv, AllocTablesClean, NEW i2 \in P2Idx, NEW i1 \in P1Idx,
         NEW f \in Frames4K, NEW g \in FlagSets, NEW pg \in ParentFlagSets,
         Map4KiBCreate(i2, i1, f, g, pg)
  PROVE  AllocTablesClean'
<1>1. /\ p2 \in [P2Idx -> Entries]
      /\ mem \in [MemFrames -> [P1Idx -> Entries]]
      /\ next \in Nat /\ UsableFrames \in Seq(Nat)
  BY FrameAssumption DEF IInv, TypeOK
<1>2. CASE next >= Len(UsableFrames)
  <2>1. AllocateFrame = 0 - 1
    BY <1>2, <1>1 DEF AllocateFrame
  <2>2. UNCHANGED <<p2, mem>>
    BY <2>1 DEF Map4KiBCreate
  <2> QED BY <2>2 DEF AllocTablesClean, Refers
<1>3. CASE next < Len(UsableFrames)
  <2> DEFINE t == UsableFrames[next + 1]
  <2>1. t \in AllocFrames /\ t \in MemFrames /\ t \in Nat
    BY <1>3, <1>1, ElementOfSeq DEF AllocFrames, MemFrames
  <2>2. AllocateFrame = t /\ ~(t < 0)
    BY <1>3, <1>1, <2>1 DEF AllocateFrame
  <2>3. /\ p2' = [p2 EXCEPT ![i2] = Entry(t, pg)]
        /\ mem' = [mem EXCEPT ![t] = [ZeroTable EXCEPT ![i1] = Entry(f, g)]]
    BY <2>2 DEF Map4KiBCreate
  <2>4. \A k \in P2Idx : ~Refers(k, t)
    BY <1>3, FreshFrameUnreferenced
  <2> SUFFICES ASSUME NEW u \in AllocFrames, NEW i \in P2Idx, Refers(i, u)',
                      NEW j1 \in P1Idx
               PROVE  CleanEntry(mem'[u][j1])
    BY DEF AllocTablesClean
  <2>5. CASE u = t
    <3>1. mem'[u][j1] = IF j1 = i1 THEN Entry(f, g) ELSE UnusedEntry
      BY <2>5, <2>1, <2>3, <1>1 DEF ZeroTable
    <3> QED BY <3>1 DEF CleanEntry, Entry, IsUnused
  <2>6. CASE u # t
    <3>1. Refers(i, u)
      BY <2>6, <2>3, <1>1 DEF Refers, Entry
    <3>2. mem'[u] = mem[u]
      BY <2>6, <2>3, <1>1 DEF AllocFrames, MemFrames
    <3> QED BY <3>1, <3>2 DEF AllocTablesClean
  <2> QED BY <2>5, <2>6
<1> QED BY <1>2, <1>3, <1>1

LEMMA L1OpClean ==
  ASSUME IInv, AllocTablesClean, NEW i2 \in P2Idx, NEW i1 \in P1Idx,
         NEW g \in SUBSET FlagBits,
         Unmap4KiB(i2, i1) \/ UpdateFlags4KiB(i2, i1, g)
  PROVE  AllocTablesClean'
<1> DEFINE a == p2[i2].addr
           e1 == mem[a][i1]
<1>1. UNCHANGED p2 /\ mem \in [MemFrames -> [P1Idx -> Entries]]
  BY DEF Unmap4KiB, UpdateFlags4KiB, IInv, TypeOK
<1>2. NoNewRefs
  BY <1>1 DEF NoNewRefs
<1>3. CASE WalkResult(p2[i2]) # "Ok"
  <2>1. UNCHANGED mem
    BY <1>3 DEF Unmap4KiB, UpdateFlags4KiB
  <2> QED BY <1>2, <2>1, CleanKeep
<1>4. CASE WalkResult(p2[i2]) = "Ok"
  <2>1. a \in MemFrames /\ e1 \in Entries
    BY <1>4, WalkedTableTyped
  <2>2. \/ UNCHANGED mem
        \/ mem' = [mem EXCEPT ![a][i1] = UnusedEntry]
        \/ ~IsUnused(e1) /\ mem' = [mem EXCEPT ![a][i1] = [e1 EXCEPT !.flags = g]]
    BY <1>4 DEF Unmap4KiB, UpdateFlags4KiB
  <2>3. CASE UNCHANGED mem
    BY <1>2, <2>3, CleanKeep
  <2>4. CASE mem' = [mem EXCEPT ![a][i1] = UnusedEntry]
    <3>1. CleanEntry(UnusedEntry)
      BY DEF CleanEntry, IsUnused
    <3>2. \A t \in AllocFrames, j1 \in P1Idx :
            mem'[t][j1] = mem[t][j1] \/ CleanEntry(mem'[t][j1])
      BY <2>4, <3>1, <2>1, <1>1 DEF MemFrames
    <3> QED BY <1>2, <3>2, CleanKeep
  <2>5. CASE ~IsUnused(e1) /\ mem' = [mem EXCEPT ![a][i1] = [e1 EXCEPT !.flags = g]]
    <3>1. [e1 EXCEPT !.flags = g].addr = e1.addr
      BY <2>1 DEF Entries
    <3>2. \A t \in AllocFrames, j1 \in P1Idx :
            \/ mem'[t][j1] = mem[t][j1]
            \/ ~IsUnused(mem[t][j1]) /\ mem'[t][j1].addr = mem[t][j1].addr
      BY <2>5, <3>1, <2>1, <1>1 DEF MemFrames
    <3> QED BY <1>2, <3>2, CleanKeep
  <2> QED BY <2>2, <2>3, <2>4, <2>5
<1> QED BY <1>3, <1>4

LEMMA NextClean == IInv /\ AllocTablesClean /\ [Next]_vars => AllocTablesClean'
<1> SUFFICES ASSUME IInv, AllocTablesClean, [Next]_vars PROVE AllocTablesClean'
  OBVIOUS
<1>1. CASE \E i2 \in P2Idx, f \in Frames4M, g \in FlagSets : Map4MiB(i2, f, g)
  BY <1>1, Map4MiBClean
<1>2. CASE \E i2 \in P2Idx, i1 \in P1Idx, f \in Frames4K, g \in FlagSets,
              pg \in ParentFlagSets : Map4KiB(i2, i1, f, g, pg)
  BY <1>2, Map4KiBCreateClean, Map4KiBExistingClean DEF Map4KiB
<1>3. CASE \E i2 \in P2Idx : Unmap4MiB(i2)
  <2>1. PICK i2 \in P2Idx : Unmap4MiB(i2)
    BY <1>3
  <2> QED BY <2>1, P2OpClean
<1>4. CASE \E i2 \in P2Idx, i1 \in P1Idx : Unmap4KiB(i2, i1)
  <2>1. PICK i2 \in P2Idx, i1 \in P1Idx : Unmap4KiB(i2, i1)
    BY <1>4
  <2> QED BY <2>1, L1OpClean
<1>5. CASE \E i2 \in P2Idx, g \in FlagSets :
             UpdateFlags4MiB(i2, g) \/ SetFlagsP2Entry4KiB(i2, g)
  BY <1>5, P2OpClean, FlagSetsTyped
<1>6. CASE \E i2 \in P2Idx, i1 \in P1Idx, g \in FlagSets : UpdateFlags4KiB(i2, i1, g)
  BY <1>6, L1OpClean, FlagSetsTyped
<1>7. CASE UNCHANGED vars
  BY <1>7 DEF vars, AllocTablesClean, Refers, CleanEntry
<1> QED BY <1>1, <1>2, <1>3, <1>4, <1>5, <1>6, <1>7 DEF Next

\* A walkable level 2 entry to an allocator frame reads a clean table.
LEMMA CleanNoStale == IInv /\ AllocTablesClean => NoStaleEntries
<1> SUFFICES ASSUME IInv, AllocTablesClean, NEW p \in Pages,
                    WalkResult(p2[p[1]]) = "Ok", p2[p[1]].addr \in AllocFrames
             PROVE  \/ Translate(p[1], p[2]).kind = "NotMapped"
                    \/ Translate(p[1], p[2]).frame \in Frames4K
  BY DEF NoStaleEntries
<1> DEFINE i2 == p[1]
           i1 == p[2]
           e1 == mem[p2[i2].addr][i1]
<1>1. i2 \in P2Idx /\ i1 \in P1Idx
  BY DEF Pages
<1>2. Refers(i2, p2[i2].addr)
  BY DEF Refers, WalkResult, IsUnused, UnusedEntry, Entry
<1>3. CleanEntry(e1)
  BY <1>1, <1>2 DEF AllocTablesClean
<1>4. Translate(i2, i1) = IF IsUnused(e1) THEN NotMappedResult
                          ELSE Mapped("4KiB", e1.addr, e1.flags)
  BY DEF Translate
<1> QED BY <1>3, <1>4 DEF CleanEntry, NotMappedResult, Mapped

(***************************************************************************)
(* Every reachable state of the mapper is well typed: in particular every  *)
(* level 2 entry a 4 KiB operation follows points to a modelled table      *)
(* (the walker never dereferences an address the mapper did not install).  *)
(***************************************************************************)
THEOREM TypeCorrect == Spec => []TypeOK
<1>1. Init => IInv
  BY InitIInv
<1>2. IInv /\ [Next]_vars => IInv'
  BY NextIInv
<1>3. IInv => TypeOK
  BY DEF IInv
<1> QED BY <1>1, <1>2, <1>3, PTL DEF Spec

(***************************************************************************)
(* In every reachable state, each frame the allocator handed out backs at  *)
(* most one level 2 entry: create_next_table never installs one level 1    *)
(* table under two indices, and no operation copies a table address.       *)
(***************************************************************************)
THEOREM TablesExclusive == Spec => []TableFramesExclusive
<1>1. Init => IInv
  BY InitIInv
<1>2. IInv /\ [Next]_vars => IInv'
  BY NextIInv
<1>3. IInv => TableFramesExclusive
  BY DEF IInv
<1> QED BY <1>1, <1>2, <1>3, PTL DEF Spec

(***************************************************************************)
(* In every reachable state, a page whose level 2 entry leads to a table   *)
(* create_next_table made translates to nothing or to a frame a caller     *)
(* mapped with map_to_4kib: the stale bits of a freshly allocated frame    *)
(* are never read as a mapping, because the new table is zeroed.           *)
(***************************************************************************)
THEOREM NoStale == Spec => []NoStaleEntries
<1>1. Init => IInv /\ AllocTablesClean
  BY InitIInv, InitClean
<1>2. IInv /\ AllocTablesClean /\ [Next]_vars => (IInv /\ AllocTablesClean)'
  BY NextIInv, NextClean
<1>3. IInv /\ AllocTablesClean => NoStaleEntries
  BY CleanNoStale
<1> QED BY <1>1, <1>2, <1>3, PTL DEF Spec

-----------------------------------------------------------------------------
(***************************************************************************)
(* ResultsAgreeWithTranslate.  Each operation that returns Ok is checked   *)
(* against translate before and after it.  The only fact beyond the code   *)
(* of the operation is UsedAddrsInMemory (in IInv): the table a used level *)
(* 2 entry points to is modelled memory, so the write into it is seen by   *)
(* the next walk.                                                          *)
(***************************************************************************)
OkStep == \A r \in {ret'} : r.res = "Ok" => OkStepFollowsContract(r)

\* Walks of an unused level 2 entry, and of a table entry with PRESENT but
\* not HUGE_PAGE, as translate and the walker see them.
LEMMA UnusedWalk == WalkResult(UnusedEntry) = "NotMapped"
BY DEF WalkResult, UnusedEntry, Entry

LEMMA TableWalk ==
  ASSUME NEW a, NEW g, PRESENT \in g, HUGE_PAGE \notin g
  PROVE  WalkResult(Entry(a, g)) = "Ok" /\ ~IsUnused(Entry(a, g))
BY DEF WalkResult, Entry, IsUnused, UnusedEntry

LEMMA CallerFlags ==
  ASSUME NEW g \in FlagSets \cup ParentFlagSets
  PROVE  PRESENT \in g /\ HUGE_PAGE \notin g /\ g \in SUBSET FlagBits
BY FlagAssumption

LEMMA Map4MiBOk ==
  ASSUME IInv, NEW i2 \in P2Idx, NEW f \in Frames4M, NEW g \in FlagSets,
         Map4MiB(i2, f, g)
  PROVE  OkStep
<1> SUFFICES ASSUME NEW r, r = ret', r.res = "Ok" PROVE OkStepFollowsContract(r)
  BY DEF OkStep
<1>1. IsUnused(p2[i2]) /\ p2' = [p2 EXCEPT ![i2] = Entry(f, g \cup {HUGE_PAGE})]
      /\ r.op = "map4M" /\ r.i2 = i2 /\ r.frame = f /\ r.flags = g
  BY DEF Map4MiB, Ret
<1>2. p2 \in [P2Idx -> Entries] /\ f \in Nat /\ f % HugeUnits = 0 /\ PRESENT \in g
  BY FrameAssumption, CallerFlags DEF IInv, TypeOK
<1>3. Containing4M(f) = f
  BY <1>2, HugeAssumption DEF Containing4M
<1>4. ASSUME NEW p \in Region(i2)
      PROVE  /\ Translate(p[1], p[2]) = NotMappedResult
             /\ Translate(p[1], p[2])' = Mapped("4MiB", f, g \cup {HUGE_PAGE})
  <2>1. p[1] = i2
    BY DEF Region
  <2>2. WalkResult(p2[i2]) = "NotMapped"
    BY <1>1, UnusedWalk DEF IsUnused
  <2>3. p2'[i2] = Entry(f, g \cup {HUGE_PAGE})
    BY <1>1, <1>2
  <2>4. WalkResult(p2'[i2]) = "MappedToHugePage"
    BY <2>3, <1>2 DEF WalkResult, Entry
  <2> QED BY <1>3, <2>1, <2>2, <2>3, <2>4 DEF Translate, Entry
<1> QED BY <1>1, <1>4 DEF OkStepFollowsContract

LEMMA Map4KiBCreateOk ==
  ASSUME IInv, NEW i2 \in P2Idx, NEW i1 \in P1Idx, NEW f \in Frames4K,
         NEW g \in FlagSets, NEW pg \in ParentFlagSets,
         Map4KiBCreate(i2, i1, f, g, pg)
  PROVE  OkStep
<1> SUFFICES ASSUME NEW r, r = ret', r.res = "Ok" PROVE OkStepFollowsContract(r)
  BY DEF OkStep
<1>1. next < Len(UsableFrames)
  <2>1. SUFFICES ASSUME next >= Len(UsableFrames) PROVE FALSE
    BY DEF IInv, TypeOK
  <2>2. AllocateFrame = 0 - 1
    BY <2>1, FrameAssumption DEF AllocateFrame, IInv, TypeOK
  <2> QED BY <2>2 DEF Map4KiBCreate, Ret
<1> DEFINE t == UsableFrames[next + 1]
<1>2. t \in AllocFrames /\ t \in Nat
  BY <1>1, AllocFramesTyped DEF IInv, TypeOK, AllocFrames
<1>3. /\ IsUnused(p2[i2])
      /\ p2' = [p2 EXCEPT ![i2] = Entry(t, pg)]
      /\ mem' = [mem EXCEPT ![t] = [ZeroTable EXCEPT ![i1] = Entry(f, g)]]
      /\ r.op = "map4K" /\ r.i2 = i2 /\ r.i1 = i1
      /\ r.frame = f /\ r.flags = g
  BY <1>1, <1>2 DEF Map4KiBCreate, AllocateFrame, Ret
<1>4. p2 \in [P2Idx -> Entries] /\ mem \in [MemFrames -> [P1Idx -> Entries]]
  BY DEF IInv, TypeOK
<1>5. Translate(i2, i1) = NotMappedResult
  BY <1>3, UnusedWalk DEF Translate, IsUnused
<1>6. WalkResult(p2'[i2]) = "Ok" /\ p2'[i2].addr = t
  BY <1>3, <1>4, CallerFlags, TableWalk DEF Entry
<1>7. mem'[t][i1] = Entry(f, g) /\ ~IsUnused(Entry(f, g))
  BY <1>2, <1>3, <1>4, CallerFlags, TableWalk DEF MemFrames, ZeroTable
<1>8. mem'[p2'[i2].addr][i1].addr = f /\ mem'[p2'[i2].addr][i1].flags = g
      /\ ~IsUnused(mem'[p2'[i2].addr][i1])
  BY <1>6, <1>7 DEF Entry
<1>9. Translate(i2, i1)' = Mapped("4KiB", f, g)
  <2>1. Translate(i2, i1)' =
          IF IsUnused(mem'[p2'[i2].addr][i1]) THEN NotMappedResult
          ELSE Mapped("4KiB", mem'[p2'[i2].addr][i1].addr, mem'[p2'[i2].addr][i1].flags)
    BY <1>6 DEF Translate
  <2> QED BY <2>1, <1>8
<1> QED BY <1>3, <1>5, <1>9 DEF OkStepFollowsContract

\* A used level 2 entry gets the parent flags merged in; the merge keeps
\* PRESENT and HUGE_PAGE, and adds PRESENT (every parent flag set has it).
LEMMA MergedWalk ==
  ASSUME NEW e \in Entries, NEW pg \in ParentFlagSets
  PROVE  /\ PRESENT \in MergedFlags(e, pg)
         /\ (HUGE_PAGE \in MergedFlags(e, pg)) <=> (HUGE_PAGE \in e.flags)
         /\ WalkResult(e) = "MappedToHugePage" =>
              WalkResult(Entry(e.addr, MergedFlags(e, pg))) = "MappedToHugePage"
BY CallerFlags DEF MergedFlags, WalkResult, Entry

LEMMA Map4KiBExistingOk ==
  ASSUME IInv, NEW i2 \in P2Idx, NEW i1 \in P1Idx, NEW f \in Frames4K,
         NEW g \in FlagSets, NEW pg \in ParentFlagSets,
         Map4KiBExisting(i2, i1, f, g, pg)
  PROVE  OkStep
<1> SUFFICES ASSUME NEW r, r = ret', r.res = "Ok" PROVE OkStepFollowsContract(r)
  BY DEF OkStep
<1> DEFINE a == p2[i2].addr
           e == Entry(a, MergedFlags(p2[i2], pg))
<1>1. p2 \in [P2Idx -> Entries] /\ mem \in [MemFrames -> [P1Idx -> Entries]]
  BY DEF IInv, TypeOK
<1>2. ~IsUnused(p2[i2]) /\ a \in MemFrames
  BY DEF Map4KiBExisting, IInv, UsedAddrsInMemory
<1>3. /\ WalkResult(e) # "MappedToHugePage"
      /\ IsUnused(mem[a][i1])
      /\ p2' = [p2 EXCEPT ![i2] = e]
      /\ mem' = [mem EXCEPT ![a][i1] = Entry(f, g)]
      /\ r.op = "map4K" /\ r.i2 = i2 /\ r.i1 = i1 /\ r.frame = f /\ r.flags = g
  <2>1. p2' = [p2 EXCEPT ![i2] = e]
    BY DEF Map4KiBExisting
  <2>2. CASE WalkResult(e) = "MappedToHugePage"
    <3>1. r.res = "ParentEntryHugePage"
      BY <2>2 DEF Map4KiBExisting, Ret, Entry
    <3> QED BY <3>1
  <2>3. CASE WalkResult(e) # "MappedToHugePage" /\ ~IsUnused(mem[a][i1])
    <3>1. r.res = "PageAlreadyMapped"
      BY <2>3 DEF Map4KiBExisting, Ret, Entry
    <3> QED BY <3>1
  <2>4. CASE WalkResult(e) # "MappedToHugePage" /\ IsUnused(mem[a][i1])
    <3>1. mem' = [mem EXCEPT ![a][i1] = Entry(f, g)]
          /\ r.op = "map4K" /\ r.i2 = i2 /\ r.i1 = i1 /\ r.frame = f /\ r.flags = g
      BY <2>4 DEF Map4KiBExisting, Ret, Entry
    <3> QED BY <2>1, <2>4, <3>1
  <2> QED BY <2>2, <2>3, <2>4
\* before: the walk stops at the level 2 entry, or reads an unused entry
<1>4. Translate(i2, i1) = NotMappedResult
  <2>1. WalkResult(p2[i2]) # "MappedToHugePage"
    BY <1>1, <1>3, MergedWalk
  <2> QED BY <2>1, <1>3 DEF Translate
\* after: the walk reaches the same table and the entry just written
<1>5. WalkResult(p2'[i2]) = "Ok" /\ p2'[i2].addr = a
  <2>1. PRESENT \in MergedFlags(p2[i2], pg) /\ p2'[i2] = e
    BY <1>1, <1>3, MergedWalk
  <2> QED BY <2>1, <1>3 DEF WalkResult, Entry
<1>6. mem'[a][i1] = Entry(f, g) /\ ~IsUnused(Entry(f, g))
  BY <1>1, <1>2, <1>3, CallerFlags, TableWalk
<1>7. mem'[p2'[i2].addr][i1].addr = f /\ mem'[p2'[i2].addr][i1].flags = g
      /\ ~IsUnused(mem'[p2'[i2].addr][i1])
  BY <1>5, <1>6 DEF Entry
<1>8. Translate(i2, i1)' = Mapped("4KiB", f, g)
  <2>1. Translate(i2, i1)' =
          IF IsUnused(mem'[p2'[i2].addr][i1]) THEN NotMappedResult
          ELSE Mapped("4KiB", mem'[p2'[i2].addr][i1].addr, mem'[p2'[i2].addr][i1].flags)
    BY <1>5 DEF Translate
  <2> QED BY <2>1, <1>7
<1> QED BY <1>3, <1>4, <1>8 DEF OkStepFollowsContract

LEMMA Unmap4MiBOk ==
  ASSUME IInv, NEW i2 \in P2Idx, Unmap4MiB(i2)
  PROVE  OkStep
<1> SUFFICES ASSUME NEW r, r = ret', r.res = "Ok" PROVE OkStepFollowsContract(r)
  BY DEF OkStep
<1> DEFINE e == p2[i2]
<1>1. p2 \in [P2Idx -> Entries] /\ e.addr \in Nat
  BY DEF IInv, TypeOK, Entries
<1>2. /\ PRESENT \in e.flags /\ HUGE_PAGE \in e.flags /\ e.addr % HugeUnits = 0
      /\ p2' = [p2 EXCEPT ![i2] = UnusedEntry]
      /\ r.op = "unmap4M" /\ r.i2 = i2 /\ r.frame = e.addr
  BY DEF Unmap4MiB, Ret
<1>3. Containing4M(e.addr) = e.addr
  BY <1>1, <1>2, HugeAssumption DEF Containing4M
<1>4. ASSUME NEW p \in Region(i2)
      PROVE  /\ Translate(p[1], p[2]).kind = "Mapped"
             /\ Translate(p[1], p[2]).frame = e.addr
             /\ Translate(p[1], p[2])' = NotMappedResult
  <2>1. p[1] = i2
    BY DEF Region
  <2>2. WalkResult(e) = "MappedToHugePage"
    BY <1>2 DEF WalkResult
  <2>3. p2'[i2] = UnusedEntry
    BY <1>1, <1>2
  <2> QED BY <1>3, <2>1, <2>2, <2>3, UnusedWalk DEF Translate, Mapped
<1> QED BY <1>2, <1>4 DEF OkStepFollowsContract

LEMMA Unmap4KiBOk ==
  ASSUME IInv, NEW i2 \in P2Idx, NEW i1 \in P1Idx, Unmap4KiB(i2, i1)
  PROVE  OkStep
<1> SUFFICES ASSUME NEW r, r = ret', r.res = "Ok" PROVE OkStepFollowsContract(r)
  BY DEF OkStep
<1> DEFINE a == p2[i2].addr
           e1 == mem[a][i1]
<1>1. /\ WalkResult(p2[i2]) = "Ok" /\ WalkResult(e1) = "Ok"
      /\ mem' = [mem EXCEPT ![a][i1] = UnusedEntry]
      /\ UNCHANGED p2
      /\ r.op = "unmap4K" /\ r.i2 = i2 /\ r.i1 = i1 /\ r.frame = e1.addr
  BY DEF Unmap4KiB, Ret, WalkError
<1>2. a \in MemFrames /\ mem \in [MemFrames -> [P1Idx -> Entries]]
  BY <1>1, WalkedTableTyped DEF IInv, TypeOK
<1>3. ~IsUnused(e1)
  BY <1>1 DEF WalkResult, IsUnused, UnusedEntry, Entry
<1>4. Translate(i2, i1) = Mapped("4KiB", e1.addr, e1.flags)
  BY <1>1, <1>3 DEF Translate
<1>5. mem'[a][i1] = UnusedEntry /\ IsUnused(UnusedEntry)
  BY <1>1, <1>2 DEF IsUnused
<1>6. Translate(i2, i1)' = NotMappedResult
  BY <1>1, <1>5 DEF Translate
<1> QED BY <1>1, <1>4, <1>6 DEF OkStepFollowsContract, Mapped

LEMMA UpdateFlags4KiBOk ==
  ASSUME IInv, NEW i2 \in P2Idx, NEW i1 \in P1Idx, NEW g \in FlagSets,
         UpdateFlags4KiB(i2, i1, g)
  PROVE  OkStep
<1> SUFFICES ASSUME NEW r, r = ret', r.res = "Ok" PROVE OkStepFollowsContract(r)
  BY DEF OkStep
<1> DEFINE a == p2[i2].addr
           e1 == mem[a][i1]
<1>1. /\ WalkResult(p2[i2]) = "Ok" /\ ~IsUnused(e1)
      /\ mem' = [mem EXCEPT ![a][i1].flags = g]
      /\ UNCHANGED p2
      /\ r.op = "update4K" /\ r.i2 = i2 /\ r.i1 = i1 /\ r.frame = e1.addr /\ r.flags = g
  BY DEF UpdateFlags4KiB, Ret, WalkError
<1>2. a \in MemFrames /\ e1 \in Entries /\ mem \in [MemFrames -> [P1Idx -> Entries]]
  BY <1>1, WalkedTableTyped DEF IInv, TypeOK
<1>3. Translate(i2, i1) = Mapped("4KiB", e1.addr, e1.flags)
  BY <1>1 DEF Translate
<1>4. mem'[a][i1] = Entry(e1.addr, g) /\ ~IsUnused(Entry(e1.addr, g))
  <2>1. mem'[a][i1] = [e1 EXCEPT !.flags = g]
    BY <1>1, <1>2
  <2>2. [e1 EXCEPT !.flags = g] = Entry(e1.addr, g)
    BY <1>2 DEF Entries, Entry
  <2> QED BY <2>1, <2>2, CallerFlags, TableWalk
<1>5. mem'[a][i1].addr = e1.addr /\ mem'[a][i1].flags = g /\ ~IsUnused(mem'[a][i1])
  BY <1>4 DEF Entry
<1>6. Translate(i2, i1)' = Mapped("4KiB", e1.addr, g)
  BY <1>1, <1>5 DEF Translate
<1> QED BY <1>1, <1>3, <1>6 DEF OkStepFollowsContract, Mapped

\* The contract says nothing of the flag updates on level 2 entries.
LEMMA P2FlagOpsOk ==
  ASSUME NEW i2 \in P2Idx, NEW g \in FlagSets,
         UpdateFlags4MiB(i2, g) \/ SetFlagsP2Entry4KiB(i2, g)
  PROVE  OkStep
<1> SUFFICES ASSUME NEW r, r = ret' PROVE OkStepFollowsContract(r)
  BY DEF OkStep
<1>1. r.op \in {"update4M", "setP2_4K"}
  BY DEF UpdateFlags4MiB, SetFlagsP2Entry4KiB, Ret
<1> QED BY <1>1 DEF OkStepFollowsContract

LEMMA NextOk == IInv /\ [Next]_vars => [OkStep]_vars
<1> SUFFICES ASSUME IInv, Next PROVE OkStep
  OBVIOUS
<1>1. CASE \E i2 \in P2Idx, f \in Frames4M, g \in FlagSets : Map4MiB(i2, f, g)
  BY <1>1, Map4MiBOk
<1>2. CASE \E i2 \in P2Idx, i1 \in P1Idx, f \in Frames4K, g \in FlagSets,
              pg \in ParentFlagSets : Map4KiB(i2, i1, f, g, pg)
  BY <1>2, Map4KiBCreateOk, Map4KiBExistingOk DEF Map4KiB
<1>3. CASE \E i2 \in P2Idx : Unmap4MiB(i2)
  BY <1>3, Unmap4MiBOk
<1>4. CASE \E i2 \in P2Idx, i1 \in P1Idx : Unmap4KiB(i2, i1)
  BY <1>4, Unmap4KiBOk
<1>5. CASE \E i2 \in P2Idx, g \in FlagSets :
             UpdateFlags4MiB(i2, g) \/ SetFlagsP2Entry4KiB(i2, g)
  BY <1>5, P2FlagOpsOk
<1>6. CASE \E i2 \in P2Idx, i1 \in P1Idx, g \in FlagSets : UpdateFlags4KiB(i2, i1, g)
  BY <1>6, UpdateFlags4KiBOk
<1> QED BY <1>1, <1>2, <1>3, <1>4, <1>5, <1>6 DEF Next

(***************************************************************************)
(* Every map, unmap and update_flags on a 4 KiB or 4 MiB page that returns *)
(* Ok does what the Mapper contract says, as translate sees it: map takes  *)
(* the page from not mapped to mapped at the frame and flags given, unmap  *)
(* takes it from mapped to not mapped and returns the frame it was mapped  *)
(* to, and update_flags keeps the frame and sets the flags; for every set  *)
(* of indices, frames, flag sets and allocator sequence.                   *)
(***************************************************************************)
THEOREM ResultsAgree == Spec => ResultsAgreeWithTranslate
<1>1. Init => IInv
  BY InitIInv
<1>2. IInv /\ [Next]_vars => IInv'
  BY NextIInv
<1>3. IInv /\ [Next]_vars => [OkStep]_vars
  BY NextOk
<1> QED BY <1>1, <1>2, <1>3, PTL DEF Spec, ResultsAgreeWithTranslate, OkStep

-----------------------------------------------------------------------------
(***************************************************************************)
(* What a rejected map can change.  FailedMapKeepsTranslations fails       *)
(* (create_next_table merges the parent flags into a huge level 2 entry    *)
(* before the walk refuses it), but only the flags of the huge page move:  *)
(* the kind and the frame of every page stay.  That needs every used level *)
(* 2 entry to be present (UsedArePresent): otherwise the merge, which adds *)
(* PRESENT, could turn a not-present entry into a walkable one.            *)
(***************************************************************************)
UsedArePresent == \A i \in P2Idx : ~IsUnused(p2[i]) => PRESENT \in p2[i].flags

\* A map that returns an error leaves every page mapped or not mapped as it
\* was, and mapped to the same frame (map_to_4kib, map_to_4mib; the walker's
\* create_next_table).
FailedMapKeepsFrames ==
  [][(ret'.op \in {"map4K", "map4M"} /\ ret'.res # "Ok") =>
       \A p \in Pages : /\ Translate(p[1], p[2])'.kind = Translate(p[1], p[2]).kind
                        /\ Translate(p[1], p[2])'.frame = Translate(p[1], p[2]).frame]_vars

KeepsFramesStep ==
  (ret'.op \in {"map4K", "map4M"} /\ ret'.res # "Ok") =>
    \A p \in Pages : /\ Translate(p[1], p[2])'.kind = Translate(p[1], p[2]).kind
                     /\ Translate(p[1], p[2])'.frame = Translate(p[1], p[2]).frame

\* An entry rewritten with new flags but the same address keeps being
\* present, and keeps being huge or not.
LEMMA PresentStep ==
  ASSUME UsedArePresent, p2 \in [P2Idx -> Entries], NEW i2 \in P2Idx, NEW v,
         p2' = [p2 EXCEPT ![i2] = v], IsUnused(v) \/ PRESENT \in v.flags
  PROVE  UsedArePresent'
BY DEF UsedArePresent

LEMMA NextPresent == IInv /\ UsedArePresent /\ [Next]_vars => UsedArePresent'
<1> SUFFICES ASSUME IInv, UsedArePresent, [Next]_vars PROVE UsedArePresent'
  OBVIOUS
<1>0. p2 \in [P2Idx -> Entries]
  BY DEF IInv, TypeOK
<1>1. CASE UNCHANGED p2
  BY <1>1 DEF UsedArePresent
<1>2. ASSUME NEW i2 \in P2Idx, NEW v, p2' = [p2 EXCEPT ![i2] = v],
             IsUnused(v) \/ PRESENT \in v.flags
      PROVE  UsedArePresent'
  BY <1>0, <1>2, PresentStep
<1>3. CASE \E i2 \in P2Idx, f \in Frames4M, g \in FlagSets : Map4MiB(i2, f, g)
  <2>1. PICK i2 \in P2Idx, f \in Frames4M, g \in FlagSets : Map4MiB(i2, f, g)
    BY <1>3
  <2>2. PRESENT \in Entry(f, g \cup {HUGE_PAGE}).flags
    BY CallerFlags DEF Entry
  <2>3. UNCHANGED p2 \/ p2' = [p2 EXCEPT ![i2] = Entry(f, g \cup {HUGE_PAGE})]
    BY <2>1 DEF Map4MiB
  <2> QED BY <2>2, <2>3, <1>1, <1>2
<1>4. CASE \E i2 \in P2Idx, i1 \in P1Idx, f \in Frames4K, g \in FlagSets,
              pg \in ParentFlagSets : Map4KiB(i2, i1, f, g, pg)
  <2>1. PICK i2 \in P2Idx, i1 \in P1Idx, f \in Frames4K, g \in FlagSets,
             pg \in ParentFlagSets : Map4KiB(i2, i1, f, g, pg)
    BY <1>4
  <2>2. /\ PRESENT \in Entry(AllocateFrame, pg).flags
        /\ PRESENT \in Entry(p2[i2].addr, MergedFlags(p2[i2], pg)).flags
    BY <1>0, CallerFlags, MergedWalk DEF Entry
  <2>3. \/ UNCHANGED p2
        \/ p2' = [p2 EXCEPT ![i2] = Entry(AllocateFrame, pg)]
        \/ p2' = [p2 EXCEPT ![i2] = Entry(p2[i2].addr, MergedFlags(p2[i2], pg))]
    BY <2>1 DEF Map4KiB, Map4KiBCreate, Map4KiBExisting
  <2> QED BY <2>2, <2>3, <1>1, <1>2
<1>5. CASE \E i2 \in P2Idx : Unmap4MiB(i2)
  <2>1. PICK i2 \in P2Idx : Unmap4MiB(i2)
    BY <1>5
  <2>2. UNCHANGED p2 \/ p2' = [p2 EXCEPT ![i2] = UnusedEntry]
    BY <2>1 DEF Unmap4MiB
  <2>3. IsUnused(UnusedEntry)
    BY DEF IsUnused
  <2> QED BY <2>2, <2>3, <1>1, <1>2
<1>6. CASE \E i2 \in P2Idx, g \in FlagSets :
             UpdateFlags4MiB(i2, g) \/ SetFlagsP2Entry4KiB(i2, g)
  <2>1. PICK i2 \in P2Idx, g \in FlagSets :
               UpdateFlags4MiB(i2, g) \/ SetFlagsP2Entry4KiB(i2, g)
    BY <1>6
  <2>2. /\ PRESENT \in [p2[i2] EXCEPT !.flags = g \cup {HUGE_PAGE}].flags
        /\ PRESENT \in [p2[i2] EXCEPT !.flags = g].flags
    BY <1>0, CallerFlags DEF Entries
  <2>3. \/ UNCHANGED p2
        \/ p2' = [p2 EXCEPT ![i2] = [p2[i2] EXCEPT !.flags = g \cup {HUGE_PAGE}]]
        \/ p2' = [p2 EXCEPT ![i2] = [p2[i2] EXCEPT !.flags = g]]
    BY <2>1 DEF UpdateFlags4MiB, SetFlagsP2Entry4KiB
  <2> QED BY <2>2, <2>3, <1>1, <1>2
<1> QED BY <1>1, <1>3, <1>4, <1>5, <1>6 DEF Next, vars, Unmap4KiB, UpdateFlags4KiB

\* Translate reads only p2 and mem.
LEMMA SameTables ==
  ASSUME p2' = p2, mem' = mem, NEW p \in Pages
  PROVE  Translate(p[1], p[2])' = Translate(p[1], p[2])
BY DEF Translate

\* The level 2 entry whose flags a rejected map_to_4kib merged walks as
\* before, to the same place.
LEMMA MergedSameWalk ==
  ASSUME IInv, UsedArePresent, NEW i2 \in P2Idx, NEW pg \in ParentFlagSets,
         ~IsUnused(p2[i2])
  PROVE  LET e == Entry(p2[i2].addr, MergedFlags(p2[i2], pg)) IN
         /\ WalkResult(e) = WalkResult(p2[i2])
         /\ e.addr = p2[i2].addr
<1>1. p2[i2] \in Entries /\ PRESENT \in p2[i2].flags
  BY DEF IInv, TypeOK, UsedArePresent
<1>2. PRESENT \in MergedFlags(p2[i2], pg)
      /\ (HUGE_PAGE \in MergedFlags(p2[i2], pg) <=> HUGE_PAGE \in p2[i2].flags)
  BY <1>1, MergedWalk
<1> QED BY <1>1, <1>2 DEF WalkResult, Entry

LEMMA Map4KiBExistingKeepsFrames ==
  ASSUME IInv, UsedArePresent, NEW i2 \in P2Idx, NEW i1 \in P1Idx, NEW f \in Frames4K,
         NEW g \in FlagSets, NEW pg \in ParentFlagSets,
         Map4KiBExisting(i2, i1, f, g, pg), ret'.res # "Ok"
  PROVE  \A p \in Pages : /\ Translate(p[1], p[2])'.kind = Translate(p[1], p[2]).kind
                          /\ Translate(p[1], p[2])'.frame = Translate(p[1], p[2]).frame
<1> DEFINE e == Entry(p2[i2].addr, MergedFlags(p2[i2], pg))
<1>1. /\ ~IsUnused(p2[i2])
      /\ p2' = [p2 EXCEPT ![i2] = e]
      /\ UNCHANGED mem
  <2>1. ~IsUnused(p2[i2]) /\ p2' = [p2 EXCEPT ![i2] = e]
    BY DEF Map4KiBExisting
  <2>2. UNCHANGED mem
    <3>1. SUFFICES ASSUME mem' # mem PROVE FALSE
      OBVIOUS
    <3>2. ret'.res = "Ok"
      BY <3>1 DEF Map4KiBExisting, Ret
    <3> QED BY <3>2
  <2> QED BY <2>1, <2>2
<1>2. WalkResult(e) = WalkResult(p2[i2]) /\ e.addr = p2[i2].addr
  BY <1>1, MergedSameWalk
<1>3. p2 \in [P2Idx -> Entries]
  BY DEF IInv, TypeOK
<1> SUFFICES ASSUME NEW p \in Pages
             PROVE  /\ Translate(p[1], p[2])'.kind = Translate(p[1], p[2]).kind
                    /\ Translate(p[1], p[2])'.frame = Translate(p[1], p[2]).frame
  OBVIOUS
<1>4. p[1] \in P2Idx
  BY DEF Pages
<1>5. CASE p[1] # i2
  <2>1. p2'[p[1]] = p2[p[1]]
    BY <1>1, <1>3, <1>4, <1>5
  <2> QED BY <2>1, <1>1 DEF Translate
<1>6. CASE p[1] = i2
  <2>1. p2'[i2] = e
    BY <1>1, <1>3
  <2>2. CASE WalkResult(p2[i2]) = "MappedToHugePage"
    BY <1>2, <1>6, <2>1, <2>2 DEF Translate, Mapped, Entry
  <2>3. CASE WalkResult(p2[i2]) = "NotMapped"
    BY <1>2, <1>6, <2>1, <2>3 DEF Translate
  <2>4. CASE WalkResult(p2[i2]) = "Ok"
    <3>1. WalkResult(p2'[p[1]]) = "Ok" /\ WalkResult(p2[p[1]]) = "Ok"
          /\ p2'[p[1]].addr = p2[p[1]].addr
      BY <1>2, <1>6, <2>1, <2>4
    <3>2. Translate(p[1], p[2])' = Translate(p[1], p[2])
      BY <3>1, <1>1 DEF Translate
    <3> QED BY <3>2
  <2> QED BY <2>2, <2>3, <2>4 DEF WalkResult
<1> QED BY <1>5, <1>6

LEMMA NextKeepsFrames ==
  IInv /\ UsedArePresent /\ [Next]_vars => [KeepsFramesStep]_vars
<1> SUFFICES ASSUME IInv, UsedArePresent, Next, ret'.op \in {"map4K", "map4M"},
                    ret'.res # "Ok"
             PROVE  \A p \in Pages :
                      /\ Translate(p[1], p[2])'.kind = Translate(p[1], p[2]).kind
                      /\ Translate(p[1], p[2])'.frame = Translate(p[1], p[2]).frame
  BY DEF KeepsFramesStep
<1>1. CASE \E i2 \in P2Idx, f \in Frames4M, g \in FlagSets : Map4MiB(i2, f, g)
  <2>1. UNCHANGED <<p2, mem>>
    BY <1>1 DEF Map4MiB, Ret
  <2> QED BY <2>1, SameTables
<1>2. CASE \E i2 \in P2Idx, i1 \in P1Idx, f \in Frames4K, g \in FlagSets,
              pg \in ParentFlagSets : Map4KiBCreate(i2, i1, f, g, pg)
  <2>1. UNCHANGED <<p2, mem>>
    BY <1>2 DEF Map4KiBCreate, Ret
  <2> QED BY <2>1, SameTables
<1>3. CASE \E i2 \in P2Idx, i1 \in P1Idx, f \in Frames4K, g \in FlagSets,
              pg \in ParentFlagSets : Map4KiBExisting(i2, i1, f, g, pg)
  BY <1>3, Map4KiBExistingKeepsFrames
<1>4. CASE \/ \E i2 \in P2Idx : Unmap4MiB(i2)
           \/ \E i2 \in P2Idx, i1 \in P1Idx : Unmap4KiB(i2, i1)
           \/ \E i2 \in P2Idx, g \in FlagSets :
                UpdateFlags4MiB(i2, g) \/ SetFlagsP2Entry4KiB(i2, g)
           \/ \E i2 \in P2Idx, i1 \in P1Idx, g \in FlagSets : UpdateFlags4KiB(i2, i1, g)
  <2>1. CASE \E i2 \in P2Idx : Unmap4MiB(i2)
    BY <2>1 DEF Unmap4MiB, Ret
  <2>2. CASE \E i2 \in P2Idx, i1 \in P1Idx : Unmap4KiB(i2, i1)
    BY <2>2 DEF Unmap4KiB, Ret
  <2>3. CASE \E i2 \in P2Idx, g \in FlagSets :
               UpdateFlags4MiB(i2, g) \/ SetFlagsP2Entry4KiB(i2, g)
    BY <2>3 DEF UpdateFlags4MiB, SetFlagsP2Entry4KiB, Ret
  <2>4. CASE \E i2 \in P2Idx, i1 \in P1Idx, g \in FlagSets : UpdateFlags4KiB(i2, i1, g)
    BY <2>4 DEF UpdateFlags4KiB, Ret
  <2> QED BY <1>4, <2>1, <2>2, <2>3, <2>4
<1> QED BY <1>1, <1>2, <1>3, <1>4 DEF Next, Map4KiB

(***************************************************************************)
(* A map_to that returns an error leaves every page mapped or not mapped   *)
(* as it was, and to the same frame, for every value of the constants.     *)
(* With FailedMapKeepsTranslations violated (PROJECT.json's finding on     *)
(* create_next_table), this confines the damage of a rejected map to the  *)
(* flags of one huge page.                                                 *)
(***************************************************************************)
THEOREM FailedMapKeepsFramesThm == Spec => FailedMapKeepsFrames
<1>1. Init => IInv /\ UsedArePresent
  BY InitIInv DEF Init, UsedArePresent, IsUnused
<1>2. IInv /\ UsedArePresent /\ [Next]_vars => (IInv /\ UsedArePresent)'
  BY NextIInv, NextPresent
<1>3. IInv /\ UsedArePresent /\ [Next]_vars => [KeepsFramesStep]_vars
  BY NextKeepsFrames
<1> QED BY <1>1, <1>2, <1>3, PTL DEF Spec, FailedMapKeepsFrames, KeepsFramesStep
=============================================================================
