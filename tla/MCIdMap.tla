------------------------------- MODULE MCIdMap -------------------------------
(* A small instance of IdMap: tables of 2 entries (8 pages of 2 bytes), so *)
(* a 2 MiB frame is 2 pages and a 1 GiB frame 4.  The initial trees are    *)
(* the bootloader's identity map of low memory (a 4 KiB table for the      *)
(* first 2 MiB frame with page 0 left unmapped, huge identity pages        *)
(* elsewhere) next to the kernel's own mappings (a huge page and a 4 KiB   *)
(* page that are not identities), a 1 GiB identity page, or an unused      *)
(* level 3 slot; the allocator has up to two frames left.                  *)
EXTENDS IdMap, TLC

\* a function on the two indices 0 and 1
Two(x, y) == [i \in Idx |-> IF i = 0 THEN x ELSE y]

TableE == Entry(TableAddr, {PRESENT, WRITABLE})

\* pages 0..3: bootloader identity map; pages 4..7: kernel mappings
BootP2 == Two(TableE, Entry(2, {PRESENT, WRITABLE, HUGE_PAGE}))
LowP1  == Two(UnusedEntry, Entry(1, {PRESENT, NO_CACHE, NO_EXECUTE}))
BootP1 == Two(LowP1, ZeroTable)

Tree0 == [p3 |-> Two(TableE, TableE),
          p2 |-> Two(BootP2, Two(Entry(2, {PRESENT, WRITABLE, HUGE_PAGE}), TableE)),
          p1 |-> Two(BootP1, Two(ZeroTable, Two(Entry(3, {PRESENT}), UnusedEntry)))]

\* pages 2..3 unmapped, pages 4..7 one 1 GiB identity page
Tree1 == [p3 |-> Two(TableE, Entry(4, {PRESENT, HUGE_PAGE})),
          p2 |-> Two(Two(TableE, UnusedEntry), Two(UnusedEntry, UnusedEntry)),
          p1 |-> Two(BootP1, Two(ZeroTable, ZeroTable))]

\* pages 4..7 beyond every mapping
Tree2 == [Tree0 EXCEPT !.p3[1] = UnusedEntry]

MCInitTrees == {Tree0, Tree1, Tree2}
MCAddFlagSets == {{}, {WRITABLE}}
\* odd addresses: objects that straddle a page and objects that end on one
MCReadRequests == {q \in (0 .. 13) \X (1 .. 2) : q[1] % 2 = 1}
=============================================================================
