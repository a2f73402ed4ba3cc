------------------------- MODULE MCMappedPageTable -------------------------
(* A small instance of MappedPageTable: two level 2 slots of two level 1   *)
(* entries, 4 KiB units, a huge frame of 4 units, two usable frames (one   *)
(* of them 4 MiB aligned), so that both tables can be created, a table     *)
(* entry can be turned huge and unmapped, and a third creation exhausts    *)
(* the allocator.  The table indices are interchangeable model values.     *)
EXTENDS MappedPageTable, TLC

CONSTANTS a2, b2, a1, b1

MCP2Idx == {a2, b2}
MCP1Idx == {a1, b1}
MCFlagSets == {{PRESENT}, {PRESENT, WRITABLE}}
MCParentFlagSets == {{PRESENT, WRITABLE}}
MCUsableFrames == <<4, 5>>
MCSymmetry == Permutations(MCP2Idx) \cup Permutations(MCP1Idx)
=============================================================================
