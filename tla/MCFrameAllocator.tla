------------------------- MODULE MCFrameAllocator -------------------------
(* FrameAllocator over every ordered memory map of at most two regions     *)
(* below address 10 (4 KiB units), with 2 MiB frames of 4 units: regions   *)
(* may start or end off a 2 MiB boundary, and six cursor steps reach both  *)
(* a mixed 4 KiB / 2 MiB sequence and exhaustion of small maps.           *)
EXTENDS FrameAllocator
=============================================================================
