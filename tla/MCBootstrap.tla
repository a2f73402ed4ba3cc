---------------------------- MODULE MCBootstrap ----------------------------
(***************************************************************************)
(* Bootstrap on 8-entry tables and 2 GiB (128 pages): the first 2 MiB are  *)
(* pages 0-7, with the trampoline at page 1, the video page at 3, the      *)
(* stack guard at 4 and 1 MiB at page 5.  The memory maps have one or two  *)
(* regions of either type, bounded by addresses on and off 2 MiB           *)
(* boundaries and leaving gaps.                                            *)
(***************************************************************************)
EXTENDS Bootstrap

MCBounds == {0, 4, 8, 16, 68, 128}

Reg(a, b, t) == [start |-> a, end |-> b, type |-> t]

OneRegion ==
  {<<Reg(a, b, t)>> : a \in MCBounds, b \in MCBounds, t \in Types}

TwoRegions ==
  {<<Reg(a, b, t), Reg(c, d, u)>> :
     a \in MCBounds, b \in MCBounds, c \in MCBounds, d \in MCBounds,
     t \in Types, u \in Types}

\* ordered, disjoint, non-empty regions
MCMemoryMaps ==
  {m \in OneRegion \cup TwoRegions :
     \A k \in 1 .. Len(m) : m[k].start < m[k].end /\ (k > 1 => m[k - 1].end <= m[k].start)}
=============================================================================
