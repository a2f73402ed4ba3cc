---------------------------- MODULE FrameSource ----------------------------
(***************************************************************************)
(* What a 4 KiB frame allocator over a boot memory map promises            *)
(* (x86_64's FrameAllocator<Size4KiB>, as the kernel's mapper uses it):    *)
(* each call returns a 4 KiB frame of a usable region that no earlier call *)
(* returned, or None, and None only once every such frame has been         *)
(* returned.                                                               *)
(***************************************************************************)
EXTENDS Naturals, Sequences

CONSTANTS
  MaxAddr,     \* memory map addresses (4 KiB units) range over 0..MaxAddr
  MemoryMaps   \* the boot memory maps, sequences of [start, end, type]

VARIABLES
  memmap,  \* the boot memory map
  given,   \* the frames returned so far
  failed   \* a call has returned None

vars == <<memmap, given, failed>>

\* the 4 KiB frames lying in a usable region of mm
UsableFrames(mm) ==
  {a \in 0 .. MaxAddr : \E k \in 1 .. Len(mm) :
     mm[k].type = "Usable" /\ mm[k].start <= a /\ a + 1 <= mm[k].end}

Init ==
  /\ memmap \in MemoryMaps
  /\ given = {}
  /\ failed = FALSE

\* a call that returns a fresh usable frame
AllocateFrame ==
  /\ \E f \in UsableFrames(memmap) \ given : given' = given \cup {f}
  /\ UNCHANGED <<memmap, failed>>

\* a call that returns None: every usable frame is out
Exhausted ==
  /\ UsableFrames(memmap) \subseteq given
  /\ failed' = TRUE
  /\ UNCHANGED <<memmap, given>>

Next == AllocateFrame \/ Exhausted

Spec == Init /\ [][Next]_vars
=============================================================================
