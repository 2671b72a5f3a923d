---------------------------- MODULE FrameAllocator ----------------------------
(***************************************************************************)
(* The physical frame allocator of kernel/src/memory/frame.rs, as          *)
(* functions from frame tables to frame tables.                            *)
(*                                                                         *)
(* The code keeps its frames in an array sorted by physical address and a  *)
(* FrameId is an index into it.  Here a frame is its page number, so "the  *)
(* first index such that ..." is the least page such that ..., and a run   *)
(* of the array that is physically contiguous is an interval of pages.     *)
(* Sizes are in pages.  The state Reserved of the code is never entered.   *)
(***************************************************************************)
EXTENDS Options

CONSTANTS
  AvailableRanges,     \* the [start, end) page ranges handed over at boot
  MaxFrameGeneration   \* where FrameGeneration::next panics: u64::MAX

FrameRanges == {r \in [start : Nat, end : Nat] : r.start < r.end}

PagesOf(range) == range.start .. range.end - 1

(* ensure_non_overlapping and the check that the allocator is not empty.   *)
ASSUME AvailableRangesAssumption ==
  /\ IsFiniteSet(AvailableRanges)
  /\ AvailableRanges # {}
  /\ \A r \in AvailableRanges : r.start \in Nat /\ r.end \in Nat /\ r.start < r.end
  /\ \A r, s \in AvailableRanges :
        r # s => ~(r.start < s.end /\ s.start < r.end)

ASSUME FrameAssumption == MaxFrameGeneration \in Nat \ {0}

Pages == UNION {PagesOf(r) : r \in AvailableRanges}

(* A frame with no owner is FrameState::Free.                              *)
FrameTables(owners) ==
  [Pages -> [owner : owners \cup {None}, generation : 1 .. MaxFrameGeneration]]

InitialFrames == [p \in Pages |-> [owner |-> None, generation |-> 1]]

-----------------------------------------------------------------------------

Free(f) == {p \in Pages : f[p].owner = None}

(* contiguous_free_run: where a run of n free, adjacent frames can start.  *)
RunStarts(f, n) == {p \in Free(f) : n > 0 /\ p .. p + n - 1 \subseteq Free(f)}

FreeRun(f, n) ==
  LET start == First(RunStarts(f, n))
  IN  [start |-> start, end |-> start + n]

(* The tail of reserve_one and reserve_contiguous.                         *)
Grant(f, pages, owner) ==
  [p \in Pages |-> IF p \in pages THEN [f[p] EXCEPT !.owner = owner] ELSE f[p]]

(* Mutant: the generation is advanced without a check.                     *)
CanRelease_Unchecked(f, pages) == TRUE

(* A freed frame starts a new generation, so that a reference handed out   *)
(* for the old one is refused.                                             *)
CanRelease(f, pages) == \A p \in pages : f[p].generation < MaxFrameGeneration

(* Mutant: a freed frame keeps its generation.                             *)
Release_SameGeneration(f, pages) ==
  [p \in Pages |-> IF p \in pages THEN [f[p] EXCEPT !.owner = None] ELSE f[p]]

(* Mutant: only the first frame of a range is freed.                       *)
Release_FirstOnly(f, pages) ==
  [p \in Pages |-> IF p \in pages /\ \A q \in pages : p <= q
                   THEN [owner |-> None, generation |-> f[p].generation + 1]
                   ELSE f[p]]

Release(f, pages) ==
  [p \in Pages |-> IF p \in pages
                   THEN [owner |-> None, generation |-> f[p].generation + 1]
                   ELSE f[p]]

(* The checks of free_range: every page of the range is a managed frame    *)
(* and every one of them belongs to the owner.                             *)
OwnsRange(f, range, owner) ==
  \A p \in PagesOf(range) : p \in Pages /\ f[p].owner = owner

=============================================================================
