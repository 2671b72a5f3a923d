------------------------------ MODULE EarlyFrames ------------------------------
(***************************************************************************)
(* The boot-time frame allocator of ostd/src/mm/frame.rs: the firmware's   *)
(* memory map is cut down to whole usable pages outside the reserved       *)
(* ranges, once, and pages are then handed out in order and never taken    *)
(* back.  Every call holds the lock of EARLY_FRAME_ALLOCATOR from its      *)
(* first line to its last, so each is one step.                            *)
(*                                                                         *)
(* Addresses are natural numbers below AddressLimit: a sum that reaches it *)
(* is what checked_add refuses.  The two scans over the reserved ranges    *)
(* compute a largest end and a smallest start, so `reserved' is a set; the *)
(* order of the regions decides the order of the map, so they are a        *)
(* sequence.                                                               *)
(***************************************************************************)
EXTENDS Integers, Sequences, SequencesExt

CONSTANTS
  None,          \* a model value: no allocator yet
  PageSize,      \* PAGE_SIZE
  MapCapacity,   \* EARLY_FRAME_REGIONS: the ranges a normalized map can hold
  AddressLimit,  \* 2^64
  MemoryMaps,    \* the <<regions, reserved>> pairs boot code may start from
  Layouts        \* the [size, align] requests

Addresses == 0 .. AddressLimit - 1

(* What FrameRange::new lets through: whole pages, at least one.           *)
FrameRanges ==
  {r \in [start : Addresses, end : Addresses] :
     r.start < r.end /\ r.start % PageSize = 0 /\ r.end % PageSize = 0}

MemoryRegions == [start : Addresses, end : Addresses, kind : {"Usable", "Reserved"}]

(* Pages and alignments are powers of two, so one divides the other.       *)
ASSUME EarlyAssumption ==
  /\ PageSize \in Nat \ {0} /\ MapCapacity \in Nat /\ AddressLimit \in Nat
  /\ \A layout \in Layouts :
       /\ layout.size \in Nat /\ layout.align \in Nat \ {0}
       /\ layout.align % PageSize = 0 \/ PageSize % layout.align = 0

ASSUME MapAssumption ==
  /\ None \notin [ranges : Seq(FrameRanges), next : Seq(Addresses)]
  /\ \A map \in MemoryMaps :
       map[1] \in Seq(MemoryRegions) /\ map[2] \subseteq FrameRanges

VARIABLES
  allocator,  \* EarlyFrameAllocatorState.allocator: None or its ranges and cursors
  boot,       \* the regions and reserved ranges it was made from
  granted     \* every range handed out so far, the layout it was for, its number

vars == <<allocator, boot, granted>>

AlignDown(value, align) == value - (value % align)

(* align_up, where the sum does not overflow.                              *)
CanAlignUp(value, align) == value + align - 1 < AddressLimit
AlignUp(value, align) == AlignDown(value + align - 1, align)

-----------------------------------------------------------------------------
(* Normalization of the firmware's map.                                    *)

(* normalize_usable_region: the whole pages of a region, or no range.      *)
HasWholePage(region) ==
  /\ CanAlignUp(region.start, PageSize)
  /\ AlignUp(region.start, PageSize) < AlignDown(region.end, PageSize)

(* Mutant: the start is not rounded up.                                    *)
WholePages_RaggedStart(region) ==
  [start |-> region.start, end |-> AlignDown(region.end, PageSize)]

WholePages(region) ==
  [start |-> AlignUp(region.start, PageSize), end |-> AlignDown(region.end, PageSize)]

(* Mutant: a range that starts at the cursor does not cover it.            *)
CoveringEnd_Strict(cursor, limit, reserved) ==
  LET ends == {r.end : r \in {s \in reserved : s.start < cursor /\ s.end > cursor}}
  IN  Min({limit, Max(ends \cup {cursor})})

(* covering_reserved_end: where the reserved ranges over the cursor end,   *)
(* or the cursor when none is over it.                                     *)
CoveringEnd(cursor, limit, reserved) ==
  LET ends == {r.end : r \in {s \in reserved : s.start <= cursor /\ s.end > cursor}}
  IN  Min({limit, Max(ends \cup {cursor})})

(* next_reserved_start: where the next reserved range begins, or limit.    *)
NextStart(cursor, limit, reserved) ==
  Min({r.start : r \in {s \in reserved : s.start > cursor}} \cup {limit})

(* push_available_range, from a cursor on.  A covered cursor moves to the  *)
(* end of what covers it, a free one yields a segment up to the next       *)
(* reserved start.                                                         *)
Segments(range, reserved) ==
  LET from[cursor \in 0 .. range.end] ==
        IF cursor = range.end THEN << >>
        ELSE LET covered == CoveringEnd(cursor, range.end, reserved)
                 end == NextStart(cursor, range.end, reserved)
             IN  IF covered # cursor THEN from[covered]
                 ELSE <<[start |-> cursor, end |-> end]>> \o from[end]
  IN  from[range.start]

(* normalize_memory_regions_with_reserved, before the capacity check that  *)
(* its push makes.                                                         *)
Normalized(regions, reserved) ==
  FlattenSeq([ i \in DOMAIN regions |->
    IF regions[i].kind = "Usable" /\ HasWholePage(regions[i])
    THEN Segments(WholePages(regions[i]), reserved)
    ELSE << >> ])

-----------------------------------------------------------------------------
(* Allocation.                                                             *)

Align(layout) == Max({layout.align, PageSize})

(* Mutant: the cursor is rounded down.                                     *)
Place_RoundsDown(layout, cursor) ==
  LET start == AlignDown(cursor, Align(layout))
  IN  [start |-> start, end |-> start + AlignUp(layout.size, PageSize)]

(* allocate_from_range after normalize_layout: the first aligned place at  *)
(* or after the cursor.                                                    *)
Place(layout, cursor) ==
  LET start == AlignUp(cursor, Align(layout))
  IN  [start |-> start, end |-> start + AlignUp(layout.size, PageSize)]

(* Mutant: only the first page is checked against the end of the range.    *)
Fits_StartOnly(layout, i) ==
  /\ CanAlignUp(layout.size, PageSize)
  /\ CanAlignUp(allocator.next[i], Align(layout))
  /\ Place(layout, allocator.next[i]).start < allocator.ranges[i].end

Fits(layout, i) ==
  /\ CanAlignUp(layout.size, PageSize)
  /\ CanAlignUp(allocator.next[i], Align(layout))
  /\ Place(layout, allocator.next[i]).end < AddressLimit
  /\ Place(layout, allocator.next[i]).end <= allocator.ranges[i].end

-----------------------------------------------------------------------------
(* EarlyFrameAllocatorState::uninitialized.                                *)
Init ==
  /\ allocator = None
  /\ boot = None
  /\ granted = {}

(* init_from_regions: a second call, a map with too many ranges and one    *)
(* with none are refused and change nothing.                               *)
InitFromRegions(regions, reserved) ==
  /\ allocator = None
  /\ LET map == Normalized(regions, reserved)
     IN  /\ Len(map) \in 1 .. MapCapacity
         /\ allocator' = [ranges |-> map, next |-> [i \in DOMAIN map |-> map[i].start]]
  /\ boot' = [regions |-> regions, reserved |-> reserved]
  /\ UNCHANGED granted

(* allocate: the first range with room for the request.                    *)
Allocate(layout) ==
  /\ allocator # None
  /\ layout.size > 0
  /\ LET fitting == {i \in DOMAIN allocator.ranges : Fits(layout, i)}
         i == Min(fitting)
         place == Place(layout, allocator.next[i])
     IN  /\ fitting # {}
         /\ allocator' = [allocator EXCEPT !.next[i] = place.end]
         /\ granted' = granted \cup
              {[range |-> place, layout |-> layout, nth |-> Cardinality(granted)]}
  /\ UNCHANGED boot

Next ==
  \/ \E map \in MemoryMaps : InitFromRegions(map[1], map[2])
  \/ \E layout \in Layouts : Allocate(layout)

Spec == Init /\ [][Next]_vars

-----------------------------------------------------------------------------

Bytes(range) == range.start .. range.end - 1

(* The pages a careful reader of the map would call available: every byte  *)
(* in one usable region, none in a reserved range.                         *)
Available ==
  {p \in 0 .. AddressLimit \div PageSize - 1 :
     LET page == [start |-> p * PageSize, end |-> (p + 1) * PageSize]
     IN  /\ \E i \in DOMAIN boot.regions :
              /\ boot.regions[i].kind = "Usable"
              /\ Bytes(page) \subseteq Bytes(boot.regions[i])
         /\ \A r \in boot.reserved : Bytes(page) \cap Bytes(r) = {}}

(* The cursors stay in their ranges and on page boundaries, so that        *)
(* remaining, which subtracts one from the other, is never negative.       *)
TypeOK ==
  allocator # None =>
    /\ Len(allocator.ranges) \in 1 .. MapCapacity
    /\ \A i \in DOMAIN allocator.ranges :
         LET range == allocator.ranges[i]
         IN  /\ range.start < range.end /\ range.end < AddressLimit
             /\ allocator.next[i] \in range.start .. range.end
             /\ \A a \in {range.start, range.end, allocator.next[i]} : a % PageSize = 0

(* The allocator manages the available pages of the map, every one and no  *)
(* other: splitting around reserved ranges that overlap, touch, lie inside *)
(* one another or across a region's edge loses nothing and leaks nothing.  *)
MapIsExact ==
  allocator # None =>
    UNION {Bytes(allocator.ranges[i]) : i \in DOMAIN allocator.ranges}
      = {a \in 0 .. AddressLimit - 1 : a \div PageSize \in Available}

(* While the firmware's usable regions do not overlap, no byte is handed   *)
(* out twice, whatever the order of the requests and their alignment.      *)
GrantsAreDisjoint ==
  \A g, h \in granted : g # h => Bytes(g.range) \cap Bytes(h.range) = {}

(* A grant holds the size and has the alignment that was asked for, and is *)
(* part of one range of the map: it never runs on into the hole after it.  *)
GrantsFitOneRange ==
  \A g \in granted :
    /\ g.range.end - g.range.start >= g.layout.size
    /\ g.range.start % g.layout.align = 0
    /\ \E i \in DOMAIN allocator.ranges :
         Bytes(g.range) \subseteq Bytes(allocator.ranges[i])

(* The test normalizes_only_usable_page_ranges says of the map: reserved   *)
(* regions never enter allocator input.                                    *)
ReservedRegionsStayOut ==
  allocator # None =>
    \A i \in DOMAIN allocator.ranges, j \in DOMAIN boot.regions :
      boot.regions[j].kind = "Reserved" =>
        Bytes(allocator.ranges[i]) \cap Bytes(boot.regions[j]) = {}

=============================================================================
