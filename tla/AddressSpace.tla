----------------------------- MODULE AddressSpace -----------------------------
(***************************************************************************)
(* Memory objects and address spaces (kernel/src/vm/mod.rs) as functions   *)
(* on values: the mapping slots of one address space, the bounded store of *)
(* TLB invalidations it still owes, and the mapping count of a memory      *)
(* object.                                                                 *)
(*                                                                         *)
(* Bases, sizes and offsets are in pages, so the alignment checks of the   *)
(* code hold of every value; its checked additions are on u64 bytes and    *)
(* appear as a comparison with AddressLimit pages.                         *)
(***************************************************************************)
EXTENDS KernelNames

CONSTANTS
  VmRangeCapacity,             \* DEFAULT_VM_RANGE_CAPACITY
  MaxPendingTlbInvalidations,  \* MAX_PENDING_TLB_INVALIDATIONS
  MaxSequence,                 \* where the sequence number panics: u64::MAX
  AddressLimit                 \* 2^64 bytes, in pages

ASSUME AddressSpaceAssumption ==
  /\ VmRangeCapacity \in Nat
  /\ MaxPendingTlbInvalidations \in Nat
  /\ MaxSequence \in Nat
  /\ AddressLimit \in Nat

RangeSlots == 1 .. VmRangeCapacity
WorkSlots == 1 .. MaxPendingTlbInvalidations

-----------------------------------------------------------------------------
(* Memory objects.                                                         *)

MemoryObjects ==
  [frames : {r \in [start : Nat, end : Nat] : r.start < r.end}, activeMappings : Nat]

(* MemoryObject::new takes a frame range of exactly size_bytes.            *)
NewMemoryObject(range) == [frames |-> range, activeMappings |-> 0]

SizeOf(memory) == memory.frames.end - memory.frames.start

(* Mutant: a mapping is not counted.                                       *)
AddMapping_Uncounted(memory) == memory

AddMapping(memory) == [memory EXCEPT !.activeMappings = @ + 1]

RemoveMapping(memory) == [memory EXCEPT !.activeMappings = @ - 1]

CanReclaim(memory) == memory.activeMappings = 0

-----------------------------------------------------------------------------
(* Address spaces.                                                         *)

Mappings ==
  [ base   : Nat,
    size   : Nat \ {0},
    memory : ObjectRefs,
    offset : Nat,
    rights : SUBSET MappingRights ]

Invalidations ==
  [ sequence : 0 .. MaxSequence,
    memory   : ObjectRefs,
    base     : Nat,
    size     : Nat \ {0} ]

ASSUME NoneIsNoRange == None \notin Mappings /\ None \notin Invalidations

AddressSpaces ==
  [ mappings     : [RangeSlots -> Mappings \cup {None}],
    count        : Nat,
    work         : [WorkSlots -> Invalidations \cup {None}],
    pending      : Nat,
    nextSequence : 0 .. MaxSequence ]

NewAddressSpace ==
  [ mappings     |-> [i \in RangeSlots |-> None],
    count        |-> 0,
    work         |-> [i \in WorkSlots |-> None],
    pending      |-> 0,
    nextSequence |-> 0 ]

EndOf(mapping) == mapping.base + mapping.size

Overlaps(m, n) == m.base < EndOf(n) /\ n.base < EndOf(m)

(* Mutant: only equal bases count as an overlap.                           *)
CanMap_SameBaseOnly(space, memory, m) ==
  /\ m.rights # {} /\ m.rights \subseteq MappingRights
  /\ m.base + m.size < AddressLimit
  /\ m.offset + m.size <= SizeOf(memory)
  /\ space.count # VmRangeCapacity
  /\ \A i \in RangeSlots : space.mappings[i] # None => m.base # space.mappings[i].base
  /\ FreeIn(space.mappings, RangeSlots) # {}

(* VmMapDescriptor::validate, MemoryObject::validate_mapping and           *)
(* VmRangeSet::reserve_map.  The policy of every memory object allows all  *)
(* mapping rights.                                                         *)
CanMap(space, memory, m) ==
  /\ m.rights # {} /\ m.rights \subseteq MappingRights
  /\ m.base + m.size < AddressLimit
  /\ m.offset + m.size <= SizeOf(memory)
  /\ space.count # VmRangeCapacity
  /\ \A i \in RangeSlots : space.mappings[i] # None => ~Overlaps(m, space.mappings[i])
  /\ FreeIn(space.mappings, RangeSlots) # {}

CommitMap(space, m) ==
  [space EXCEPT !.mappings[First(FreeIn(space.mappings, RangeSlots))] = m,
                !.count = @ + 1]

(* reserve_unmap: an unmap names exactly one mapping, by base and size.    *)
Matching(space, base, size) ==
  {i \in RangeSlots :
     /\ space.mappings[i] # None
     /\ space.mappings[i].base = base
     /\ EndOf(space.mappings[i]) = base + size}

CanUnmap(space, base, size) ==
  /\ Matching(space, base, size) # {}
  /\ FreeIn(space.work, WorkSlots) # {}

(* VmUnmapReservation::commit: the mapping goes, and the invalidation that *)
(* now keeps its memory object alive is queued under the next number.      *)
CommitUnmap(space, base, size) ==
  LET i == First(Matching(space, base, size))
  IN  [ mappings     |-> [space.mappings EXCEPT ![i] = None],
        count        |-> space.count - 1,
        work         |-> [space.work EXCEPT ![First(FreeIn(space.work, WorkSlots))] =
                            [ sequence |-> space.nextSequence,
                              memory   |-> space.mappings[i].memory,
                              base     |-> space.mappings[i].base,
                              size     |-> space.mappings[i].size ]],
        pending      |-> space.pending + 1,
        nextSequence |-> space.nextSequence + 1 ]

Mapped(space) == {i \in RangeSlots : space.mappings[i] # None}
Owed(space) == {i \in WorkSlots : space.work[i] # None}

(* Mutant: the first occupied slot is handed out.                          *)
NextWork_FirstSlot(space) == First({i \in WorkSlots : space.work[i] # None})

(* take_next: the pending invalidation with the least sequence number.     *)
NextWork(space) ==
  CHOOSE i \in Owed(space) :
    \A j \in Owed(space) : space.work[i].sequence <= space.work[j].sequence

TakeWork(space) ==
  [space EXCEPT !.work[NextWork(space)] = None, !.pending = @ - 1]

CanDestroySpace(space) == space.count = 0 /\ space.pending = 0

-----------------------------------------------------------------------------

(* The counters an address space decides by are right, its ranges do not   *)
(* overlap and end before the address limit, as VmMapping::end expects of  *)
(* them, and no two pending invalidations share a sequence number.         *)
ConsistentSpace(space) ==
  /\ space.count = Cardinality(Mapped(space))
  /\ space.pending = Cardinality(Owed(space))
  /\ \A i \in Mapped(space) : EndOf(space.mappings[i]) < AddressLimit
  /\ \A i, j \in Mapped(space) :
       i # j => ~Overlaps(space.mappings[i], space.mappings[j])
  /\ \A i, j \in Owed(space) :
       /\ space.work[i].sequence < space.nextSequence
       /\ i # j => space.work[i].sequence # space.work[j].sequence

=============================================================================
