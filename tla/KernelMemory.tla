----------------------------- MODULE KernelMemory -----------------------------
(***************************************************************************)
(* Why memory is where the tables say it is: what an address space maps or *)
(* still has to flush is a live memory object that counts it, a live       *)
(* memory object has its frames and no other frame is taken, and what      *)
(* nobody can reach any more is gone.                                      *)
(*                                                                         *)
(* Every call is reduced to what it does to the mappings and the pending   *)
(* invalidations of the address spaces, to the memory objects and to the   *)
(* frames.                                                                 *)
(*                                                                         *)
(* From there on, that the kernel implements its three contracts.          *)
(***************************************************************************)
EXTENDS KernelReferences, KernelContracts

IsMemory(id) == objects[id] # None /\ objects[id].kind = "MemoryObject"

IsSpace(s) == objects[s] # None /\ objects[s].kind = "AddressSpace"

MappingAt(s, i) == IF IsSpace(s) THEN objects[s].payload.mappings[i] ELSE None

WorkAt(s, j) == IF IsSpace(s) THEN objects[s].payload.work[j] ELSE None

Extent(id) == objects[id].payload.frames

Active(id) == objects[id].payload.activeMappings

(* What a call may leave alone.                                            *)
MemoryStays(id) ==
  /\ IsMemory(id)' <=> IsMemory(id)
  /\ IsMemory(id) => objects'[id].payload = objects[id].payload

MappingsStay == \A s \in ObjectIds, i \in RangeSlots : MappingAt(s, i)' = MappingAt(s, i)

WorkStays == \A s \in ObjectIds, j \in WorkSlots : WorkAt(s, j)' = WorkAt(s, j)

MemoriesStay == \A id \in ObjectIds : MemoryStays(id)

NothingGone == \A id \in ObjectIds : objects[id] # None => objects'[id] # None

(* Calls that neither map nor unmap and make or drop no memory object.     *)
Idle ==
  /\ MappingsStay /\ WorkStays /\ MemoriesStay /\ GenerationsFree
  /\ UNCHANGED frames
  /\ NothingGone \/ "destroy" \in HostCalls

(* CreateMemoryObject: a free run of frames for a free entry.              *)
MakesMemory(id, range) ==
  /\ objects[id] = None
  /\ IsMemory(id)' /\ objects'[id].payload = NewMemoryObject(range)
  /\ PagesOf(range) \subseteq Free(frames)
  /\ frames' = Grant(frames, PagesOf(range), RefTo(id))
  /\ MappingsStay /\ WorkStays /\ NothingGone
  /\ \A o \in ObjectIds \ {id} : MemoryStays(o)
  /\ UNCHANGED generations

(* A memory object that goes on with n references from address spaces.     *)
GoesOn(id, n) ==
  /\ IsMemory(id) /\ IsMemory(id)'
  /\ Extent(id)' = Extent(id) /\ Active(id)' = n
  /\ \A o \in ObjectIds \ {id} : MemoryStays(o)
  /\ GenerationsFree /\ NothingGone
  /\ UNCHANGED frames

(* A memory object that is reclaimed with its frames.                      *)
IsReclaimed(id) ==
  /\ IsMemory(id) /\ objects'[id] = None
  /\ frames' = Release(frames, PagesOf(Extent(id)))
  /\ \A o \in ObjectIds \ {id} : MemoryStays(o) /\ (objects[o] # None => objects'[o] # None)
  /\ GenerationsFree

(* map_memory_object: a mapping of memory object id in an empty slot of an *)
(* address space that the caller has a handle to.                          *)
Maps(s, i, id, mapping) ==
  /\ IsSpace(s) /\ Held(RefTo(s)) # {}
  /\ MappingAt(s, i) = None
  /\ mapping # None /\ mapping.memory = RefTo(id)
  /\ mapping.offset + mapping.size <= SizeOf(objects[id].payload)
  /\ \A t \in ObjectIds, k \in RangeSlots :
       MappingAt(t, k)' = IF t = s /\ k = i THEN mapping ELSE MappingAt(t, k)
  /\ WorkStays
  /\ GoesOn(id, Active(id) + 1)

(* unmap_address_range: what a mapping referred to is now referred to by a *)
(* pending invalidation, the latest of its address space.                  *)
Unmaps(s, i, j, work) ==
  /\ MappingAt(s, i) # None /\ WorkAt(s, j) = None
  /\ work # None /\ work.memory = MappingAt(s, i).memory
  /\ work.base = MappingAt(s, i).base /\ work.size = MappingAt(s, i).size
  /\ \A k \in WorkSlots : WorkAt(s, k) # None => WorkAt(s, k).sequence < work.sequence
  /\ \A t \in ObjectIds, k \in RangeSlots :
       MappingAt(t, k)' = IF t = s /\ k = i THEN None ELSE MappingAt(t, k)
  /\ \A t \in ObjectIds, k \in WorkSlots :
       WorkAt(t, k)' = IF t = s /\ k = j THEN work ELSE WorkAt(t, k)
  /\ MemoriesStay /\ GenerationsFree /\ NothingGone
  /\ UNCHANGED frames

(* take_next_tlb_work: the oldest pending invalidation of an address space *)
(* goes, and with the last reference perhaps the memory object.            *)
Drops(s, j, id) ==
  /\ WorkAt(s, j) # None /\ WorkAt(s, j).memory = RefTo(id)
  /\ \A k \in WorkSlots : WorkAt(s, k) # None => WorkAt(s, j).sequence <= WorkAt(s, k).sequence
  /\ MappingsStay
  /\ \A t \in ObjectIds, k \in WorkSlots :
       WorkAt(t, k)' = IF t = s /\ k = j THEN None ELSE WorkAt(t, k)
  /\ Still
  /\ \/ Active(id) = 1 /\ objects[id].handleCount = 0 /\ IsReclaimed(id)
     \/ ~(Active(id) = 1 /\ objects[id].handleCount = 0) /\ GoesOn(id, Active(id) - 1)

(* The close of the last handle of a memory object that nothing maps.      *)
Reclaims(id) ==
  /\ MappingsStay /\ WorkStays
  /\ Active(id) = 0 /\ IsReclaimed(id)
  /\ \E p \in ProcessIds, S \in SUBSET Slots : Closes(p, S, RefTo(id))

MemoryKinds ==
  \/ Idle
  \/ \E id \in ObjectIds, range \in FrameRanges : MakesMemory(id, range)
  \/ \E s, id \in ObjectIds, i \in RangeSlots, mapping \in Mappings : Maps(s, i, id, mapping)
  \/ \E s \in ObjectIds, i \in RangeSlots, j \in WorkSlots, work \in Invalidations :
       Unmaps(s, i, j, work)
  \/ \E s, id \in ObjectIds, j \in WorkSlots : Drops(s, j, id)
  \/ \E id \in ObjectIds : Reclaims(id)

-----------------------------------------------------------------------------
(* Calls that leave memory alone.                                          *)

(* An object that has nothing to do with memory.                           *)
Inert(o) == o.kind # "MemoryObject" /\ o.kind # "AddressSpace"

(* An entry that holds nothing of memory before and after.                 *)
Bare(id) ==
  /\ ~IsMemory(id)
  /\ \A i \in RangeSlots : MappingAt(id, i) = None
  /\ \A j \in WorkSlots : WorkAt(id, j) = None

(* An entry that a call leaves alone as far as memory is concerned.        *)
Quiet(id) ==
  \/ objects'[id] = objects[id]
  \/ /\ objects[id] # None /\ objects'[id] # None
     /\ objects'[id].kind = objects[id].kind /\ objects'[id].payload = objects[id].payload
  \/ Bare(id) /\ Bare(id)'

(* An empty entry and one of another kind are bare.                        *)
LEMMA InertBare ==
  ASSUME NEW id
  PROVE  /\ objects[id] = None \/ Inert(objects[id]) => Bare(id)
         /\ objects'[id] = None \/ Inert(objects'[id]) => Bare(id)'
         /\ objects'[id].kind = "AddressSpace" /\ objects'[id].payload = NewAddressSpace
              => Bare(id)'
<1>1. objects[id] = None \/ Inert(objects[id]) => Bare(id)
  BY DEF Inert, Bare, IsMemory, IsSpace, MappingAt, WorkAt
<1>2. objects'[id] = None \/ Inert(objects'[id]) => Bare(id)'
  BY DEF Inert, Bare, IsMemory, IsSpace, MappingAt, WorkAt
<1>3. objects'[id].kind = "AddressSpace" /\ objects'[id].payload = NewAddressSpace => Bare(id)'
  BY DEF Bare, IsMemory, IsSpace, MappingAt, WorkAt, NewAddressSpace
<1> QED
  BY <1>1, <1>2, <1>3

(* Quiet entries stay as they are.                                         *)
LEMMA QuietStays ==
  ASSUME \A id \in ObjectIds : Quiet(id)
  PROVE  MappingsStay /\ WorkStays /\ MemoriesStay
<1>1. ASSUME NEW id \in ObjectIds
      PROVE  /\ MemoryStays(id)
             /\ \A i \in RangeSlots : MappingAt(id, i)' = MappingAt(id, i)
             /\ \A j \in WorkSlots : WorkAt(id, j)' = WorkAt(id, j)
  <2>1. CASE objects'[id] = objects[id]
    BY <2>1 DEF MemoryStays, IsMemory, IsSpace, MappingAt, WorkAt
  <2>2. CASE /\ objects[id] # None /\ objects'[id] # None
             /\ objects'[id].kind = objects[id].kind /\ objects'[id].payload = objects[id].payload
    BY <2>2 DEF MemoryStays, IsMemory, IsSpace, MappingAt, WorkAt
  <2>3. CASE Bare(id) /\ Bare(id)'
    BY <2>3 DEF Bare, MemoryStays
  <2> QED
    BY <2>1, <2>2, <2>3 DEF Quiet
<1> QED
  BY <1>1 DEF MappingsStay, WorkStays, MemoriesStay

(* Without a new generation nothing goes.                                  *)
LEMMA GenerationsKeep ==
  ASSUME KernelOK, StepOK, UNCHANGED generations
  PROVE  GenerationsFree /\ NothingGone
<1>1. \A id \in ObjectIds : generations[id] \in Nat
  BY KernelNamesAssumption DEF KernelOK
<1> QED
  BY <1>1 DEF StepOK, ObjectsKept, GenerationsFree, NothingGone

(* A call that changes one entry, and it is no matter of memory.           *)
LEMMA OneQuiet ==
  ASSUME KernelOK, StepOK, NEW id \in ObjectIds, NEW o, objects' = [objects EXCEPT ![id] = o],
         \/ objects[id] # None /\ o.kind = objects[id].kind /\ o.payload = objects[id].payload
         \/ (objects[id] = None \/ Inert(objects[id])) /\ Inert(o)
         \/ objects[id] = None /\ o.kind = "AddressSpace" /\ o.payload = NewAddressSpace,
         UNCHANGED <<generations, frames>>
  PROVE  Idle
<1>1. \A other \in ObjectIds : objects'[other] = IF other = id THEN o ELSE objects[other]
  BY DEF KernelOK, ObjectTables
<1>2. GenerationsFree /\ NothingGone
  BY GenerationsKeep
<1>3. Quiet(id)
  BY <1>1, <1>2, InertBare DEF Quiet, NothingGone
<1>4. MappingsStay /\ WorkStays /\ MemoriesStay
  BY <1>1, <1>3, QuietStays DEF Quiet
<1> QED
  BY <1>2, <1>4 DEF Idle

(* Nothing happens.                                                        *)
LEMMA NoneIdle ==
  ASSUME UNCHANGED <<objects, frames>>, GenerationsFree
  PROVE  Idle
BY QuietStays DEF Quiet, NothingGone, Idle

(* The create calls but CreateMemoryObject make nothing that has to do     *)
(* with memory, or an empty address space.                                 *)
LEMMA CreateIdle ==
  ASSUME KernelOK, StepOK,
         \/ \E p \in ProcessIds : CreateBootstrapProcess(p)
         \/ \E p \in ProcessIds, kind \in CreatableKinds, rights \in RightsChoices :
              CreateObject(p, kind, rights)
  PROVE  Idle
<1> DEFINE id == First(FreeIds)
<1>1. FreeIds # {} /\ UNCHANGED <<generations, frames>>
  BY DEF CreateBootstrapProcess, CreateObject, Publish
<1>2. id \in ObjectIds /\ objects[id] = None
  BY <1>1, FreeEntry
<1>3. PICK kind \in CreatableKinds \cup {"Process"} :
        objects' = [objects EXCEPT ![id] = AddHandle(NewObject(kind, NewPayload(kind)))]
  <2>1. NewPayload("Process") = "Initial"
    BY DEF NewPayload
  <2> QED
    BY <2>1 DEF CreateBootstrapProcess, CreateObject, Publish
<1> DEFINE o == AddHandle(NewObject(kind, NewPayload(kind)))
<1>4. o.kind = kind /\ o.payload = NewPayload(kind)
  BY NewObjectParts
<1>5. \/ Inert(o)
      \/ o.kind = "AddressSpace" /\ o.payload = NewAddressSpace
  <2>1. kind # "MemoryObject"
    BY KernelAssumption
  <2>2. kind = "AddressSpace" => NewPayload(kind) = NewAddressSpace
    BY DEF NewPayload
  <2> HIDE DEF o
  <2> QED
    BY <1>4, <2>1, <2>2 DEF Inert
<1> HIDE DEF o, id
<1> QED
  BY <1>1, <1>2, <1>3, <1>5, OneQuiet DEF o

(* A new pair has nothing to do with memory.                               *)
LEMMA PairIdle ==
  ASSUME KernelOK, StepOK, NEW p \in ProcessIds, Running(p),
         NEW max \in MessageLimits, NEW rights \in RightsChoices,
         CreateChannelPair(p, max, rights)
  PROVE  Idle
<1>1. PICK one, two \in ObjectIds, s, t \in Slots : PairMade(p, max, rights, one, two, s, t)
  BY PairEffect
<1>2. UNCHANGED <<generations, frames>>
  BY DEF CreateChannelPair
<1>3. \A id \in ObjectIds :
        objects'[id] = IF id = two THEN PairEnd(max, one)
                       ELSE IF id = one THEN PairEnd(max, two) ELSE objects[id]
  BY <1>1 DEF PairMade, KernelOK, ObjectTables
<1>4. \A peer : PairEnd(max, peer).kind = "ChannelEndpoint"
  BY NewObjectParts DEF PairEnd
<1>5. \A id \in ObjectIds : Quiet(id)
  <2>1. \A id \in {one, two} : objects[id] = None /\ Inert(objects'[id])
    BY <1>1, <1>3, <1>4 DEF PairMade, Inert
  <2> QED
    BY <1>3, <2>1, InertBare DEF Quiet
<1> QED
  BY <1>2, <1>5, QuietStays, GenerationsKeep DEF Idle

(* One more handle to an object.                                           *)
LEMMA DuplicateIdle ==
  ASSUME KernelOK, StepOK, NEW p \in ProcessIds, Running(p),
         NEW source \in Slots, NEW rights \in RightsChoices,
         DuplicateHandle(p, source, rights)
  PROVE  Idle
<1> DEFINE id == Handles(p).entry[source].object.id
           o == AddHandle(objects[id])
<1>1. id \in ObjectIds /\ objects[id] # None
  BY NameableEntry DEF DuplicateHandle, Valid, Live
<1>2. /\ objects' = [objects EXCEPT ![id] = o]
      /\ UNCHANGED <<generations, frames>>
  BY DEF DuplicateHandle
<1>3. o.kind = objects[id].kind /\ o.payload = objects[id].payload
  <2>1. objects[id] = [ kind |-> objects[id].kind, handleCount |-> objects[id].handleCount,
                        payload |-> objects[id].payload ]
    BY <1>1, LiveObject, ObjectParts
  <2> QED
    BY <2>1 DEF AddHandle
<1> HIDE DEF id, o
<1> QED
  BY <1>1, <1>2, <1>3, OneQuiet

(* A new payload of an object that is no matter of memory.                 *)
LEMMA PayloadIdle ==
  ASSUME KernelOK, StepOK, NEW id \in ObjectIds, NEW payload,
         objects[id] # None, Inert(objects[id]),
         objects' = [objects EXCEPT ![id].payload = payload],
         UNCHANGED <<generations, frames>>
  PROVE  Idle
<1> DEFINE o == [objects[id] EXCEPT !.payload = payload]
<1>1. o.kind = objects[id].kind
  <2>1. objects[id] = [ kind |-> objects[id].kind, handleCount |-> objects[id].handleCount,
                        payload |-> objects[id].payload ]
    BY LiveObject, ObjectParts
  <2> QED
    BY <2>1
<1>2. Inert(o)
  BY <1>1 DEF Inert
<1>3. objects' = [objects EXCEPT ![id] = o]
  OBVIOUS
<1> HIDE DEF o
<1> QED
  BY <1>2, <1>3, OneQuiet

(* Messages, and the state of an event.                                    *)
LEMMA MessageIdle ==
  ASSUME KernelOK, StepOK,
         \/ \E p \in ProcessIds, channel \in Slots, moved \in HandleLists :
              Running(p) /\ ChannelSend(p, channel, moved)
         \/ \E p \in ProcessIds, channel \in Slots : Running(p) /\ ChannelRecv(p, channel)
         \/ \E id \in ObjectIds, state \in {"Unsignaled", "Signaled"} : SetEvent(id, state)
  PROVE  Idle
<1>1. ASSUME NEW p \in ProcessIds, NEW channel \in Slots, NEW moved \in HandleLists,
             Running(p), ChannelSend(p, channel, moved)
      PROVE  Idle
  <2> DEFINE c == ObjectOf(p, channel)
             peer == objects[c].payload.peer
             message == [k \in DOMAIN moved |-> Handles(p).entry[moved[k]]]
             queue == Enqueue(objects[peer.id].payload, message)
  <2>1. /\ Lookup(p, channel, "ChannelEndpoint", {"WRITE"})
        /\ peer # None /\ Valid(peer, "ChannelEndpoint")
        /\ objects' = [objects EXCEPT ![peer.id].payload = queue]
        /\ UNCHANGED <<generations, frames>>
    BY <1>1 DEF ChannelSend
  <2>2. c \in ObjectIds /\ objects[c] \in WellFormedObjects /\ objects[c].kind = "ChannelEndpoint"
    BY <1>1, <2>1, LookupObject
  <2>3. objects[c].payload \in Endpoints
    BY <2>2, PayloadOf DEF WellFormedEndpoint
  <2>4. peer \in ObjectRefs
    BY <2>1, <2>3 DEF Endpoints
  <2>5. peer.id \in ObjectIds /\ objects[peer.id] # None /\ objects[peer.id].kind = "ChannelEndpoint"
    BY <2>1, <2>4, ValidObject
  <2> HIDE DEF c, peer, queue
  <2> QED
    BY <2>1, <2>5, PayloadIdle DEF Inert
<1>2. ASSUME NEW p \in ProcessIds, NEW channel \in Slots, Running(p), ChannelRecv(p, channel)
      PROVE  Idle
  <2> DEFINE c == ObjectOf(p, channel)
  <2>1. /\ Lookup(p, channel, "ChannelEndpoint", {"READ"})
        /\ objects' = [objects EXCEPT ![c].payload = Dequeue(objects[c].payload)]
        /\ UNCHANGED <<generations, frames>>
    BY <1>2 DEF ChannelRecv
  <2>2. c \in ObjectIds /\ objects[c] # None /\ objects[c].kind = "ChannelEndpoint"
    BY <1>2, <2>1, LookupObject, ObjectParts
  <2> HIDE DEF c
  <2> QED
    BY <2>1, <2>2, PayloadIdle DEF Inert
<1>3. ASSUME NEW id \in ObjectIds, NEW state, SetEvent(id, state)
      PROVE  Idle
  BY <1>3, PayloadIdle DEF SetEvent, Inert
<1> QED
  BY <1>1, <1>2, <1>3

(* destroy takes no memory object, and an address space only when nothing  *)
(* is mapped in it and nothing is pending.                                 *)
LEMMA DestroyIdle ==
  ASSUME KernelOK, NEW id \in ObjectIds, DestroyObject(id)
  PROVE  Idle
<1>1. /\ "destroy" \in HostCalls /\ Destroyable(objects[id]) /\ objects[id] # None
      /\ UNCHANGED frames
  BY DEF DestroyObject
<1>2. Destroys(id)
  BY DestroyEffect
<1>3. Bare(id)
  <2>1. CASE IsSpace(id)
    <3>1. WellFormedSpace(objects[id].payload) /\ CanDestroySpace(objects[id].payload)
      BY <1>1, <2>1, LiveObject, PayloadOf DEF IsSpace, Destroyable
    <3>2. Mapped(objects[id].payload) = {} /\ Owed(objects[id].payload) = {}
      BY <3>1, SpaceParts DEF CanDestroySpace
    <3> QED
      BY <2>1, <3>2 DEF Bare, IsMemory, IsSpace, MappingAt, WorkAt, Mapped, Owed
  <2>2. CASE ~IsSpace(id)
    BY <1>1, <2>2 DEF Bare, IsMemory, IsSpace, MappingAt, WorkAt, Destroyable
  <2> QED
    BY <2>1, <2>2
<1>4. ASSUME NEW o \in ObjectIds
      PROVE  Quiet(o)
  <2>1. CASE o = id
    BY <1>2, <1>3, <2>1, InertBare DEF Quiet, Destroys
  <2>2. CASE o # id /\ LosesPeer(id, o)
    <3>1. Inert(objects[o]) /\ Inert(objects'[o])
      BY <1>2, <2>2 DEF Destroys, Inert
    <3> QED
      BY <3>1, InertBare DEF Quiet
  <2>3. CASE o # id /\ ~LosesPeer(id, o)
    BY <1>2, <2>3 DEF Destroys, Quiet
  <2> QED
    BY <2>1, <2>2, <2>3
<1> QED
  BY <1>1, <1>2, <1>4, QuietStays DEF Idle, Destroys

-----------------------------------------------------------------------------
(* Calls that map, unmap, flush and reclaim.                               *)

(* A mapping goes into a slot that was empty.                              *)
LEMMA CommitMapSlots ==
  ASSUME NEW a, WellFormedSpace(a), NEW memory, NEW m \in Mappings, CanMap(a, memory, m)
  PROVE  \E s \in RangeSlots :
           /\ a.mappings[s] = None
           /\ \A i \in RangeSlots :
                CommitMap(a, m).mappings[i] = IF i = s THEN m ELSE a.mappings[i]
           /\ CommitMap(a, m).work = a.work
<1> DEFINE s == First(FreeIn(a.mappings, RangeSlots))
<1>1. s \in RangeSlots /\ a.mappings[s] = None
  BY FirstFree, AddressSpaceAssumption DEF CanMap, RangeSlots
<1>2. a \in AddressSpaces
  BY SpaceParts
<1>3. /\ CommitMap(a, m).mappings = [a.mappings EXCEPT ![s] = m]
      /\ CommitMap(a, m).work = a.work
  BY <1>2 DEF CommitMap, AddressSpaces
<1> HIDE DEF s
<1>4. \A i \in RangeSlots : CommitMap(a, m).mappings[i] = IF i = s THEN m ELSE a.mappings[i]
  BY <1>1, <1>2, <1>3 DEF AddressSpaces
<1> QED
  BY <1>1, <1>3, <1>4

(* What an unmapped slot referred to, a slot that owed nothing refers to.  *)
LEMMA CommitUnmapSlots ==
  ASSUME NEW a, WellFormedSpace(a), NEW base, NEW size, CanUnmap(a, base, size),
         a.nextSequence < MaxSequence
  PROVE  \E s \in RangeSlots, t \in WorkSlots, w \in Invalidations :
           /\ a.mappings[s] # None /\ a.work[t] = None
           /\ w # None /\ w.memory = a.mappings[s].memory
           /\ w.base = a.mappings[s].base /\ w.size = a.mappings[s].size
           /\ w.base = base /\ w.base + w.size = base + size
           /\ \A j \in WorkSlots : a.work[j] # None => a.work[j].sequence < w.sequence
           /\ \A i \in RangeSlots :
                CommitUnmap(a, base, size).mappings[i] = IF i = s THEN None ELSE a.mappings[i]
           /\ \A j \in WorkSlots :
                CommitUnmap(a, base, size).work[j] = IF j = t THEN w ELSE a.work[j]
<1> DEFINE s == First(Matching(a, base, size))
           t == First(FreeIn(a.work, WorkSlots))
           w == [ sequence |-> a.nextSequence,
                  memory   |-> a.mappings[s].memory,
                  base     |-> a.mappings[s].base,
                  size     |-> a.mappings[s].size ]
<1>1. /\ s \in Mapped(a) /\ s \in RangeSlots /\ a.mappings[s] # None
      /\ w.base = base /\ w.base + w.size = base + size
  <2>1. Matching(a, base, size) \in SUBSET Nat
    BY DEF Matching, RangeSlots
  <2>2. s \in Matching(a, base, size)
    BY <2>1, FirstIsLeast DEF CanUnmap
  <2> QED
    BY <2>2 DEF Matching, Mapped, EndOf
<1>2. t \in WorkSlots /\ a.work[t] = None
  BY FirstFree, AddressSpaceAssumption DEF CanUnmap, WorkSlots
<1>3. a \in AddressSpaces /\ a.mappings[s] \in Mappings /\ a.nextSequence \in 0 .. MaxSequence
  BY <1>1, SpaceParts DEF AddressSpaces
<1>4. /\ w \in Invalidations /\ w # None /\ w.memory = a.mappings[s].memory
      /\ w.base = a.mappings[s].base /\ w.size = a.mappings[s].size
  BY <1>3, NoneIsNoRange DEF Invalidations, Mappings
<1>5. \A j \in WorkSlots : a.work[j] # None => a.work[j].sequence < w.sequence
  BY DEF WellFormedSpace, ConsistentSpace, Owed
<1>6. /\ CommitUnmap(a, base, size).mappings = [a.mappings EXCEPT ![s] = None]
      /\ CommitUnmap(a, base, size).work = [a.work EXCEPT ![t] = w]
  BY DEF CommitUnmap
<1> HIDE DEF s, t, w
<1>7. /\ \A i \in RangeSlots :
           CommitUnmap(a, base, size).mappings[i] = IF i = s THEN None ELSE a.mappings[i]
      /\ \A j \in WorkSlots :
           CommitUnmap(a, base, size).work[j] = IF j = t THEN w ELSE a.work[j]
  BY <1>1, <1>2, <1>3, <1>6 DEF AddressSpaces
<1> QED
  BY <1>1, <1>2, <1>4, <1>5, <1>7

(* take_next empties one slot, the one that has waited longest.            *)
LEMMA TakeWorkSlots ==
  ASSUME NEW a, WellFormedSpace(a), Owed(a) # {}
  PROVE  /\ NextWork(a) \in WorkSlots /\ a.work[NextWork(a)] \in Invalidations
         /\ a.work[NextWork(a)] # None
         /\ \A j \in WorkSlots :
              a.work[j] # None => a.work[NextWork(a)].sequence <= a.work[j].sequence
         /\ TakeWork(a).mappings = a.mappings
         /\ \A j \in WorkSlots :
              TakeWork(a).work[j] = IF j = NextWork(a) THEN None ELSE a.work[j]
<1>1. /\ NextWork(a) \in Owed(a)
      /\ \A j \in Owed(a) : a.work[NextWork(a)].sequence <= a.work[j].sequence
  BY TakeWorkWellFormed
<1>2. a \in AddressSpaces /\ NextWork(a) \in WorkSlots /\ a.work[NextWork(a)] \in Invalidations
  BY <1>1, SpaceParts
<1>3. /\ TakeWork(a).mappings = a.mappings
      /\ TakeWork(a).work = [a.work EXCEPT ![NextWork(a)] = None]
  BY <1>2 DEF TakeWork, AddressSpaces
<1>4. \A j \in WorkSlots :
        TakeWork(a).work[j] = IF j = NextWork(a) THEN None ELSE a.work[j]
  BY <1>2, <1>3 DEF AddressSpaces
<1> QED
  BY <1>1, <1>2, <1>3, <1>4 DEF Owed

(* A payload that a call replaces.                                         *)
LEMMA PayloadPut ==
  ASSUME NEW objs \in ObjectTables, NEW id \in ObjectIds, objs[id] # None, NEW payload
  PROVE  /\ [objs EXCEPT ![id].payload = payload][id].kind = objs[id].kind
         /\ [objs EXCEPT ![id].payload = payload][id].handleCount = objs[id].handleCount
         /\ [objs EXCEPT ![id].payload = payload][id].payload = payload
         /\ \A o \in ObjectIds \ {id} : [objs EXCEPT ![id].payload = payload][o] = objs[o]
<1>1. objs[id] \in WellFormedObjects
  BY DEF ObjectTables
<1>2. objs[id] = [ kind |-> objs[id].kind, handleCount |-> objs[id].handleCount,
                   payload |-> objs[id].payload ]
  BY <1>1, ObjectParts
<1>3. [objs EXCEPT ![id].payload = payload][id] = [objs[id] EXCEPT !.payload = payload]
  BY DEF ObjectTables
<1>4. \A o \in ObjectIds \ {id} : [objs EXCEPT ![id].payload = payload][o] = objs[o]
  BY DEF ObjectTables
<1> QED
  BY <1>2, <1>3, <1>4

(* The counters of a memory object.                                        *)
LEMMA CountedMemory ==
  ASSUME NEW m \in MemoryObjects
  PROVE  /\ AddMapping(m).frames = m.frames /\ AddMapping(m).activeMappings = m.activeMappings + 1
         /\ RemoveMapping(m).frames = m.frames
         /\ RemoveMapping(m).activeMappings = m.activeMappings - 1
         /\ m.activeMappings \in Nat
         /\ m.frames.start \in Nat /\ m.frames.end \in Nat /\ m.frames.start < m.frames.end
BY DEF AddMapping, RemoveMapping, MemoryObjects

(* map_memory_object.                                                      *)
LEMMA MapMaps ==
  ASSUME KernelOK, StepOK, NEW p \in ProcessIds, Running(p),
         NEW space \in Slots, NEW memory \in Slots, NEW request \in MapRequests,
         MapMemoryObject(p, space, memory, request)
  PROVE  \E s, id \in ObjectIds, i \in RangeSlots, mapping \in Mappings :
           /\ Maps(s, i, id, mapping) /\ s = ObjectOf(p, space) /\ id = ObjectOf(p, memory)
           /\ mapping = MappingFor(p, memory, request)
<1>0. PICK s \in ObjectIds, m \in ObjectIds : s = ObjectOf(p, space) /\ m = ObjectOf(p, memory)
  BY LookupObject DEF MapMemoryObject, MayMap
<1> DEFINE mapping == MappingFor(p, memory, request)
           added == AddMapping(objects[m].payload)
           counted == [objects EXCEPT ![m].payload = added]
           mapped == CommitMap(objects[s].payload, mapping)
<1>1. /\ Lookup(p, space, "AddressSpace", {"MANAGE"})
      /\ Lookup(p, memory, "MemoryObject", request.rights)
      /\ CanMap(objects[s].payload, objects[m].payload, mapping)
      /\ objects' = [counted EXCEPT ![s].payload = CommitMap(counted[s].payload, mapping)]
      /\ UNCHANGED <<generations, frames>>
  BY <1>0 DEF MapMemoryObject, MayMap
<1>2. /\ s \in ObjectIds /\ objects[s] \in WellFormedObjects /\ objects[s].kind = "AddressSpace"
      /\ m \in ObjectIds /\ objects[m] \in WellFormedObjects /\ objects[m].kind = "MemoryObject"
  BY <1>0, <1>1, LookupObject
<1>3. objects[s] # None /\ objects[m] # None /\ s # m
  BY <1>2, ObjectParts
<1>4. mapping \in Mappings /\ mapping.memory = RefTo(m) /\ mapping # None
  <2>1. RefTo(m) \in ObjectRefs
    BY <1>2, RefType
  <2>2. /\ request.base \in Nat /\ request.size \in Nat \ {0} /\ request.offset \in Nat
        /\ request.rights \in SUBSET MappingRights
    BY <1>1, KernelAssumption DEF CanMap, MappingFor
  <2> QED
    BY <1>0, <2>1, <2>2, NoneIsNoRange DEF MappingFor, Mappings
<1>5. WellFormedSpace(objects[s].payload) /\ objects[m].payload \in MemoryObjects
  BY <1>2, PayloadOf
<1>6. counted[s] = objects[s]
  BY <1>2, <1>3 DEF KernelOK, ObjectTables
<1>7. objects' = [counted EXCEPT ![s].payload = mapped]
  BY <1>1, <1>6
<1>8. WellFormedPayload(objects[m].kind, added)
  BY <1>2, <1>5, MappingCounts, PayloadKinds
<1>9. mapping.offset + mapping.size <= SizeOf(objects[m].payload)
  BY <1>1 DEF CanMap
<1>10. PICK i \in RangeSlots :
         /\ objects[s].payload.mappings[i] = None
         /\ \A k \in RangeSlots :
              mapped.mappings[k] = IF k = i THEN mapping ELSE objects[s].payload.mappings[k]
         /\ mapped.work = objects[s].payload.work
  BY <1>1, <1>4, <1>5, CommitMapSlots
<1>11. /\ added.frames = objects[m].payload.frames
       /\ added.activeMappings = objects[m].payload.activeMappings + 1
  BY <1>5, CountedMemory
<1> HIDE DEF mapping, added, mapped
<1>12. /\ counted \in ObjectTables
       /\ counted[m].kind = "MemoryObject" /\ counted[m].payload = added
       /\ \A o \in ObjectIds \ {m} : counted[o] = objects[o]
  <2>1. objects \in ObjectTables
    BY DEF KernelOK
  <2>2. counted \in ObjectsAfter
    BY <1>2, <1>3, <1>8, OthersItself, OtherPayload
  <2>3. /\ counted[m].kind = objects[m].kind /\ counted[m].payload = added
        /\ \A o \in ObjectIds \ {m} : counted[o] = objects[o]
    BY <1>2, <1>3, <2>1, PayloadPut
  <2> HIDE DEF counted
  <2>4. counted \in ObjectTables
    BY <2>2 DEF ObjectsAfter
  <2> QED
    BY <1>2, <2>3, <2>4
<1> HIDE DEF counted
<1>13. /\ objects'[s].kind = "AddressSpace" /\ objects'[s].payload = mapped
       /\ objects'[m].kind = "MemoryObject" /\ objects'[m].payload = added
       /\ \A o \in ObjectIds \ {s, m} : objects'[o] = objects[o]
  BY <1>2, <1>3, <1>6, <1>7, <1>12, PayloadPut
<1>14. GenerationsFree /\ NothingGone
  BY <1>1, GenerationsKeep
<1>15. objects'[s] # None /\ objects'[m] # None
  BY <1>2, <1>3, <1>14 DEF NothingGone
<1>16. ASSUME NEW t \in ObjectIds
       PROVE  /\ IsSpace(t)' <=> IsSpace(t)
              /\ IsMemory(t)' <=> IsMemory(t)
              /\ t # s /\ IsSpace(t) => objects'[t].payload = objects[t].payload
              /\ t # m /\ IsMemory(t) => objects'[t].payload = objects[t].payload
  BY <1>2, <1>3, <1>13, <1>15 DEF IsSpace, IsMemory
<1>17. IsSpace(s) /\ IsMemory(m)
  BY <1>2, <1>3 DEF IsSpace, IsMemory
<1>18. ASSUME NEW t \in ObjectIds, NEW k \in RangeSlots
       PROVE  MappingAt(t, k)' = IF t = s /\ k = i THEN mapping ELSE MappingAt(t, k)
  BY <1>10, <1>13, <1>16, <1>17 DEF MappingAt
<1>19. WorkStays
  BY <1>10, <1>13, <1>16, <1>17 DEF WorkAt, WorkStays
<1>20. GoesOn(m, Active(m) + 1)
  <2>1. Extent(m)' = Extent(m) /\ Active(m)' = Active(m) + 1
    BY <1>11, <1>13 DEF Extent, Active
  <2>2. ASSUME NEW o \in ObjectIds \ {m}
        PROVE  MemoryStays(o)
    BY <1>16, <2>2, <1>17 DEF MemoryStays, IsMemory, IsSpace
  <2>3. IsMemory(m)'
    BY <1>2, <1>16, <1>17
  <2> QED
    BY <1>1, <1>14, <1>17, <2>1, <2>2, <2>3 DEF GoesOn
<1>21. MappingAt(s, i) = None
  BY <1>10, <1>17 DEF MappingAt
<1>22. Held(RefTo(s)) # {}
  <2>1. space \in Nameable(Handles(p)) /\ Live(Handles(p).entry[space].object)
    BY <1>1 DEF Lookup, Valid
  <2>2. At(p, space) # None /\ At(p, space).object = RefTo(s)
    BY <1>0, <2>1, OccupiedSlot DEF ObjectOf
  <2>3. <<p, space>> \in Held(RefTo(s))
    BY <2>2 DEF Held
  <2> QED
    BY <2>3
<1>23. PICK made \in Mappings : made = mapping
  BY <1>4
<1>24. Maps(s, i, m, made)
  BY <1>4, <1>9, <1>17, <1>18, <1>19, <1>20, <1>21, <1>22, <1>23 DEF Maps
<1> QED
  BY <1>0, <1>23, <1>24 DEF mapping

(* unmap_address_range.                                                    *)
LEMMA UnmapUnmaps ==
  ASSUME KernelOK, StepOK, NEW p \in ProcessIds, Running(p), NEW space \in Slots,
         NEW base, NEW size, UnmapAddressRange(p, space, base, size)
  PROVE  \E s \in ObjectIds, i \in RangeSlots, j \in WorkSlots, work \in Invalidations :
           /\ Unmaps(s, i, j, work) /\ s = ObjectOf(p, space)
           /\ work.base = base /\ work.base + work.size = base + size
<1>0. PICK s \in ObjectIds : s = ObjectOf(p, space)
  BY LookupObject DEF UnmapAddressRange
<1> DEFINE a == objects[s].payload
           unmapped == CommitUnmap(a, base, size)
<1>1. /\ Lookup(p, space, "AddressSpace", {"MANAGE"})
      /\ CanUnmap(a, base, size)
      /\ a.nextSequence < MaxSequence
      /\ objects' = [objects EXCEPT ![s].payload = unmapped]
      /\ UNCHANGED <<generations, frames>>
  BY <1>0 DEF UnmapAddressRange
<1>2. /\ s \in ObjectIds /\ objects[s] \in WellFormedObjects /\ objects[s].kind = "AddressSpace"
      /\ objects[s] # None
  BY <1>0, <1>1, LookupObject, ObjectParts
<1>3. WellFormedSpace(a)
  BY <1>2, PayloadOf
<1>4. PICK i \in RangeSlots, j \in WorkSlots, w \in Invalidations :
        /\ a.mappings[i] # None /\ a.work[j] = None
        /\ w # None /\ w.memory = a.mappings[i].memory
        /\ w.base = a.mappings[i].base /\ w.size = a.mappings[i].size
        /\ w.base = base /\ w.base + w.size = base + size
        /\ \A k \in WorkSlots : a.work[k] # None => a.work[k].sequence < w.sequence
        /\ \A k \in RangeSlots : unmapped.mappings[k] = IF k = i THEN None ELSE a.mappings[k]
        /\ \A k \in WorkSlots : unmapped.work[k] = IF k = j THEN w ELSE a.work[k]
  BY <1>1, <1>3, CommitUnmapSlots
<1> HIDE DEF unmapped
<1>5. /\ objects'[s].kind = "AddressSpace" /\ objects'[s].payload = unmapped
      /\ \A o \in ObjectIds \ {s} : objects'[o] = objects[o]
  <2>1. objects \in ObjectTables
    BY DEF KernelOK
  <2> QED
    BY <1>1, <1>2, <2>1, PayloadPut
<1>6. GenerationsFree /\ NothingGone
  BY <1>1, GenerationsKeep
<1>7. objects[s].payload = a
  OBVIOUS
<1> HIDE DEF a
<1>8. /\ IsSpace(s) /\ IsSpace(s)'
      /\ \A t \in ObjectIds \ {s} : IsSpace(t)' <=> IsSpace(t)
  <2>1. objects'[s] # None
    BY <1>2, <1>6 DEF NothingGone
  <2> QED
    BY <1>2, <1>5, <2>1 DEF IsSpace
<1>9. MemoriesStay
  BY <1>2, <1>5 DEF MemoriesStay, MemoryStays, IsMemory
<1>10. ASSUME NEW t \in ObjectIds
       PROVE  /\ \A k \in RangeSlots :
                   MappingAt(t, k)' = IF t = s /\ k = i THEN None ELSE MappingAt(t, k)
              /\ \A k \in WorkSlots :
                   WorkAt(t, k)' = IF t = s /\ k = j THEN w ELSE WorkAt(t, k)
  <2>1. CASE t = s
    BY <1>4, <1>5, <1>7, <1>8, <2>1 DEF MappingAt, WorkAt
  <2>2. CASE t # s
    BY <1>5, <1>8, <2>2 DEF MappingAt, WorkAt
  <2> QED
    BY <2>1, <2>2
<1>11. MappingAt(s, i) = a.mappings[i] /\ \A k \in WorkSlots : WorkAt(s, k) = a.work[k]
  BY <1>7, <1>8 DEF MappingAt, WorkAt
<1>12. Unmaps(s, i, j, w)
  BY <1>1, <1>4, <1>6, <1>9, <1>10, <1>11 DEF Unmaps
<1> QED
  BY <1>0, <1>2, <1>4, <1>12

(* reclaim_memory_object_if_unreferenced, when it does reclaim.            *)
LEMMA ReclaimTakes ==
  ASSUME KernelOK, NEW objs \in ObjectsAfter, NEW id \in ObjectIds, Reclaim(objs, id),
         IsMemory(id), Unreferenced(objs[id]), objs[id].payload.frames = Extent(id),
         \A o \in ObjectIds \ {id} :
           \/ objs[o] = objects[o]
           \/ objects[o] # None /\ objects[o].kind # "MemoryObject"
  PROVE  /\ IsReclaimed(id)
         /\ \A o \in ObjectIds \ {id} : objects'[o] = objs[o]
<1>1. /\ frames' = Release(frames, PagesOf(objs[id].payload.frames))
      /\ generations' = [generations EXCEPT ![id] = generations[id] + 1]
      /\ objects' = [objs EXCEPT ![id] = None]
  BY DEF Reclaim
<1>2. objs \in ObjectTables /\ generations \in [ObjectIds -> 1 .. MaxObjectGeneration]
  BY DEF ObjectsAfter, KernelOK
<1>3. objects'[id] = None /\ \A o \in ObjectIds \ {id} : objects'[o] = objs[o]
  BY <1>1, <1>2 DEF ObjectTables
<1>4. \A o \in ObjectIds \ {id} : generations'[o] = generations[o]
  BY <1>1, <1>2
<1>5. ASSUME NEW o \in ObjectIds \ {id}
      PROVE  MemoryStays(o) /\ (objects[o] # None => objects'[o] # None)
  <2>1. objects[o] # None => objs[o] # None /\ objs[o].kind = objects[o].kind
    BY DEF ObjectsAfter
  <2> QED
    BY <1>3, <2>1 DEF MemoryStays, IsMemory
<1>6. frames' = Release(frames, PagesOf(Extent(id)))
  BY <1>1
<1> QED
  BY <1>3, <1>4, <1>5, <1>6 DEF IsReclaimed, GenerationsFree

(* take_next_tlb_work.                                                     *)
LEMMA FlushDrops ==
  ASSUME KernelOK, StepOK, NEW p \in ProcessIds, Running(p), NEW space \in Slots,
         FlushAddressSpaceTlb(p, space)
  PROVE  \E s, id \in ObjectIds, j \in WorkSlots :
           /\ Drops(s, j, id) /\ s = ObjectOf(p, space)
           /\ WorkAt(s, j) = objects[s].payload.work[NextWork(objects[s].payload)]
<1>1. PICK s \in ObjectIds : s = ObjectOf(p, space)
  BY LookupObject DEF FlushAddressSpaceTlb
<1> DEFINE a == objects[s].payload
           memory == a.work[NextWork(a)].memory
           less == TakeWork(a)
           taken == [objects EXCEPT ![s].payload = less]
<1>2. /\ Lookup(p, space, "AddressSpace", {"MANAGE"})
      /\ Owed(a) # {}
      /\ Valid(memory, "MemoryObject")
      /\ objects[memory.id].payload.activeMappings > 0
      /\ Reclaim([taken EXCEPT ![memory.id].payload = RemoveMapping(taken[memory.id].payload)],
                 memory.id)
  BY <1>1 DEF FlushAddressSpaceTlb
<1>3. objects[s] \in WellFormedObjects /\ objects[s].kind = "AddressSpace" /\ objects[s] # None
  BY <1>1, <1>2, LookupObject, ObjectParts
<1>4. WellFormedSpace(a)
  BY <1>3, PayloadOf
<1>5. PICK j \in WorkSlots :
        /\ a.work[j] \in Invalidations /\ a.work[j] # None /\ memory = a.work[j].memory
        /\ j = NextWork(a)
        /\ \A k \in WorkSlots : a.work[k] # None => a.work[j].sequence <= a.work[k].sequence
        /\ less.mappings = a.mappings
        /\ \A k \in WorkSlots : less.work[k] = IF k = j THEN None ELSE a.work[k]
  BY <1>2, <1>4, TakeWorkSlots
<1>6. memory \in ObjectRefs
  BY <1>5 DEF Invalidations
<1>7. PICK m \in ObjectIds : memory = RefTo(m) /\ memory.id = m
  BY <1>2, <1>6 DEF Valid, Live, RefTo, ObjectRefs
<1>8. /\ objects[m] # None /\ objects[m] \in WellFormedObjects
      /\ objects[m].kind = "MemoryObject" /\ m # s
  BY <1>2, <1>3, <1>6, <1>7, ValidObject
<1> DEFINE removed == RemoveMapping(objects[m].payload)
           objs == [taken EXCEPT ![m].payload = removed]
<1>9. taken[m] = objects[m] /\ taken[s].kind = "AddressSpace" /\ taken[s].payload = less
      /\ \A o \in ObjectIds \ {s} : taken[o] = objects[o]
  <2>1. objects \in ObjectTables
    BY DEF KernelOK
  <2> QED
    BY <1>3, <1>8, <2>1, PayloadPut
<1>10. Reclaim(objs, m)
  BY <1>2, <1>7, <1>9
<1>11. WellFormedPayload(objects[s].kind, less)
  BY <1>2, <1>3, <1>4, TakeWorkWellFormed, PayloadKinds
<1>12. /\ WellFormedPayload(objects[m].kind, removed)
       /\ removed.frames = objects[m].payload.frames
       /\ removed.activeMappings = objects[m].payload.activeMappings - 1
       /\ objects[m].payload.activeMappings \in Nat
  <2>1. objects[m].payload \in MemoryObjects /\ objects[m].payload.activeMappings > 0
    BY <1>2, <1>7, <1>8, PayloadOf
  <2> QED
    BY <1>8, <2>1, MappingCounts, CountedMemory, PayloadKinds
<1>13. objects[s].payload = a
  OBVIOUS
<1>13a. WorkAt(s, j) = objects[s].payload.work[NextWork(objects[s].payload)]
  BY <1>3, <1>5 DEF WorkAt, IsSpace
<1> HIDE DEF a, less, removed, memory
<1>14. taken \in ObjectsAfter /\ OthersOnly(taken)
  BY <1>3, <1>11, OthersItself, OtherPayload
<1> HIDE DEF taken
<1>15. objs \in ObjectsAfter /\ OthersOnly(objs)
  BY <1>8, <1>12, <1>14, OtherPayload
<1>16. /\ objs[m].kind = "MemoryObject" /\ objs[m].payload = removed
       /\ objs[s].kind = "AddressSpace" /\ objs[s].payload = less
       /\ \A o \in ObjectIds \ {s, m} : objs[o] = objects[o]
  <2>1. taken \in ObjectTables
    BY <1>14 DEF ObjectsAfter
  <2>2. /\ objs[m].kind = taken[m].kind /\ objs[m].payload = removed
        /\ \A o \in ObjectIds \ {m} : objs[o] = taken[o]
    BY <1>8, <1>9, <2>1, PayloadPut
  <2> HIDE DEF objs
  <2> QED
    BY <1>8, <1>9, <2>2
<1> HIDE DEF objs
<1>17. \A o \in ObjectIds : objects[o] # None => objs[o] # None
  BY <1>15 DEF ObjectsAfter
<1>18. /\ IsSpace(s) /\ IsMemory(m) /\ Active(m) = objects[m].payload.activeMappings
       /\ Extent(m) = objects[m].payload.frames
  BY <1>3, <1>8 DEF IsSpace, IsMemory, Active, Extent
<1>19. ASSUME \A o \in ObjectIds \ {m} : objects'[o] = objs[o], ~IsSpace(m)'
       PROVE  /\ MappingsStay
              /\ \A t \in ObjectIds, k \in WorkSlots :
                   WorkAt(t, k)' = IF t = s /\ k = j THEN None ELSE WorkAt(t, k)
  <2>1. ASSUME NEW t \in ObjectIds
        PROVE  /\ \A k \in RangeSlots : MappingAt(t, k)' = MappingAt(t, k)
               /\ \A k \in WorkSlots :
                    WorkAt(t, k)' = IF t = s /\ k = j THEN None ELSE WorkAt(t, k)
    <3>1. CASE t = m
      BY <1>8, <1>19, <3>1 DEF MappingAt, WorkAt, IsSpace
    <3>2. CASE t = s
      <4>1. IsSpace(s)' /\ objects'[s].payload = less
        BY <1>3, <1>8, <1>16, <1>17, <1>19 DEF IsSpace
      <4> QED
        BY <1>5, <1>13, <1>18, <3>2, <4>1 DEF MappingAt, WorkAt
    <3>3. CASE t # m /\ t # s
      BY <1>16, <1>19, <3>3 DEF MappingAt, WorkAt, IsSpace
    <3> QED
      BY <3>1, <3>2, <3>3
  <2> QED
    BY <2>1 DEF MappingsStay
<1>20. /\ WorkAt(s, j) # None /\ WorkAt(s, j).memory = RefTo(m)
       /\ \A k \in WorkSlots : WorkAt(s, k) # None => WorkAt(s, j).sequence <= WorkAt(s, k).sequence
       /\ objs[m].handleCount = objects[m].handleCount
       /\ Still
  BY <1>5, <1>7, <1>13, <1>15, <1>18, FlushEffect DEF WorkAt, OthersOnly
<1>21. CASE Unreferenced(objs[m])
  <2>1. IsReclaimed(m) /\ \A o \in ObjectIds \ {m} : objects'[o] = objs[o]
    BY <1>3, <1>8, <1>10, <1>12, <1>15, <1>16, <1>18, <1>21, ReclaimTakes
  <2>2. Active(m) = 1 /\ objects[m].handleCount = 0
    BY <1>12, <1>16, <1>18, <1>20, <1>21 DEF Unreferenced, CanReclaim
  <2>3. ~IsSpace(m)'
    BY <2>1 DEF IsReclaimed, IsSpace
  <2>4. Drops(s, j, m)
    BY <1>19, <1>20, <2>1, <2>2, <2>3 DEF Drops
  <2> QED
    BY <1>1, <1>13a, <2>4
<1>22. CASE ~Unreferenced(objs[m])
  <2>1. objects' = objs /\ UNCHANGED <<generations, frames>>
    BY <1>10, <1>22 DEF Reclaim
  <2>2. GenerationsFree /\ NothingGone
    BY <2>1, GenerationsKeep
  <2>3. objects'[m] # None /\ objects'[m].kind = "MemoryObject" /\ objects'[m].payload = removed
    BY <1>8, <1>16, <1>17, <2>1
  <2>4. IsMemory(m)' /\ ~IsSpace(m)'
    BY <2>3 DEF IsMemory, IsSpace
  <2>5. Extent(m)' = Extent(m) /\ Active(m)' = Active(m) - 1
    BY <1>12, <1>18, <2>3 DEF Extent, Active
  <2>6. ASSUME NEW o \in ObjectIds \ {m}
        PROVE  MemoryStays(o)
    <3>1. CASE o = s
      BY <1>3, <1>16, <2>1, <3>1 DEF MemoryStays, IsMemory
    <3>2. CASE o # s
      BY <1>16, <2>1, <3>2 DEF MemoryStays, IsMemory
    <3> QED
      BY <3>1, <3>2
  <2>7. GoesOn(m, Active(m) - 1)
    BY <1>18, <2>1, <2>2, <2>4, <2>5, <2>6 DEF GoesOn
  <2>8. ~(Active(m) = 1 /\ objects[m].handleCount = 0)
    BY <1>12, <1>16, <1>18, <1>20, <1>22 DEF Unreferenced, CanReclaim
  <2>9. Drops(s, j, m)
    BY <1>19, <1>20, <2>1, <2>4, <2>7, <2>8 DEF Drops
  <2> QED
    BY <1>1, <1>13a, <2>9
<1> QED
  BY <1>21, <1>22

(* Close and revoke.                                                       *)
LEMMA CloseReclaims ==
  ASSUME KernelOK, StepOK, NEW p \in ProcessIds, Running(p), NEW S \in SUBSET Slots,
         NEW ref \in ObjectRefs, Closes(p, S, ref), CloseSlots(p, S, ref)
  PROVE  Idle \/ \E id \in ObjectIds : Reclaims(id)
<1>1. PICK id \in ObjectIds : ref.id = id /\ ref = RefTo(id) /\ Live(ref)
  BY DEF ObjectRefs, Closes, Live, RefTo
<1> DEFINE o == RemoveHandles(objects[id], Cardinality(S))
           objs == [objects EXCEPT ![id] = o]
<1>2. Reclaim(objs, id)
  BY <1>1 DEF CloseSlots
<1>3. objects[id] # None /\ objects[id] \in WellFormedObjects
  BY <1>1, LiveObject DEF Live
<1>4. o.kind = objects[id].kind /\ o.payload = objects[id].payload /\ o \in WellFormedObjects
  <2>1. Cardinality(S) \in Nat
    BY SlotsFinite, FS_Subset, FS_CardinalityType
  <2>2. objects[id] = [ kind |-> objects[id].kind, handleCount |-> objects[id].handleCount,
                        payload |-> objects[id].payload ]
    BY <1>3, ObjectParts
  <2>3. o.payload = objects[id].payload
    BY <2>2 DEF RemoveHandles
  <2> QED
    BY <1>3, <2>1, <2>3, RemoveHandlesWellFormed
<1> HIDE DEF o
<1>5. objs \in ObjectsAfter
  BY <1>3, <1>4, ObjectsAfterItself, ObjectUpdate
<1>6. \A other \in ObjectIds : objs[other] = IF other = id THEN o ELSE objects[other]
  BY DEF KernelOK, ObjectTables
<1>7. CASE Unreferenced(objs[id])
  <2>1. o.kind = "MemoryObject" /\ CanReclaim(o.payload)
    BY <1>6, <1>7 DEF Unreferenced
  <2>2. IsMemory(id) /\ Active(id) = 0
    BY <1>3, <1>4, <2>1 DEF IsMemory, Active, CanReclaim
  <2>3. objs[id].payload.frames = Extent(id)
    BY <1>4, <1>6 DEF Extent
  <2> HIDE DEF objs
  <2>4. IsReclaimed(id) /\ \A other \in ObjectIds \ {id} : objects'[other] = objects[other]
    BY <1>2, <1>5, <1>6, <1>7, <2>2, <2>3, ReclaimTakes
  <2>5. ~IsSpace(id) /\ ~IsSpace(id)'
    BY <2>2, <2>4 DEF IsSpace, IsMemory, IsReclaimed
  <2>6. MappingsStay /\ WorkStays
    BY <2>4, <2>5 DEF MappingsStay, WorkStays, MappingAt, WorkAt, IsSpace
  <2> QED
    BY <1>1, <2>2, <2>4, <2>6 DEF Reclaims
<1>8. CASE ~Unreferenced(objs[id])
  <2>1. objects' = objs /\ UNCHANGED <<generations, frames>>
    BY <1>2, <1>8 DEF Reclaim
  <2>2. Idle
    BY <1>3, <1>4, <2>1, OneQuiet
  <2> QED
    BY <2>2
<1> QED
  BY <1>7, <1>8

(* CreateMemoryObject.                                                     *)
LEMMA CreateMakes ==
  ASSUME KernelOK, StepOK, NEW p \in ProcessIds, Running(p),
         NEW size \in MemorySizes, NEW rights \in RightsChoices,
         CreateMemoryObject(p, size, rights)
  PROVE  \E id \in ObjectIds, range \in FrameRanges : MakesMemory(id, range)
<1>1. /\ RunStarts(frames, size) # {} /\ FreeIds # {}
      /\ UNCHANGED generations
  BY DEF CreateMemoryObject, Publish
<1>2. PICK id \in ObjectIds : id = First(FreeIds) /\ objects[id] = None
  BY <1>1, FreeEntry
<1>3. PICK range \in FrameRanges :
        range = FreeRun(frames, size) /\ PagesOf(range) \subseteq Free(frames)
  BY <1>1, FreeRunIsFree, KernelAssumption DEF KernelOK
<1> DEFINE o == AddHandle(NewObject("MemoryObject", NewMemoryObject(range)))
<1>4. /\ objects' = [objects EXCEPT ![id] = o]
      /\ frames' = Grant(frames, PagesOf(range), RefTo(id))
  BY <1>2, <1>3 DEF CreateMemoryObject, Publish
<1>5. o.kind = "MemoryObject" /\ o.payload = NewMemoryObject(range)
  BY NewObjectParts
<1> HIDE DEF o
<1>6. \A other \in ObjectIds : objects'[other] = IF other = id THEN o ELSE objects[other]
  BY <1>4 DEF KernelOK, ObjectTables
<1>7. \A other \in ObjectIds : generations[other] \in Nat
  BY KernelNamesAssumption DEF KernelOK
<1>8. NothingGone
  BY <1>1, GenerationsKeep
<1>9. objects'[id] # None
  <2>1. o \in WellFormedObjects \cup {None}
    BY <1>6 DEF StepOK, KernelOK, ObjectTables
  <2>2. o # None
    <3>1. AddHandle(NewObject("MemoryObject", NewMemoryObject(range))) \in WellFormedObjects
      <4>1. NewMemoryObject(range) \in MemoryObjects
        BY <1>3 DEF NewMemoryObject, MemoryObjects, FrameRanges
      <4>2. NewObject("MemoryObject", NewMemoryObject(range)) \in WellFormedObjects
        BY <4>1, MakeObject, PayloadKinds DEF NewObject, ObjectKinds
      <4> QED
        BY <4>2, AddHandleWellFormed
    <3> QED
      BY <3>1, ObjectParts DEF o
  <2> QED
    BY <1>6, <2>2
<1>10. IsMemory(id)' /\ objects'[id].payload = NewMemoryObject(range)
  BY <1>5, <1>6, <1>9 DEF IsMemory
<1>11. ~IsSpace(id) /\ ~IsSpace(id)'
  BY <1>2, <1>5, <1>6 DEF IsSpace
<1>12. MappingsStay /\ WorkStays /\ \A other \in ObjectIds \ {id} : MemoryStays(other)
  BY <1>6, <1>11 DEF MappingsStay, WorkStays, MappingAt, WorkAt, IsSpace, MemoryStays, IsMemory
<1>13. MakesMemory(id, range)
  BY <1>1, <1>2, <1>3, <1>4, <1>8, <1>10, <1>12 DEF MakesMemory
<1> QED
  BY <1>13

(* The calls on handles and objects: no mapping and no invalidation        *)
(* changes.                                                                *)
LEMMA ObjectCallMemory ==
  ASSUME KernelOK, StepOK, DerivedRightsShrink, NEW p \in ProcessIds, Running(p), ObjectCall(p)
  PROVE  \/ Idle
         \/ \E id \in ObjectIds, range \in FrameRanges : MakesMemory(id, range)
         \/ \E id \in ObjectIds : Reclaims(id)
<1> DEFINE Quietly ==
             \/ Idle
             \/ \E id \in ObjectIds, range \in FrameRanges : MakesMemory(id, range)
             \/ \E id \in ObjectIds : Reclaims(id)
<1>1. ASSUME NEW kind \in CreatableKinds, NEW rights \in RightsChoices,
             CreateObject(p, kind, rights)
      PROVE  Quietly
  BY <1>1, CreateIdle
<1>2. ASSUME NEW size \in MemorySizes, NEW rights \in RightsChoices,
             CreateMemoryObject(p, size, rights)
      PROVE  Quietly
  BY <1>2, CreateMakes
<1>3. ASSUME CreateRolledBack(p)
      PROVE  Quietly
  <2>1. UNCHANGED vars
    BY <1>3, CreateUndone
  <2> QED
    BY <2>1, NoneIdle DEF vars, GenerationsFree
<1>4. ASSUME NEW source \in Slots, NEW rights \in RightsChoices,
             DuplicateHandle(p, source, rights)
      PROVE  Quietly
  BY <1>4, DuplicateIdle
<1>5. ASSUME NEW i \in Slots, CloseHandle(p, i)
      PROVE  Quietly
  BY <1>5, CloseHandleCloses, CloseReclaims
<1>6. ASSUME NEW root \in Slots, RevokeDescendants(p, root)
      PROVE  Quietly
  BY <1>6, RevokeCloses, CloseReclaims
<1> QED
  BY <1>1, <1>2, <1>3, <1>4, <1>5, <1>6 DEF ObjectCall

(* The calls on channels, failed creations of pairs among them.            *)
LEMMA ChannelCallIdle ==
  ASSUME KernelOK, StepOK, NEW p \in ProcessIds, Running(p), ChannelCall(p)
  PROVE  Idle
<1>1. ASSUME NEW max \in MessageLimits, NEW rights \in RightsChoices,
             CreateChannelPair(p, max, rights)
      PROVE  Idle
  BY <1>1, PairIdle
<1>2. ASSUME SecondObjectRefused(p)
      PROVE  Idle
  <2>1. UNCHANGED vars
    BY <1>2, CreateUndone
  <2> QED
    BY <2>1, NoneIdle DEF vars, GenerationsFree
<1>3. ASSUME NEW max \in MessageLimits, ChannelPairRolledBack(p, max)
      PROVE  Idle
  BY <1>3, PairUndone, NoneIdle
<1>4. ASSUME \/ \E channel \in Slots, moved \in HandleLists : ChannelSend(p, channel, moved)
             \/ \E channel \in Slots : ChannelRecv(p, channel)
      PROVE  Idle
  BY <1>4, MessageIdle
<1> QED
  BY <1>1, <1>2, <1>3, <1>4 DEF ChannelCall

(* A map call that is refused.                                             *)
LEMMA RefusalIdle ==
  ASSUME KernelOK, NEW p \in ProcessIds, Running(p),
         NEW space \in Slots, NEW memory \in Slots, NEW request \in MapRequests,
         MapRolledBack(p, space, memory, request)
  PROVE  Idle
<1>1. UNCHANGED vars
  BY MapUndone
<1> QED
  BY <1>1, NoneIdle DEF vars, GenerationsFree

(* What the host does.                                                     *)
LEMMA HostIdle ==
  ASSUME KernelOK, StepOK, HostCall
  PROVE  Idle
BY DestroyIdle, MessageIdle DEF HostCall

(* Every call is one of the kinds.                                         *)
LEMMA StepMemory ==
  ASSUME KernelOK, StepOK, DerivedRightsShrink, [Next]_vars
  PROVE  MemoryKinds
<1>1. ASSUME NEW p \in ProcessIds, Running(p), ObjectCall(p)
      PROVE  MemoryKinds
  BY <1>1, ObjectCallMemory DEF MemoryKinds
<1>2. ASSUME NEW p \in ProcessIds, Running(p), ChannelCall(p)
      PROVE  MemoryKinds
  BY <1>2, ChannelCallIdle DEF MemoryKinds
<1>3. ASSUME NEW p \in ProcessIds, Running(p), SpaceCall(p)
      PROVE  MemoryKinds
  <2>1. ASSUME NEW space \in Slots, NEW memory \in Slots, NEW request \in MapRequests,
               MapMemoryObject(p, space, memory, request)
        PROVE  MemoryKinds
    BY <1>3, <2>1, MapMaps DEF MemoryKinds
  <2>2. ASSUME NEW space \in Slots, NEW memory \in Slots, NEW request \in MapRequests,
               MapRolledBack(p, space, memory, request)
        PROVE  MemoryKinds
    BY <1>3, <2>2, RefusalIdle DEF MemoryKinds
  <2>3. ASSUME NEW space \in Slots, NEW request \in MapRequests,
               UnmapAddressRange(p, space, request.base, request.size)
        PROVE  MemoryKinds
    BY <1>3, <2>3, UnmapUnmaps DEF MemoryKinds
  <2>4. ASSUME NEW space \in Slots, FlushAddressSpaceTlb(p, space)
        PROVE  MemoryKinds
    BY <1>3, <2>4, FlushDrops DEF MemoryKinds
  <2> QED
    BY <1>3, <2>1, <2>2, <2>3, <2>4 DEF SpaceCall
<1>4. ASSUME NEW p \in ProcessIds, CreateBootstrapProcess(p)
      PROVE  MemoryKinds
  BY <1>4, CreateIdle DEF MemoryKinds
<1>5. ASSUME HostCall
      PROVE  MemoryKinds
  BY <1>5, HostIdle DEF MemoryKinds
<1>6. CASE UNCHANGED vars
  BY <1>6, NoneIdle DEF MemoryKinds, vars, GenerationsFree
<1> QED
  BY <1>1, <1>2, <1>3, <1>4, <1>5, <1>6 DEF Next, SystemCall

-----------------------------------------------------------------------------
(* What is mapped or pending.                                              *)

(* The places where an address space refers to a memory object.            *)
MappedPlaces(ref) ==
  {l \in ObjectIds \X RangeSlots :
     MappingAt(l[1], l[2]) # None /\ MappingAt(l[1], l[2]).memory = ref}

OwedPlaces(ref) ==
  {l \in ObjectIds \X WorkSlots :
     WorkAt(l[1], l[2]) # None /\ WorkAt(l[1], l[2]).memory = ref}

UseCount(ref) == Cardinality(MappedPlaces(ref)) + Cardinality(OwedPlaces(ref))

Used(ref) == MappedPlaces(ref) # {} \/ OwedPlaces(ref) # {}

(* What an address space refers to is a live memory object ...             *)
UsesValid == \A r \in ObjectRefs : Used(r) => Valid(r, "MemoryObject")

(* ... that is large enough ...                                            *)
MappingsFit ==
  \A s \in ObjectIds, i \in RangeSlots : MappingAt(s, i) # None =>
    LET m == MappingAt(s, i)
    IN  m.offset + m.size <= SizeOf(objects[m.memory.id].payload)

(* ... and counts its uses.                                                *)
UsesCounted == \A id \in ObjectIds : IsMemory(id) => Active(id) = UseCount(RefTo(id))

(* The frames of the memory objects are the ones that are taken.           *)
FramesBacked ==
  /\ \A id \in ObjectIds : IsMemory(id) => OwnsRange(frames, Extent(id), RefTo(id))
  /\ \A p \in Pages : frames[p].owner # None =>
       \E id \in ObjectIds :
         IsMemory(id) /\ frames[p].owner = RefTo(id) /\ p \in PagesOf(Extent(id))

MemoryOK == KernelOK /\ UsesValid /\ MappingsFit /\ UsesCounted /\ FramesBacked

(* Handles and memory together.                                            *)
TablesOK == AccountsOK /\ MemoryOK

(* The views hold mappings and invalidations.                              *)
LEMMA UseTypes ==
  ASSUME KernelOK
  PROVE  /\ \A s \in ObjectIds, i \in RangeSlots : MappingAt(s, i) \in Mappings \cup {None}
         /\ \A s \in ObjectIds, j \in WorkSlots : WorkAt(s, j) \in Invalidations \cup {None}
<1> SUFFICES ASSUME NEW s \in ObjectIds, IsSpace(s)
             PROVE  /\ \A i \in RangeSlots : objects[s].payload.mappings[i] \in Mappings \cup {None}
                    /\ \A j \in WorkSlots : objects[s].payload.work[j] \in Invalidations \cup {None}
  BY DEF MappingAt, WorkAt
<1>1. objects[s].payload \in AddressSpaces
  BY LiveObject, PayloadOf, SpaceParts DEF IsSpace
<1> QED
  BY <1>1 DEF AddressSpaces

(* There are finitely many places to refer from.                           *)
LEMMA UsesFinite ==
  ASSUME NEW ref
  PROVE  /\ IsFiniteSet(MappedPlaces(ref)) /\ IsFiniteSet(OwedPlaces(ref))
         /\ Cardinality(MappedPlaces(ref)) \in Nat /\ Cardinality(OwedPlaces(ref)) \in Nat
         /\ UseCount(ref) \in Nat
         /\ UseCount(ref) = 0 <=> ~Used(ref)
<1>1. IsFiniteSet(ObjectIds) /\ IsFiniteSet(RangeSlots) /\ IsFiniteSet(WorkSlots)
  BY FS_Interval, KernelNamesAssumption, AddressSpaceAssumption
     DEF ObjectIds, RangeSlots, WorkSlots
<1>2. IsFiniteSet(ObjectIds \X RangeSlots) /\ IsFiniteSet(ObjectIds \X WorkSlots)
  BY <1>1, FS_Product
<1>3. /\ MappedPlaces(ref) \in SUBSET (ObjectIds \X RangeSlots)
      /\ OwedPlaces(ref) \in SUBSET (ObjectIds \X WorkSlots)
  BY DEF MappedPlaces, OwedPlaces
<1>4. IsFiniteSet(MappedPlaces(ref)) /\ IsFiniteSet(OwedPlaces(ref))
  BY <1>2, <1>3, FS_Subset
<1>5. /\ Cardinality(MappedPlaces(ref)) \in Nat /\ Cardinality(OwedPlaces(ref)) \in Nat
      /\ Cardinality(MappedPlaces(ref)) = 0 <=> MappedPlaces(ref) = {}
      /\ Cardinality(OwedPlaces(ref)) = 0 <=> OwedPlaces(ref) = {}
  BY <1>4, FS_CardinalityType, FS_EmptySet
<1> QED
  BY <1>4, <1>5 DEF UseCount, Used

(* A place that refers makes its object used.                              *)
LEMMA PlaceUses ==
  ASSUME NEW s \in ObjectIds
  PROVE  /\ \A i \in RangeSlots : MappingAt(s, i) # None => Used(MappingAt(s, i).memory)
         /\ \A j \in WorkSlots : WorkAt(s, j) # None => Used(WorkAt(s, j).memory)
<1>1. ASSUME NEW i \in RangeSlots, MappingAt(s, i) # None
      PROVE  Used(MappingAt(s, i).memory)
  <2>1. <<s, i>> \in MappedPlaces(MappingAt(s, i).memory)
    BY <1>1 DEF MappedPlaces
  <2> QED
    BY <2>1 DEF Used
<1>2. ASSUME NEW j \in WorkSlots, WorkAt(s, j) # None
      PROVE  Used(WorkAt(s, j).memory)
  <2>1. <<s, j>> \in OwedPlaces(WorkAt(s, j).memory)
    BY <1>2 DEF OwedPlaces
  <2> QED
    BY <2>1 DEF Used
<1> QED
  BY <1>1, <1>2

(* Calls that touch no address space change no use.                        *)
LEMMA UsesStay ==
  ASSUME MappingsStay, WorkStays, NEW ref
  PROVE  UseCount(ref)' = UseCount(ref) /\ (Used(ref)' <=> Used(ref))
<1>1. MappedPlaces(ref)' = MappedPlaces(ref)
  BY DEF MappedPlaces, MappingsStay
<1>2. OwedPlaces(ref)' = OwedPlaces(ref)
  BY DEF OwedPlaces, WorkStays
<1> QED
  BY <1>1, <1>2 DEF UseCount, Used

(* A mapping is one use more.                                              *)
LEMMA UsesMapped ==
  ASSUME NEW s \in ObjectIds, NEW id \in ObjectIds, NEW i \in RangeSlots, NEW mapping,
         Maps(s, i, id, mapping), NEW ref
  PROVE  /\ UseCount(ref)' = UseCount(ref) + (IF ref = RefTo(id) THEN 1 ELSE 0)
         /\ Used(ref)' <=> Used(ref) \/ ref = RefTo(id)
<1>1. /\ MappingAt(s, i) = None /\ mapping # None /\ mapping.memory = RefTo(id)
      /\ \A t \in ObjectIds, k \in RangeSlots :
           MappingAt(t, k)' = IF t = s /\ k = i THEN mapping ELSE MappingAt(t, k)
      /\ WorkStays
  BY DEF Maps
<1>2. OwedPlaces(ref)' = OwedPlaces(ref)
  BY <1>1 DEF OwedPlaces, WorkStays
<1>3. /\ IsFiniteSet(MappedPlaces(ref)) /\ Cardinality(MappedPlaces(ref)) \in Nat
      /\ Cardinality(OwedPlaces(ref)) \in Nat
  BY UsesFinite
<1>4. CASE ref = RefTo(id)
  <2>1. MappedPlaces(ref)' = MappedPlaces(ref) \cup {<<s, i>>}
    BY <1>1, <1>4 DEF MappedPlaces
  <2>2. <<s, i>> \notin MappedPlaces(ref)
    BY <1>1 DEF MappedPlaces
  <2>3. Cardinality(MappedPlaces(ref)') = Cardinality(MappedPlaces(ref)) + 1
    BY <1>3, <2>1, <2>2, FS_AddElement
  <2> QED
    BY <1>2, <1>3, <1>4, <2>1, <2>3 DEF UseCount, Used
<1>5. CASE ref # RefTo(id)
  <2>1. MappedPlaces(ref)' = MappedPlaces(ref)
    BY <1>1, <1>5 DEF MappedPlaces
  <2> QED
    BY <1>2, <1>3, <1>5, <2>1 DEF UseCount, Used
<1> QED
  BY <1>4, <1>5

(* An unmap turns a use into another one.                                  *)
LEMMA UsesUnmapped ==
  ASSUME NEW s \in ObjectIds, NEW i \in RangeSlots, NEW j \in WorkSlots, NEW work,
         Unmaps(s, i, j, work), NEW ref
  PROVE  UseCount(ref)' = UseCount(ref) /\ (Used(ref)' <=> Used(ref))
<1>1. /\ MappingAt(s, i) # None /\ WorkAt(s, j) = None
      /\ work # None /\ work.memory = MappingAt(s, i).memory
      /\ \A t \in ObjectIds, k \in RangeSlots :
           MappingAt(t, k)' = IF t = s /\ k = i THEN None ELSE MappingAt(t, k)
      /\ \A t \in ObjectIds, k \in WorkSlots :
           WorkAt(t, k)' = IF t = s /\ k = j THEN work ELSE WorkAt(t, k)
  BY DEF Unmaps
<1>2. /\ IsFiniteSet(MappedPlaces(ref)) /\ IsFiniteSet(OwedPlaces(ref))
      /\ Cardinality(MappedPlaces(ref)) \in Nat /\ Cardinality(OwedPlaces(ref)) \in Nat
  BY UsesFinite
<1>3. CASE ref = MappingAt(s, i).memory
  <2>1. MappedPlaces(ref)' = MappedPlaces(ref) \ {<<s, i>>} /\ <<s, i>> \in MappedPlaces(ref)
    BY <1>1, <1>3 DEF MappedPlaces
  <2>2. OwedPlaces(ref)' = OwedPlaces(ref) \cup {<<s, j>>} /\ <<s, j>> \notin OwedPlaces(ref)
    BY <1>1, <1>3 DEF OwedPlaces
  <2>3. Cardinality(MappedPlaces(ref)') = Cardinality(MappedPlaces(ref)) - 1
    BY <1>2, <2>1, FS_RemoveElement
  <2>4. Cardinality(OwedPlaces(ref)') = Cardinality(OwedPlaces(ref)) + 1
    BY <1>2, <2>2, FS_AddElement
  <2> QED
    BY <1>2, <2>1, <2>2, <2>3, <2>4 DEF UseCount, Used
<1>4. CASE ref # MappingAt(s, i).memory
  <2>1. MappedPlaces(ref)' = MappedPlaces(ref)
    BY <1>1, <1>4 DEF MappedPlaces
  <2>2. OwedPlaces(ref)' = OwedPlaces(ref)
    BY <1>1, <1>4 DEF OwedPlaces
  <2> QED
    BY <2>1, <2>2 DEF UseCount, Used
<1> QED
  BY <1>3, <1>4

(* An invalidation that is handed out is one use less.                     *)
LEMMA UsesDropped ==
  ASSUME NEW s \in ObjectIds, NEW id \in ObjectIds, NEW j \in WorkSlots,
         Drops(s, j, id), NEW ref
  PROVE  /\ UseCount(ref)' = UseCount(ref) - (IF ref = RefTo(id) THEN 1 ELSE 0)
         /\ Used(ref)' => Used(ref)
         /\ ref = RefTo(id) /\ UseCount(ref) = 1 => ~Used(ref)'
<1>1. /\ WorkAt(s, j) # None /\ WorkAt(s, j).memory = RefTo(id)
      /\ MappingsStay
      /\ \A t \in ObjectIds, k \in WorkSlots :
           WorkAt(t, k)' = IF t = s /\ k = j THEN None ELSE WorkAt(t, k)
  BY DEF Drops
<1>2. MappedPlaces(ref)' = MappedPlaces(ref)
  BY <1>1 DEF MappedPlaces, MappingsStay
<1>3. /\ IsFiniteSet(OwedPlaces(ref)) /\ Cardinality(MappedPlaces(ref)) \in Nat
      /\ Cardinality(OwedPlaces(ref)) \in Nat
  BY UsesFinite
<1>4. CASE ref = RefTo(id)
  <2>1. OwedPlaces(ref)' = OwedPlaces(ref) \ {<<s, j>>} /\ <<s, j>> \in OwedPlaces(ref)
    BY <1>1, <1>4 DEF OwedPlaces
  <2>2. Cardinality(OwedPlaces(ref)') = Cardinality(OwedPlaces(ref)) - 1
    BY <1>3, <2>1, FS_RemoveElement
  <2>3. Cardinality(OwedPlaces(ref)) > 0
    BY <1>3, <2>1, FS_EmptySet
  <2>4. UseCount(ref) = 1 => ~Used(ref)'
    <3> SUFFICES ASSUME UseCount(ref) = 1 PROVE ~Used(ref)'
      OBVIOUS
    <3>1. Cardinality(MappedPlaces(ref)) = 0 /\ Cardinality(OwedPlaces(ref)) = 1
      BY <1>3, <2>3 DEF UseCount
    <3>2. MappedPlaces(ref) = {}
      BY <3>1, UsesFinite, FS_EmptySet
    <3>3. IsFiniteSet(OwedPlaces(ref)') /\ Cardinality(OwedPlaces(ref)') = 0
      BY <1>3, <2>1, <2>2, <3>1, FS_RemoveElement
    <3>4. OwedPlaces(ref)' = {}
      BY <3>3, FS_EmptySet
    <3> QED
      BY <1>2, <3>2, <3>4 DEF Used
  <2> QED
    BY <1>2, <1>3, <1>4, <2>1, <2>2, <2>4 DEF UseCount, Used
<1>5. CASE ref # RefTo(id)
  <2>1. OwedPlaces(ref)' = OwedPlaces(ref)
    BY <1>1, <1>5 DEF OwedPlaces
  <2> QED
    BY <1>2, <1>3, <1>5, <2>1 DEF UseCount, Used
<1> QED
  BY <1>4, <1>5

-----------------------------------------------------------------------------
(* What every call keeps.                                                  *)

(* A memory object that lives on keeps its frames.                         *)
LEMMA ExtentStays ==
  ASSUME MemoryKinds
  PROVE  /\ GenerationsFree
         /\ \A o \in ObjectIds : IsMemory(o) /\ IsMemory(o)' => Extent(o)' = Extent(o)
<1>1. ASSUME NEW o \in ObjectIds, MemoryStays(o)
      PROVE  IsMemory(o) /\ IsMemory(o)' => Extent(o)' = Extent(o)
  BY <1>1 DEF MemoryStays, Extent
<1>2. CASE Idle
  BY <1>1, <1>2 DEF Idle, MemoriesStay
<1>3. ASSUME NEW id \in ObjectIds, NEW range, MakesMemory(id, range)
      PROVE  /\ GenerationsFree
             /\ \A o \in ObjectIds : IsMemory(o) /\ IsMemory(o)' => Extent(o)' = Extent(o)
  <2>1. GenerationsFree /\ ~IsMemory(id)
    BY <1>3 DEF MakesMemory, GenerationsFree, IsMemory
  <2> QED
    BY <1>1, <1>3, <2>1 DEF MakesMemory
<1>4. ASSUME NEW id \in ObjectIds, NEW n, GoesOn(id, n)
      PROVE  /\ GenerationsFree
             /\ \A o \in ObjectIds : IsMemory(o) /\ IsMemory(o)' => Extent(o)' = Extent(o)
  BY <1>1, <1>4 DEF GoesOn
<1>5. ASSUME NEW id \in ObjectIds, IsReclaimed(id)
      PROVE  /\ GenerationsFree
             /\ \A o \in ObjectIds : IsMemory(o) /\ IsMemory(o)' => Extent(o)' = Extent(o)
  <2>1. ~IsMemory(id)'
    BY <1>5 DEF IsReclaimed, IsMemory
  <2> QED
    BY <1>1, <1>5, <2>1 DEF IsReclaimed
<1>6. ASSUME NEW s, NEW i, NEW j, NEW work, Unmaps(s, i, j, work)
      PROVE  /\ GenerationsFree
             /\ \A o \in ObjectIds : IsMemory(o) /\ IsMemory(o)' => Extent(o)' = Extent(o)
  BY <1>1, <1>6 DEF Unmaps, MemoriesStay
<1> QED
  BY <1>2, <1>3, <1>4, <1>5, <1>6 DEF MemoryKinds, Maps, Drops, Reclaims

(* The reference of a live object leads to it.                             *)
LEMMA ValidRef ==
  ASSUME NEW r \in ObjectRefs, Valid(r, "MemoryObject")
  PROVE  r.id \in ObjectIds /\ IsMemory(r.id) /\ r = RefTo(r.id)
BY DEF Valid, Live, RefTo, ObjectRefs, IsMemory

(* What is mapped or pending is never reclaimed: the object counts it, and *)
(* only one that counts nothing goes.                                      *)
LEMMA UsesStayValid ==
  ASSUME MemoryOK, MemoryKinds
  PROVE  UsesValid'
<1> SUFFICES ASSUME NEW r \in ObjectRefs, Used(r)'
             PROVE  Valid(r, "MemoryObject")'
  BY DEF UsesValid
<1>1. r.id \in ObjectIds /\ GenerationsFree
  BY ExtentStays DEF ObjectRefs
<1>2. ASSUME Valid(r, "MemoryObject"), IsMemory(r.id)'
      PROVE  Valid(r, "MemoryObject")'
  BY <1>1, <1>2 DEF Valid, Live, IsMemory, GenerationsFree
<1>3. Used(r) => Valid(r, "MemoryObject") /\ IsMemory(r.id) /\ r = RefTo(r.id)
  BY ValidRef DEF MemoryOK, UsesValid
<1>4. ASSUME Used(r), MemoryStays(r.id)
      PROVE  Valid(r, "MemoryObject")'
  BY <1>2, <1>3, <1>4 DEF MemoryStays
<1>5. CASE Idle
  BY <1>1, <1>4, <1>5, UsesStay DEF Idle, MemoriesStay
<1>6. ASSUME NEW id \in ObjectIds, NEW range, MakesMemory(id, range)
      PROVE  Valid(r, "MemoryObject")'
  <2>1. Used(r)
    BY <1>6, UsesStay DEF MakesMemory
  <2>2. r.id # id
    BY <1>3, <1>6, <2>1 DEF MakesMemory, IsMemory
  <2> QED
    BY <1>1, <1>4, <1>6, <2>1, <2>2 DEF MakesMemory
<1>7. ASSUME NEW id \in ObjectIds, NEW n, GoesOn(id, n), Used(r) \/ r = RefTo(id)
      PROVE  Valid(r, "MemoryObject")'
  <2>1. CASE r.id = id
    <3>1. Valid(r, "MemoryObject")
      BY <1>3, <1>7 DEF GoesOn, Valid, Live, RefTo, IsMemory
    <3> QED
      BY <1>2, <1>7, <2>1, <3>1 DEF GoesOn
  <2>2. CASE r.id # id
    BY <1>1, <1>4, <1>7, <2>2 DEF GoesOn, RefTo
  <2> QED
    BY <2>1, <2>2
<1>8. ASSUME NEW id \in ObjectIds, IsReclaimed(id), Used(r), r # RefTo(id)
      PROVE  Valid(r, "MemoryObject")'
  <2>1. r.id # id
    BY <1>3, <1>8
  <2> QED
    BY <1>1, <1>4, <1>8, <2>1 DEF IsReclaimed
<1>9. ASSUME NEW s \in ObjectIds, NEW id \in ObjectIds, NEW i \in RangeSlots, NEW mapping,
             Maps(s, i, id, mapping)
      PROVE  Valid(r, "MemoryObject")'
  BY <1>7, <1>9, UsesMapped DEF Maps
<1>10. ASSUME NEW s \in ObjectIds, NEW i \in RangeSlots, NEW j \in WorkSlots, NEW work,
              Unmaps(s, i, j, work)
       PROVE  Valid(r, "MemoryObject")'
  BY <1>1, <1>4, <1>10, UsesUnmapped DEF Unmaps, MemoriesStay
<1>11. ASSUME NEW s \in ObjectIds, NEW id \in ObjectIds, NEW j \in WorkSlots, Drops(s, j, id)
       PROVE  Valid(r, "MemoryObject")'
  <2>1. Used(r)
    BY <1>11, UsesDropped
  <2>2. CASE GoesOn(id, Active(id) - 1)
    BY <1>7, <2>1, <2>2
  <2>3. CASE Active(id) = 1 /\ IsReclaimed(id)
    <3>1. UseCount(RefTo(id)) = 1
      BY <2>3 DEF MemoryOK, UsesCounted, IsReclaimed
    <3>2. r # RefTo(id)
      BY <1>11, <3>1, UsesDropped
    <3> QED
      BY <1>8, <2>1, <2>3, <3>2
  <2> QED
    BY <1>11, <2>2, <2>3 DEF Drops
<1>12. ASSUME NEW id \in ObjectIds, Reclaims(id)
       PROVE  Valid(r, "MemoryObject")'
  <2>1. Used(r)
    BY <1>12, UsesStay DEF Reclaims
  <2>2. UseCount(RefTo(id)) = 0
    BY <1>12 DEF MemoryOK, UsesCounted, Reclaims, IsReclaimed
  <2>3. r # RefTo(id)
    BY <2>1, <2>2, UsesFinite
  <2> QED
    BY <1>8, <1>12, <2>1, <2>3 DEF Reclaims
<1> QED
  BY <1>5, <1>6, <1>9, <1>10, <1>11, <1>12 DEF MemoryKinds

(* A mapping stays within the memory object it maps.                       *)
LEMMA MappingsStayFit ==
  ASSUME MemoryOK, MemoryKinds, UsesValid'
  PROVE  MappingsFit'
<1> SUFFICES ASSUME NEW s \in ObjectIds, NEW i \in RangeSlots, MappingAt(s, i)' # None
             PROVE  LET m == MappingAt(s, i)'
                    IN  m.offset + m.size <= SizeOf(objects'[m.memory.id].payload)
  BY DEF MappingsFit
<1>1. PICK m : m = MappingAt(s, i)'
  OBVIOUS
<1>2. ASSUME NEW id \in ObjectIds, IsMemory(id), IsMemory(id)'
      PROVE  SizeOf(objects'[id].payload) = SizeOf(objects[id].payload)
  BY <1>2, ExtentStays DEF SizeOf, Extent
<1>3. CASE MappingAt(s, i) = m
  <2>1. m \in Mappings /\ m # None
    BY <1>1, <1>3, UseTypes DEF MemoryOK
  <2>2. m.memory \in ObjectRefs
    BY <2>1 DEF Mappings
  <2>3. Used(m.memory) /\ Used(m.memory)'
    <3>1. <<s, i>> \in MappedPlaces(m.memory)
      BY <1>3, <2>1 DEF MappedPlaces
    <3>2. <<s, i>> \in MappedPlaces(m.memory)'
      BY <1>1, <2>1 DEF MappedPlaces
    <3> QED
      BY <3>1, <3>2 DEF Used
  <2>4. Valid(m.memory, "MemoryObject") /\ Valid(m.memory, "MemoryObject")'
    BY <2>2, <2>3 DEF MemoryOK, UsesValid
  <2>5. m.memory.id \in ObjectIds /\ IsMemory(m.memory.id) /\ IsMemory(m.memory.id)'
    BY <2>2, <2>4 DEF Valid, Live, IsMemory, ObjectRefs
  <2>6. m.offset + m.size <= SizeOf(objects[m.memory.id].payload)
    BY <1>3, <2>1 DEF MemoryOK, MappingsFit
  <2> QED
    BY <1>1, <1>2, <2>5, <2>6
<1>4. ASSUME NEW t, NEW id \in ObjectIds, NEW k, NEW mapping, Maps(t, k, id, mapping),
             MappingAt(s, i) # m
      PROVE  m.offset + m.size <= SizeOf(objects'[m.memory.id].payload)
  <2>1. m = mapping /\ m.memory = RefTo(id)
    BY <1>1, <1>4 DEF Maps
  <2>2. m.memory.id = id /\ m.offset + m.size <= SizeOf(objects[id].payload)
    BY <1>4, <2>1 DEF Maps, RefTo
  <2>3. IsMemory(id) /\ IsMemory(id)'
    BY <1>4 DEF Maps, GoesOn
  <2> QED
    BY <1>2, <2>2, <2>3
<1>5. (\A t \in ObjectIds, k \in RangeSlots : MappingAt(t, k)' \in {MappingAt(t, k), None})
        => MappingAt(s, i) = m
  BY <1>1
<1>6. \/ MappingAt(s, i) = m
      \/ \E t, id \in ObjectIds, k \in RangeSlots, mapping \in Mappings : Maps(t, k, id, mapping)
  BY <1>5 DEF MemoryKinds, Idle, MakesMemory, Unmaps, Drops, Reclaims, MappingsStay
<1> QED
  BY <1>1, <1>3, <1>4, <1>6

(* Every use is counted, and nothing else.                                 *)
LEMMA UsesStayCounted ==
  ASSUME MemoryOK, MemoryKinds
  PROVE  UsesCounted'
<1> SUFFICES ASSUME NEW o \in ObjectIds, IsMemory(o)'
             PROVE  Active(o)' = UseCount(RefTo(o))'
  BY DEF UsesCounted
<1>1. PICK ref : ref = RefTo(o)
  OBVIOUS
<1>2. RefTo(o)' = ref
  BY <1>1, ExtentStays, RefsStay DEF IsMemory
<1>3. UseCount(RefTo(o))' = UseCount(ref)'
  BY <1>2 DEF UseCount, MappedPlaces, OwedPlaces
<1>4. IsMemory(o) => Active(o) = UseCount(ref)
  BY <1>1 DEF MemoryOK, UsesCounted
<1>5. UseCount(ref) \in Nat
  BY UsesFinite
<1>6. ASSUME MemoryStays(o), UseCount(ref)' = UseCount(ref)
      PROVE  Active(o)' = UseCount(RefTo(o))'
  BY <1>3, <1>4, <1>6 DEF MemoryStays, Active
<1>7. CASE Idle
  BY <1>6, <1>7, UsesStay DEF Idle, MemoriesStay
<1>8. ASSUME NEW id \in ObjectIds, NEW range, MakesMemory(id, range)
      PROVE  Active(o)' = UseCount(RefTo(o))'
  <2>1. UseCount(ref)' = UseCount(ref)
    BY <1>8, UsesStay DEF MakesMemory
  <2>2. CASE o = id
    <3>1. ref \in ObjectRefs /\ ~Valid(ref, "MemoryObject")
      BY <1>1, <1>8, <2>2, RefType DEF MemoryOK, MakesMemory, Valid, Live, RefTo
    <3>2. UseCount(ref) = 0
      BY <3>1, UsesFinite DEF MemoryOK, UsesValid
    <3>3. Active(o)' = 0
      BY <1>8, <2>2 DEF MakesMemory, Active, NewMemoryObject
    <3> QED
      BY <1>3, <2>1, <3>2, <3>3
  <2>3. CASE o # id
    BY <1>6, <1>8, <2>1, <2>3 DEF MakesMemory
  <2> QED
    BY <2>2, <2>3
<1>9. ASSUME NEW id \in ObjectIds, o # id
      PROVE  ref # RefTo(id)
  BY <1>1, <1>9 DEF RefTo
<1>10. ASSUME NEW s \in ObjectIds, NEW id \in ObjectIds, NEW i \in RangeSlots, NEW mapping,
              Maps(s, i, id, mapping)
       PROVE  Active(o)' = UseCount(RefTo(o))'
  <2>1. UseCount(ref)' = UseCount(ref) + (IF ref = RefTo(id) THEN 1 ELSE 0)
    BY <1>10, UsesMapped
  <2>2. GoesOn(id, Active(id) + 1)
    BY <1>10 DEF Maps
  <2>3. CASE o = id
    BY <1>1, <1>3, <1>4, <2>1, <2>2, <2>3 DEF GoesOn
  <2>4. CASE o # id
    BY <1>5, <1>6, <1>9, <2>1, <2>2, <2>4 DEF GoesOn
  <2> QED
    BY <2>3, <2>4
<1>11. ASSUME NEW s \in ObjectIds, NEW i \in RangeSlots, NEW j \in WorkSlots, NEW work,
              Unmaps(s, i, j, work)
       PROVE  Active(o)' = UseCount(RefTo(o))'
  BY <1>6, <1>11, UsesUnmapped DEF Unmaps, MemoriesStay
<1>12. ASSUME NEW s \in ObjectIds, NEW id \in ObjectIds, NEW j \in WorkSlots, Drops(s, j, id)
       PROVE  Active(o)' = UseCount(RefTo(o))'
  <2>1. UseCount(ref)' = UseCount(ref) - (IF ref = RefTo(id) THEN 1 ELSE 0)
    BY <1>12, UsesDropped
  <2>2. CASE o # id
    <3>1. MemoryStays(o)
      BY <1>12, <2>2 DEF Drops, GoesOn, IsReclaimed
    <3> QED
      BY <1>5, <1>6, <1>9, <2>1, <2>2, <3>1
  <2>3. CASE o = id
    <3>1. ~IsReclaimed(id)
      BY <2>3 DEF IsReclaimed, IsMemory
    <3>2. GoesOn(id, Active(id) - 1)
      BY <1>12, <3>1 DEF Drops
    <3> QED
      BY <1>1, <1>3, <1>4, <2>1, <2>3, <3>2 DEF GoesOn
  <2> QED
    BY <2>2, <2>3
<1>13. ASSUME NEW id \in ObjectIds, Reclaims(id)
       PROVE  Active(o)' = UseCount(RefTo(o))'
  <2>1. o # id
    BY <1>13 DEF Reclaims, IsReclaimed, IsMemory
  <2> QED
    BY <1>6, <1>13, <2>1, UsesStay DEF Reclaims, IsReclaimed
<1> QED
  BY <1>7, <1>8, <1>10, <1>11, <1>12, <1>13 DEF MemoryKinds

(* Frames are granted when they are free and released with their object.   *)
LEMMA FramesStayBacked ==
  ASSUME MemoryOK, MemoryKinds, KernelOK'
  PROVE  FramesBacked'
<1>1. GenerationsFree /\ \A o \in ObjectIds : IsMemory(o) /\ IsMemory(o)' => Extent(o)' = Extent(o)
  BY ExtentStays
<1>2. ASSUME NEW o \in ObjectIds, IsMemory(o)'
      PROVE  RefTo(o)' = RefTo(o) /\ RefTo(o) # None
  <2>1. RefTo(o)' = RefTo(o)
    BY <1>1, <1>2, RefsStay DEF IsMemory
  <2>2. RefTo(o) \in ObjectRefs
    BY RefType DEF MemoryOK
  <2> QED
    BY <2>1, <2>2, NoneIsNoRef
<1>3. frames \in FrameTables(ObjectRefs)
  BY DEF MemoryOK, KernelOK
<1>4. /\ \A id \in ObjectIds : IsMemory(id) =>
           \A p \in PagesOf(Extent(id)) : p \in Pages /\ frames[p].owner = RefTo(id)
      /\ \A p \in Pages : frames[p].owner # None =>
           \E id \in ObjectIds :
             IsMemory(id) /\ frames[p].owner = RefTo(id) /\ p \in PagesOf(Extent(id))
  BY DEF MemoryOK, FramesBacked, OwnsRange
<1>5. ASSUME \A id \in ObjectIds : IsMemory(id)' =>
               \A p \in PagesOf(Extent(id)') : p \in Pages /\ frames'[p].owner = RefTo(id),
             \A p \in Pages : frames'[p].owner # None =>
               \E id \in ObjectIds :
                 IsMemory(id)' /\ frames'[p].owner = RefTo(id) /\ p \in PagesOf(Extent(id)')
      PROVE  FramesBacked'
  <2>1. ASSUME NEW id \in ObjectIds, IsMemory(id)'
        PROVE  OwnsRange(frames, Extent(id), RefTo(id))'
    BY <1>2, <1>5, <2>1 DEF OwnsRange, PagesOf
  <2>2. ASSUME NEW p \in Pages, frames'[p].owner # None
        PROVE  \E id \in ObjectIds :
                 IsMemory(id)' /\ frames'[p].owner = RefTo(id)' /\ p \in PagesOf(Extent(id))'
    BY <1>2, <1>5, <2>2 DEF PagesOf
  <2> QED
    BY <2>1, <2>2 DEF FramesBacked
<1>6. ASSUME UNCHANGED frames, \A o \in ObjectIds : IsMemory(o)' <=> IsMemory(o)
      PROVE  FramesBacked'
  BY <1>1, <1>4, <1>5, <1>6
<1>7. ASSUME NEW id \in ObjectIds, NEW n, GoesOn(id, n)
      PROVE  FramesBacked'
  BY <1>6, <1>7 DEF GoesOn, MemoryStays
<1>8. ASSUME NEW id \in ObjectIds, NEW range \in FrameRanges, MakesMemory(id, range)
      PROVE  FramesBacked'
  <2>1. /\ ~IsMemory(id) /\ IsMemory(id)'
        /\ PagesOf(range) \subseteq Free(frames)
        /\ \A o \in ObjectIds \ {id} : IsMemory(o)' <=> IsMemory(o)
    BY <1>8 DEF MakesMemory, IsMemory, MemoryStays
  <2>2. Extent(id)' = range
    BY <1>8 DEF MakesMemory, Extent, NewMemoryObject
  <2>3. \A p \in Pages :
          frames'[p].owner = IF p \in PagesOf(range) THEN RefTo(id) ELSE frames[p].owner
    BY <1>3, <1>8 DEF MakesMemory, Grant, FrameTables
  <2>4. \A p \in PagesOf(range) : p \in Pages /\ frames[p].owner = None
    BY <2>1 DEF Free
  <2>5. ASSUME NEW o \in ObjectIds, IsMemory(o)', NEW p \in PagesOf(Extent(o)')
        PROVE  p \in Pages /\ frames'[p].owner = RefTo(o)
    <3>1. CASE o = id
      BY <2>2, <2>3, <2>4, <2>5, <3>1
    <3>2. CASE o # id
      <4>1. IsMemory(o) /\ Extent(o)' = Extent(o)
        BY <1>1, <2>1, <2>5, <3>2
      <4>2. p \in Pages /\ frames[p].owner = RefTo(o) /\ RefTo(o) # None
        BY <1>2, <1>4, <2>5, <4>1
      <4> QED
        BY <2>3, <2>4, <4>2
    <3> QED
      BY <3>1, <3>2
  <2>6. ASSUME NEW p \in Pages, frames'[p].owner # None
        PROVE  \E o \in ObjectIds :
                 IsMemory(o)' /\ frames'[p].owner = RefTo(o) /\ p \in PagesOf(Extent(o)')
    <3>1. CASE p \in PagesOf(range)
      BY <2>1, <2>2, <2>3, <3>1
    <3>2. CASE p \notin PagesOf(range)
      <4>1. PICK o \in ObjectIds :
              IsMemory(o) /\ frames[p].owner = RefTo(o) /\ p \in PagesOf(Extent(o))
        BY <1>4, <2>3, <2>6, <3>2
      <4>2. IsMemory(o)' /\ Extent(o)' = Extent(o)
        BY <1>1, <2>1, <4>1
      <4> QED
        BY <2>3, <3>2, <4>1, <4>2
    <3> QED
      BY <3>1, <3>2
  <2> QED
    BY <1>5, <2>5, <2>6
<1>9. ASSUME NEW id \in ObjectIds, IsReclaimed(id)
      PROVE  FramesBacked'
  <2>1. /\ IsMemory(id) /\ ~IsMemory(id)'
        /\ \A o \in ObjectIds \ {id} : IsMemory(o)' <=> IsMemory(o)
    BY <1>9 DEF IsReclaimed, IsMemory, MemoryStays
  <2>2. \A p \in Pages :
          frames'[p].owner = IF p \in PagesOf(Extent(id)) THEN None ELSE frames[p].owner
    BY <1>3, <1>9 DEF IsReclaimed, Release, FrameTables
  <2>3. ASSUME NEW o \in ObjectIds, IsMemory(o)', NEW p \in PagesOf(Extent(o)')
        PROVE  p \in Pages /\ frames'[p].owner = RefTo(o)
    <3>1. o # id /\ IsMemory(o) /\ Extent(o)' = Extent(o)
      BY <1>1, <2>1, <2>3
    <3>2. p \in Pages /\ frames[p].owner = RefTo(o)
      BY <1>4, <2>3, <3>1
    <3>3. RefTo(o) # RefTo(id)
      BY <3>1 DEF RefTo
    <3>4. p \notin PagesOf(Extent(id))
      BY <1>4, <2>1, <3>2, <3>3
    <3> QED
      BY <2>2, <3>2, <3>4
  <2>4. ASSUME NEW p \in Pages, frames'[p].owner # None
        PROVE  \E o \in ObjectIds :
                 IsMemory(o)' /\ frames'[p].owner = RefTo(o) /\ p \in PagesOf(Extent(o)')
    <3>1. p \notin PagesOf(Extent(id)) /\ frames'[p].owner = frames[p].owner
      BY <2>2, <2>4
    <3>2. PICK o \in ObjectIds :
            IsMemory(o) /\ frames[p].owner = RefTo(o) /\ p \in PagesOf(Extent(o))
      BY <1>4, <2>4, <3>1
    <3>3. IsMemory(o)' /\ Extent(o)' = Extent(o)
      BY <1>1, <2>1, <3>1, <3>2
    <3> QED
      BY <3>1, <3>2, <3>3
  <2> QED
    BY <1>5, <2>3, <2>4
<1>10. CASE Idle
  BY <1>6, <1>10 DEF Idle, MemoriesStay, MemoryStays
<1>11. ASSUME NEW s, NEW i, NEW j, NEW work, Unmaps(s, i, j, work)
       PROVE  FramesBacked'
  BY <1>6, <1>11 DEF Unmaps, MemoriesStay, MemoryStays
<1> QED
  BY <1>7, <1>8, <1>9, <1>10, <1>11 DEF MemoryKinds, Maps, Drops, Reclaims

(* No memory object yet, and every frame free.                             *)
LEMMA InitTables == Init => TablesOK
<1> SUFFICES ASSUME Init PROVE TablesOK
  OBVIOUS
<1>1. KernelOK
  BY InitWellFormed
<1>2. \A id \in ObjectIds : ~IsMemory(id) /\ ~IsSpace(id)
  BY DEF Init, IsMemory, IsSpace
<1>3. \A ref : ~Used(ref)
  BY <1>2 DEF Used, MappedPlaces, OwedPlaces, MappingAt, WorkAt
<1>4. \A p \in Pages : frames[p].owner = None
  BY DEF Init, InitialFrames
<1> QED
  BY <1>1, <1>2, <1>3, <1>4, InitAccounts
     DEF TablesOK, MemoryOK, UsesValid, UsesCounted, FramesBacked, MappingsFit, MappingAt

(* Both ways to look at a call.                                            *)
LEMMA StepKindsOf ==
  ASSUME TablesOK, [Next]_vars
  PROVE  KernelOK /\ StepOK /\ StepKinds /\ MemoryKinds /\ \E owner : SoundRefs(owner)
<1>1. KernelOK /\ StepOK
  BY StepWellFormed DEF TablesOK, MemoryOK
<1>2. PICK owner : SoundRefs(owner)
  BY DEF TablesOK, AccountsOK, LinksOK, ReferencesOK
<1> QED
  BY <1>1, <1>2, ChildrenAgree, StepEffect, StepMemory

(* Every call keeps all of it.                                             *)
LEMMA StepTables == TablesOK /\ [Next]_vars => TablesOK'
<1> SUFFICES ASSUME TablesOK, [Next]_vars PROVE TablesOK'
  OBVIOUS
<1>1. KernelOK /\ StepOK /\ KernelOK' /\ MemoryOK /\ AccountsOK'
  BY StepWellFormed, StepAccounts DEF TablesOK, MemoryOK, StepOK
<1>2. MemoryKinds
  BY <1>1, StepKindsOf
<1> QED
  BY <1>1, <1>2, UsesStayValid, MappingsStayFit, UsesStayCounted, FramesStayBacked
     DEF TablesOK, MemoryOK

(* Memory is where the tables say it is, in every reachable state.         *)
THEOREM MemoryStaysRight == Spec => []TablesOK
BY InitTables, StepTables, PTL DEF Spec

(* What MappedPlaces and OwedPlaces stand for.                             *)
LEMMA UsesOf ==
  ASSUME NEW ref
  PROVE  MappedAt(ref) = MappedPlaces(ref) /\ AwaitedAt(ref) = OwedPlaces(ref)
<1>1. MappedAt(ref) = MappedPlaces(ref)
  BY DEF MappedAt, MappedPlaces, OfKind, LiveIds, Mapped, MappingAt, IsSpace
<1>2. AwaitedAt(ref) = OwedPlaces(ref)
  BY DEF AwaitedAt, OwedPlaces, OfKind, LiveIds, Owed, WorkAt, IsSpace
<1> QED
  BY <1>1, <1>2

(* active_mappings of a memory object, which decides whether it is         *)
(* reclaimed, counts exactly what address spaces map of it and what they   *)
(* still have to flush.                                                    *)
THEOREM MappingsAreCounted == Spec => []MappingCountAccurate
<1>1. TablesOK => MappingCountAccurate
  BY UsesOf DEF TablesOK, MemoryOK, UsesCounted, MappingCountAccurate, OfKind, LiveIds, IsMemory,
                Active, UseCount
<1> QED
  BY <1>1, MemoryStaysRight, PTL

(* What an address space maps, or has unmapped and not yet flushed, is a   *)
(* live memory object that is large enough: no frame is freed under a      *)
(* translation that may still be cached.                                   *)
THEOREM MappedMemoryIsThere == Spec => []MappedMemoryStays
<1>1. TablesOK => MappedMemoryStays
  <2> SUFFICES ASSUME TablesOK, MemoryOK, NEW s \in OfKind("AddressSpace")
               PROVE  /\ \A i \in RangeSlots :
                           LET m == objects[s].payload.mappings[i]
                           IN  m # None =>
                                 /\ Valid(m.memory, "MemoryObject")
                                 /\ m.offset + m.size <= SizeOf(objects[m.memory.id].payload)
                      /\ \A i \in WorkSlots :
                           LET w == objects[s].payload.work[i]
                           IN  w # None => Valid(w.memory, "MemoryObject")
    BY DEF MappedMemoryStays, TablesOK
  <2>1. s \in ObjectIds /\ IsSpace(s)
    BY DEF OfKind, LiveIds, IsSpace
  <2>2. /\ \A i \in RangeSlots : MappingAt(s, i) = objects[s].payload.mappings[i]
        /\ \A i \in WorkSlots : WorkAt(s, i) = objects[s].payload.work[i]
    BY <2>1 DEF MappingAt, WorkAt
  <2>3. ASSUME NEW i \in RangeSlots, MappingAt(s, i) # None
        PROVE  LET m == MappingAt(s, i)
               IN  /\ Valid(m.memory, "MemoryObject")
                   /\ m.offset + m.size <= SizeOf(objects[m.memory.id].payload)
    <3>1. MappingAt(s, i).memory \in ObjectRefs
      BY <2>1, <2>3, UseTypes DEF MemoryOK, Mappings
    <3> QED
      BY <2>1, <2>3, <3>1, PlaceUses DEF MemoryOK, UsesValid, MappingsFit
  <2>4. ASSUME NEW i \in WorkSlots, WorkAt(s, i) # None
        PROVE  Valid(WorkAt(s, i).memory, "MemoryObject")
    <3>1. WorkAt(s, i).memory \in ObjectRefs
      BY <2>1, <2>4, UseTypes DEF MemoryOK, Invalidations
    <3> QED
      BY <2>1, <2>4, <3>1, PlaceUses DEF MemoryOK, UsesValid
  <2> QED
    BY <2>2, <2>3, <2>4
<1> QED
  BY <1>1, MemoryStaysRight, PTL

(* Every live memory object owns all of its frames, and every frame that   *)
(* is taken belongs to one live memory object, at its present generation:  *)
(* no frame is lost and none is handed out twice.                          *)
THEOREM FramesBelongToMemory == Spec => []FramesBackMemory
<1>1. TablesOK => FramesBackMemory
  <2> SUFFICES ASSUME MemoryOK PROVE FramesBackMemory
    BY DEF TablesOK
  <2>1. ASSUME NEW id \in OfKind("MemoryObject")
        PROVE  OwnsRange(frames, objects[id].payload.frames, RefTo(id))
    BY <2>1 DEF MemoryOK, FramesBacked, OfKind, LiveIds, IsMemory, Extent
  <2>2. ASSUME NEW p \in Pages \ Free(frames)
        PROVE  /\ Valid(frames[p].owner, "MemoryObject")
               /\ p \in PagesOf(objects[frames[p].owner.id].payload.frames)
    <3>1. PICK id \in ObjectIds :
            IsMemory(id) /\ frames[p].owner = RefTo(id) /\ p \in PagesOf(Extent(id))
      BY <2>2 DEF MemoryOK, FramesBacked, Free
    <3> QED
      BY <3>1 DEF Valid, Live, RefTo, IsMemory, Extent
  <2> QED
    BY <2>1, <2>2 DEF FramesBackMemory
<1> QED
  BY <1>1, MemoryStaysRight, PTL

-----------------------------------------------------------------------------
(* What nobody refers to is gone.                                          *)

(* An address space with ranges or with invalidations to flush.            *)
Busy(s) ==
  \/ \E i \in RangeSlots : MappingAt(s, i) # None
  \/ \E j \in WorkSlots : WorkAt(s, j) # None

(* A memory object has a handle or a use, a busy address space a handle.   *)
Reached(id) ==
  /\ IsMemory(id) => objects[id].handleCount > 0 \/ Active(id) > 0
  /\ Busy(id) => objects[id].handleCount > 0

ReachedOK == TablesOK /\ \A id \in ObjectIds : Reached(id)

(* The two counters of an address space say whether it is busy.            *)
LEMMA DestroyableSpace ==
  ASSUME NEW a, WellFormedSpace(a)
  PROVE  CanDestroySpace(a) <=> /\ \A i \in RangeSlots : a.mappings[i] = None
                                /\ \A j \in WorkSlots : a.work[j] = None
<1>1. ConsistentSpace(a)
  BY DEF WellFormedSpace
<1>2. IsFiniteSet(RangeSlots) /\ IsFiniteSet(WorkSlots)
  BY FS_Interval, AddressSpaceAssumption DEF RangeSlots, WorkSlots
<1>3. Mapped(a) \in SUBSET RangeSlots /\ Owed(a) \in SUBSET WorkSlots
  BY DEF Mapped, Owed
<1>4. IsFiniteSet(Mapped(a)) /\ IsFiniteSet(Owed(a))
  BY <1>2, <1>3, FS_Subset
<1>5. a.count = 0 <=> Mapped(a) = {}
  BY <1>1, <1>4, FS_EmptySet DEF ConsistentSpace
<1>6. a.pending = 0 <=> Owed(a) = {}
  BY <1>1, <1>4, FS_EmptySet DEF ConsistentSpace
<1> QED
  BY <1>5, <1>6 DEF CanDestroySpace, Mapped, Owed

(* A handle is counted.                                                    *)
LEMMA HeldCounted ==
  ASSUME TablesOK, NEW id \in ObjectIds, objects[id] # None, Held(RefTo(id)) # {}
  PROVE  objects[id].handleCount > 0
<1>1. PICK ref : ref = RefTo(id)
  OBVIOUS
<1>2. /\ IsFiniteSet(Held(ref)) /\ Cardinality(Held(ref)) \in Nat
      /\ Cardinality(Carried(ref)) \in Nat
  BY CountFinite
<1>3. Cardinality(Held(ref)) # 0
  BY <1>1, <1>2, FS_EmptySet
<1>4. objects[id].handleCount = Count(ref)
  BY <1>1 DEF TablesOK, AccountsOK, CountsRight
<1> QED
  BY <1>2, <1>3, <1>4 DEF Count

(* What the slots of a set hold is counted.                                *)
LEMMA ManyHeldCounted ==
  ASSUME TablesOK, NEW p \in ProcessIds, NEW S \in SUBSET Slots, NEW ref \in ObjectRefs,
         Live(ref), \A i \in S : At(p, i) # None /\ At(p, i).object = ref
  PROVE  /\ IsFiniteSet(S) /\ Cardinality(S) \in Nat
         /\ Cardinality(S) <= objects[ref.id].handleCount
         /\ objects[ref.id].handleCount \in Nat
<1>1. objects[ref.id].handleCount = Count(ref)
  BY DEF TablesOK, AccountsOK, CountsRight, Live, RefTo, ObjectRefs
<1>2. {p} \X S \in SUBSET Held(ref)
  BY DEF Held
<1>3. IsFiniteSet(S) /\ IsFiniteSet({p}) /\ Cardinality({p}) = 1 /\ Cardinality(S) \in Nat
  BY SlotsFinite, FS_Subset, FS_Singleton, FS_CardinalityType
<1>4. Cardinality({p} \X S) = Cardinality({p}) * Cardinality(S)
  BY <1>3, FS_Product
<1>5. Cardinality({p} \X S) <= Cardinality(Held(ref))
  BY <1>2, CountFinite, FS_Subset
<1>6. Cardinality(S) <= Cardinality(Held(ref))
  BY <1>3, <1>4, <1>5
<1>7. /\ Cardinality(Held(ref)) \in Nat /\ Cardinality(Carried(ref)) \in Nat /\ Count(ref) \in Nat
  BY CountFinite
<1> QED
  BY <1>1, <1>3, <1>6, <1>7 DEF Count

(* An object only loses its last handle when it can do without: a busy     *)
(* address space holds it back, and a memory object without uses goes.     *)
LEMMA LastHandle ==
  ASSUME TablesOK, NEW p \in ProcessIds, NEW S \in SUBSET Slots, NEW ref \in ObjectRefs,
         Closes(p, S, ref), NEW id \in ObjectIds, id = ref.id, objects'[id] # None
  PROVE  \/ objects'[id].handleCount > 0
         \/ (IsMemory(id)' => Active(id)' > 0) /\ ~Busy(id)'
<1>1. /\ Live(ref) /\ AllAlike /\ LetsGo(p, S, ref)
      /\ \A i \in S : At(p, i) # None /\ At(p, i).object = ref
      /\ objects'[id].handleCount =
           IF objects[id].handleCount < Cardinality(S) THEN 0
           ELSE objects[id].handleCount - Cardinality(S)
      /\ objects'[id].payload = objects[id].payload
      /\ ~Unreferenced(objects'[id])
  BY DEF Closes
<1>2. KernelOK /\ objects[id] # None /\ objects'[id].kind = objects[id].kind
  BY <1>1 DEF TablesOK, MemoryOK, Live, AllAlike, Alike
<1>3. /\ Cardinality(S) \in Nat /\ IsFiniteSet(S)
      /\ Cardinality(S) <= objects[id].handleCount
      /\ objects[id].handleCount \in Nat
  BY <1>1, ManyHeldCounted
<1>4. ASSUME NEW i \in Slots \ S, At(p, i) # None, At(p, i).object = ref
      PROVE  objects'[id].handleCount > 0
  <2>1. S \cup {i} \in SUBSET Slots
    OBVIOUS
  <2>2. \A j \in S \cup {i} : At(p, j) # None /\ At(p, j).object = ref
    BY <1>1, <1>4
  <2>3. Cardinality(S \cup {i}) <= objects[id].handleCount
    BY <1>1, <2>1, <2>2, ManyHeldCounted
  <2>4. Cardinality(S \cup {i}) = Cardinality(S) + 1
    BY <1>3, <1>4, FS_AddElement
  <2> QED
    BY <1>1, <1>3, <2>3, <2>4
<1>5. ASSUME Cardinality(S) = 1, CanCloseAfter(objects[id], 0), objects[id].handleCount <= 1
      PROVE  (IsMemory(id)' => Active(id)' > 0) /\ ~Busy(id)'
  <2>1. objects'[id].handleCount = 0
    BY <1>1, <1>3, <1>5
  <2>2. ASSUME IsMemory(id)'
        PROVE  Active(id)' > 0
    <3>1. objects[id].payload \in MemoryObjects
      BY <1>2, <2>2, LiveObject, PayloadOf DEF IsMemory
    <3>2. objects[id].payload.activeMappings # 0
      BY <1>1, <2>1, <2>2 DEF Unreferenced, CanReclaim, IsMemory
    <3> QED
      BY <1>1, <3>1, <3>2 DEF Active, MemoryObjects
  <2>3. ASSUME IsSpace(id)'
        PROVE  ~Busy(id)'
    <3>1. CanDestroySpace(objects[id].payload)
      BY <1>2, <1>3, <1>5, <2>3 DEF CanCloseAfter, IsSpace
    <3>2. WellFormedSpace(objects[id].payload)
      BY <1>2, <2>3, LiveObject, PayloadOf DEF IsSpace
    <3> QED
      BY <1>1, <2>3, <3>1, <3>2, DestroyableSpace DEF Busy, MappingAt, WorkAt
  <2> QED
    BY <2>2, <2>3 DEF Busy, MappingAt, WorkAt
<1> QED
  BY <1>1, <1>3, <1>4, <1>5 DEF LetsGo

(* The same of every call.                                                 *)
LEMMA LastHandles ==
  ASSUME TablesOK, StepOK, StepKinds, NEW id \in ObjectIds, objects'[id] # None
  PROVE  \/ objects'[id].handleCount > 0
         \/ objects[id] # None /\ objects[id].handleCount = 0
         \/ (IsMemory(id)' => Active(id)' > 0) /\ ~Busy(id)'
<1>1. objects[id] # None => objects[id].handleCount \in Nat
  BY LiveObject, ObjectParts DEF TablesOK, MemoryOK
<1>2. objects'[id].handleCount = objects[id].handleCount /\ objects[id] # None
        => objects'[id].handleCount > 0 \/ (objects[id] # None /\ objects[id].handleCount = 0)
  BY <1>1
<1>3. CASE Still
  BY <1>2, <1>3, AlikeKeeps DEF Still, CountsStay, NothingNew
<1>4. ASSUME NEW p \in ProcessIds, NEW N \in SUBSET ObjectIds, Creates(p, N)
      PROVE  objects'[id].handleCount > 0 \/ (objects[id] # None /\ objects[id].handleCount = 0)
  <2>1. CASE id \in N
    BY <1>4, <2>1 DEF Creates
  <2>2. CASE id \notin N
    BY <1>2, <1>4, <2>2 DEF Creates
  <2> QED
    BY <2>1, <2>2
<1>5. ASSUME NEW gone \in ObjectIds, Destroys(gone)
      PROVE  objects'[id].handleCount > 0 \/ (objects[id] # None /\ objects[id].handleCount = 0)
  BY <1>2, <1>5 DEF Destroys, NothingNew
<1>6. ASSUME NEW p, NEW source, NEW s, NEW rights, Duplicates(p, source, rights, s)
      PROVE  objects'[id].handleCount > 0 \/ (objects[id] # None /\ objects[id].handleCount = 0)
  <2>1. objects[id] # None
    BY <1>6, AlikeKeeps DEF Duplicates, NothingNew
  <2>2. \/ objects'[id].handleCount = objects[id].handleCount + 1
        \/ objects'[id].handleCount = objects[id].handleCount + 0
    BY <1>6 DEF Duplicates
  <2> QED
    BY <1>1, <2>1, <2>2
<1>7. ASSUME NEW p \in ProcessIds, NEW S \in SUBSET Slots, NEW ref \in ObjectRefs, Closes(p, S, ref)
      PROVE  \/ objects'[id].handleCount > 0
             \/ objects[id] # None /\ objects[id].handleCount = 0
             \/ (IsMemory(id)' => Active(id)' > 0) /\ ~Busy(id)'
  <2>1. CASE id = ref.id
    BY <1>7, <2>1, LastHandle
  <2>2. CASE id # ref.id
    BY <1>2, <1>7, <2>2, AlikeKeeps DEF Closes, NothingNew
  <2> QED
    BY <2>1, <2>2
<1>8. ASSUME NEW p, NEW channel, NEW moved, NEW o, NEW m, Sends(p, channel, moved, o, m)
      PROVE  objects'[id].handleCount > 0 \/ (objects[id] # None /\ objects[id].handleCount = 0)
  BY <1>2, <1>8 DEF Sends, CountsStay, NothingNew
<1>9. ASSUME NEW p, NEW channel, NEW o, NEW m, Receives(p, channel, o, m)
      PROVE  objects'[id].handleCount > 0 \/ (objects[id] # None /\ objects[id].handleCount = 0)
  BY <1>2, <1>9 DEF Receives, CountsStay, NothingNew
<1> QED
  BY <1>3, <1>4, <1>5, <1>6, <1>7, <1>8, <1>9 DEF StepKinds

(* What has no handle is not taken into use, and a memory object whose     *)
(* last use goes then goes with it.                                        *)
LEMMA UnheldStays ==
  ASSUME ReachedOK, MemoryKinds, NEW id \in ObjectIds, objects'[id] # None,
         objects[id] # None, objects[id].handleCount = 0
  PROVE  (IsMemory(id)' => Active(id)' > 0) /\ ~Busy(id)'
<1>1. ~Busy(id) /\ (IsMemory(id) => Active(id) > 0)
  BY DEF ReachedOK, Reached
<1>2. Held(RefTo(id)) = {}
  BY HeldCounted DEF ReachedOK
<1>3. IsMemory(id) => Active(id) \in Nat
  <2>1. IsMemory(id) => objects[id].payload \in MemoryObjects
    BY LiveObject, PayloadOf DEF IsMemory, ReachedOK, TablesOK, MemoryOK
  <2> QED
    BY <2>1 DEF Active, MemoryObjects
<1>4. \/ MemoryStays(id)
      \/ IsMemory(id) /\ IsMemory(id)' /\ Active(id)' = Active(id) + 1
      \/ IsMemory(id) /\ IsMemory(id)' /\ Active(id)' = Active(id) - 1 /\ Active(id) # 1
  <2>1. ASSUME NEW s \in ObjectIds, NEW o \in ObjectIds, NEW i, NEW mapping, Maps(s, i, o, mapping)
        PROVE  MemoryStays(id) \/ (IsMemory(id) /\ IsMemory(id)' /\ Active(id)' = Active(id) + 1)
    BY <2>1 DEF Maps, GoesOn
  <2>2. ASSUME NEW s \in ObjectIds, NEW o \in ObjectIds, NEW j, Drops(s, j, o)
        PROVE  \/ MemoryStays(id)
               \/ IsMemory(id) /\ IsMemory(id)' /\ Active(id)' = Active(id) - 1 /\ Active(id) # 1
    BY <2>2 DEF Drops, GoesOn, IsReclaimed
  <2>3. ASSUME NEW o \in ObjectIds, Reclaims(o)
        PROVE  MemoryStays(id)
    BY <2>3 DEF Reclaims, IsReclaimed
  <2>4. ASSUME NEW o \in ObjectIds, NEW range, MakesMemory(o, range)
        PROVE  MemoryStays(id)
    BY <2>4 DEF MakesMemory
  <2>5. CASE Idle \/ \E s, i, j, work : Unmaps(s, i, j, work)
    BY <2>5 DEF Idle, Unmaps, MemoriesStay
  <2> QED
    BY <2>1, <2>2, <2>3, <2>4, <2>5 DEF MemoryKinds
<1>5. IsMemory(id)' => Active(id)' > 0
  BY <1>1, <1>3, <1>4 DEF MemoryStays, Active
<1>6. \A i \in RangeSlots : MappingAt(id, i)' = None
  <2>1. \A i \in RangeSlots : MappingAt(id, i) = None
    BY <1>1 DEF Busy
  <2>2. ASSUME NEW s \in ObjectIds, NEW o, NEW k, NEW mapping, Maps(s, k, o, mapping)
        PROVE  \A i \in RangeSlots : MappingAt(id, i)' = MappingAt(id, i)
    BY <1>2, <2>2 DEF Maps
  <2>3. ASSUME NEW s, NEW i, NEW j, NEW work, Unmaps(s, i, j, work)
        PROVE  \A k \in RangeSlots : MappingAt(id, k)' \in {MappingAt(id, k), None}
    BY <2>3 DEF Unmaps
  <2>4. CASE MappingsStay
    BY <2>1, <2>4 DEF MappingsStay
  <2> QED
    BY <2>1, <2>2, <2>3, <2>4 DEF MemoryKinds, Idle, MakesMemory, Drops, Reclaims
<1>7. \A j \in WorkSlots : WorkAt(id, j)' = None
  <2>1. /\ \A j \in WorkSlots : WorkAt(id, j) = None
        /\ \A i \in RangeSlots : MappingAt(id, i) = None
    BY <1>1 DEF Busy
  <2>2. ASSUME NEW s, NEW i \in RangeSlots, NEW j, NEW work, Unmaps(s, i, j, work)
        PROVE  \A k \in WorkSlots : WorkAt(id, k)' = WorkAt(id, k)
    BY <2>1, <2>2 DEF Unmaps
  <2>3. ASSUME NEW s, NEW o, NEW j, Drops(s, j, o)
        PROVE  \A k \in WorkSlots : WorkAt(id, k)' \in {WorkAt(id, k), None}
    BY <2>3 DEF Drops
  <2>4. CASE WorkStays
    BY <2>1, <2>4 DEF WorkStays
  <2> QED
    BY <2>1, <2>2, <2>3, <2>4 DEF MemoryKinds, Idle, MakesMemory, Maps, Reclaims
<1> QED
  BY <1>5, <1>6, <1>7 DEF Busy

(* Nothing is forgotten before the first call ...                          *)
LEMMA InitReached == Init => ReachedOK
<1> SUFFICES ASSUME Init PROVE ReachedOK
  OBVIOUS
<1>1. \A id \in ObjectIds : objects[id] = None
  BY DEF Init
<1>2. \A id \in ObjectIds : Reached(id)
  BY <1>1 DEF Reached, IsMemory, Busy, MappingAt, WorkAt, IsSpace
<1> QED
  BY <1>2, InitTables DEF ReachedOK

(* ... nor by any call.                                                    *)
LEMMA StepReached == ReachedOK /\ [Next]_vars => ReachedOK'
<1> SUFFICES ASSUME ReachedOK, [Next]_vars PROVE ReachedOK'
  OBVIOUS
<1>1. TablesOK /\ TablesOK' /\ StepOK /\ StepKinds /\ MemoryKinds
  BY StepTables, StepKindsOf DEF ReachedOK
<1>2. ASSUME NEW id \in ObjectIds
      PROVE  Reached(id)'
  <2>1. CASE objects'[id] = None
    BY <2>1 DEF Reached, IsMemory, Busy, MappingAt, WorkAt, IsSpace
  <2>2. CASE objects'[id] # None
    BY <1>1, <2>2, LastHandles, UnheldStays DEF Reached
  <2> QED
    BY <2>1, <2>2
<1> QED
  BY <1>1, <1>2 DEF ReachedOK

(* A memory object without handle and without mapping or invalidation is   *)
(* gone: the last close and the last flush each reclaim it when the other  *)
(* came first.                                                             *)
THEOREM UnreachableMemoryGoes == Spec => []UnreachableMemoryReclaimed
<1>1. ReachedOK => UnreachableMemoryReclaimed
  BY DEF ReachedOK, Reached, UnreachableMemoryReclaimed, OfKind, LiveIds, IsMemory, Active
<1> QED
  BY <1>1, InitReached, StepReached, PTL DEF Spec

(* An address space with ranges or invalidations still has a handle:       *)
(* ensure_handle_can_close holds the last one back, and revocation leaves  *)
(* the handle it was asked with.                                           *)
THEOREM BusySpacesAreHeld == Spec => []BusySpaceHasHandle
<1>1. ReachedOK => BusySpaceHasHandle
  <2> SUFFICES ASSUME ReachedOK, NEW s \in ObjectIds, IsSpace(s),
                      ~CanDestroySpace(objects[s].payload)
               PROVE  objects[s].handleCount > 0
    BY DEF BusySpaceHasHandle, OfKind, LiveIds, IsSpace
  <2>1. WellFormedSpace(objects[s].payload)
    BY LiveObject, PayloadOf DEF IsSpace, ReachedOK, TablesOK, MemoryOK
  <2>2. Busy(s)
    BY <2>1, DestroyableSpace DEF Busy, MappingAt, WorkAt
  <2> QED
    BY <2>2 DEF ReachedOK, Reached
<1> QED
  BY <1>1, InitReached, StepReached, PTL DEF Spec

-----------------------------------------------------------------------------
(* Handles and the lives of what they name.                                *)

(* A reference that leads to no object is held by nobody, as long as the   *)
(* host destroys nothing.                                                  *)
NothingDangles ==
  \/ "destroy" \in HostCalls
  \/ \A ref \in ObjectRefs : Live(ref) \/ Count(ref) = 0

DanglingOK == TablesOK /\ NothingDangles

(* Unless the host destroys it, which it cannot do to a memory object, an  *)
(* object goes with its last handle: by a close that closes all there are, *)
(* or by a flush when none was left.                                       *)
LEMMA GoneUnheld ==
  ASSUME TablesOK, KernelOK', MemoryKinds, NEW ref \in ObjectRefs, Live(ref), objects'[ref.id] = None,
         "destroy" \notin HostCalls \/ IsMemory(ref.id)
  PROVE  Count(ref)' = 0
<1>1. ref.id \in ObjectIds /\ ref = RefTo(ref.id) /\ objects[ref.id] # None
  BY DEF Live, RefTo, ObjectRefs
<1>2. objects[ref.id].handleCount = Count(ref)
  BY <1>1 DEF TablesOK, AccountsOK, CountsRight
<1>3. ~NothingGone
  BY <1>1 DEF NothingGone
<1>4. ASSUME NEW s, NEW j, NEW id, Drops(s, j, id)
      PROVE  Count(ref)' = 0
  <2>1. Still /\ objects[id].handleCount = 0 /\ IsReclaimed(id)
    BY <1>3, <1>4 DEF Drops, GoesOn
  <2>2. ref.id = id
    BY <1>1, <2>1 DEF IsReclaimed
  <2>3. Count(ref)' = Count(ref)
    BY <2>1, AlikeKeeps, CountStays DEF Still
  <2> QED
    BY <1>2, <2>1, <2>2, <2>3
<1>5. ASSUME NEW id \in ObjectIds, Reclaims(id)
      PROVE  Count(ref)' = 0
  <2>1. ref.id = id
    BY <1>1, <1>5 DEF Reclaims, IsReclaimed
  <2>2. PICK p \in ProcessIds, S \in SUBSET Slots : Closes(p, S, ref)
    BY <1>1, <1>5, <2>1 DEF Reclaims
  <2>3. /\ \A i \in S : At(p, i) # None /\ At(p, i).object = ref
        /\ objects[ref.id].handleCount <= Cardinality(S)
    BY <1>1, <2>2 DEF Closes
  <2>4. /\ Cardinality(S) \in Nat /\ objects[ref.id].handleCount \in Nat
        /\ Cardinality(S) <= objects[ref.id].handleCount
    BY <2>3, ManyHeldCounted
  <2>5. Count(ref)' = Count(ref) - Cardinality(S)
    BY <2>2, CountCloses DEF TablesOK, MemoryOK
  <2> QED
    BY <1>2, <2>3, <2>4, <2>5
<1>6. ~Idle
  BY <1>1, <1>3 DEF Idle, MemoriesStay, MemoryStays, IsMemory
<1> QED
  BY <1>3, <1>4, <1>5, <1>6 DEF MemoryKinds, MakesMemory, Maps, Unmaps, GoesOn

(* Nobody gets a handle to what is not there.                              *)
LEMMA UnheldForGood ==
  ASSUME KernelOK, KernelOK', StepKinds, NEW ref \in ObjectRefs, ~Live(ref), ~Live(ref)'
  PROVE  Count(ref)' = Count(ref)
<1>1. ASSUME NEW p \in ProcessIds, NEW N \in SUBSET ObjectIds, Creates(p, N)
      PROVE  Count(ref)' = Count(ref)
  <2>1. \A id \in N : RefTo(id) # ref
    BY <1>1 DEF Creates, RefTo, Live
  <2> QED
    BY <1>1, <2>1, CountUncreated
<1>2. ASSUME NEW p \in ProcessIds, Running(p), NEW source \in Slots, NEW s \in Slots,
             NEW rights, Duplicates(p, source, rights, s)
      PROVE  Count(ref)' = Count(ref)
  <2>1. Live(At(p, source).object)
    BY <1>2 DEF Duplicates
  <2>2. Count(ref)' = Count(ref) + (IF ref = At(p, source).object THEN 1 ELSE 0)
    BY <1>2, CountDuplicates
  <2>3. Count(ref) \in Nat
    BY CountFinite
  <2> QED
    BY <2>1, <2>2, <2>3
<1>3. ASSUME NEW p \in ProcessIds, NEW S \in SUBSET Slots, NEW closed, Closes(p, S, closed)
      PROVE  Count(ref)' = Count(ref)
  <2>1. Live(closed)
    BY <1>3 DEF Closes
  <2>2. Count(ref)' = Count(ref) - (IF ref = closed THEN Cardinality(S) ELSE 0)
    BY <1>3, CountCloses
  <2>3. Count(ref) \in Nat
    BY CountFinite
  <2> QED
    BY <2>1, <2>2, <2>3
<1>4. CASE Still \/ \E id \in ObjectIds : Destroys(id)
  BY <1>4, AlikeKeeps, CountStays DEF Still, Destroys
<1>5. CASE \E p \in ProcessIds : Running(p) /\
              \/ \E channel \in Slots, moved \in HandleLists, id \in ObjectIds, m \in MessageSlots :
                   Sends(p, channel, moved, id, m)
              \/ \E channel \in Slots, id \in ObjectIds, m \in MessageSlots :
                   Receives(p, channel, id, m)
  BY <1>5, CountTransfers
<1> QED
  BY <1>1, <1>2, <1>3, <1>4, <1>5 DEF StepKinds

(* No call leaves a handle without its object.                             *)
LEMMA StepDangling == DanglingOK /\ [Next]_vars => DanglingOK'
<1> SUFFICES ASSUME DanglingOK, [Next]_vars PROVE DanglingOK'
  OBVIOUS
<1>1. /\ TablesOK /\ TablesOK' /\ KernelOK /\ KernelOK' /\ StepKinds /\ MemoryKinds
  BY StepTables, StepKindsOf DEF DanglingOK, TablesOK, MemoryOK
<1>2. GenerationsFree
  BY <1>1 DEF MemoryKinds, Idle, MakesMemory, Maps, Unmaps, GoesOn, Drops, Reclaims,
              IsReclaimed, GenerationsFree
<1>3. ASSUME "destroy" \notin HostCalls, NEW ref \in ObjectRefs, ~Live(ref)'
      PROVE  Count(ref)' = 0
  <2>1. CASE Live(ref)
    <3>1. objects'[ref.id] = None
      BY <1>2, <1>3, <2>1 DEF GenerationsFree, Live, ObjectRefs
    <3> QED
      BY <1>1, <1>3, <2>1, <3>1, GoneUnheld
  <2>2. CASE ~Live(ref)
    <3>1. Count(ref) = 0
      BY <1>3, <2>2 DEF DanglingOK, NothingDangles
    <3> QED
      BY <1>1, <1>3, <2>2, <3>1, UnheldForGood
  <2> QED
    BY <2>1, <2>2
<1> QED
  BY <1>1, <1>3 DEF DanglingOK, NothingDangles

(* While only system calls run, every handle, in a table or in a message,  *)
(* leads to a live object of the kind it was made for: what a call         *)
(* reclaims has lost its last handle, and a generation that has passed is  *)
(* never handed out again.                                                 *)
THEOREM HandlesNeverDangle == Spec => []("destroy" \notin HostCalls => NoDanglingHandle)
<1>1. Init => DanglingOK
  <2> SUFFICES ASSUME Init PROVE DanglingOK
    OBVIOUS
  <2>1. \A ref : Held(ref) = {} /\ Carried(ref) = {}
    BY DEF Init, Held, Carried, At, Running, Queue, IsEndpoint
  <2>2. \A ref : Count(ref) = 0
    BY <2>1, FS_EmptySet DEF Count
  <2> QED
    BY <2>2, InitTables DEF DanglingOK, NothingDangles
<1>2. DanglingOK /\ NoKindConfusion => ("destroy" \notin HostCalls => NoDanglingHandle)
  <2> SUFFICES ASSUME DanglingOK, NoKindConfusion, "destroy" \notin HostCalls,
                      NEW e \in AllEntries
               PROVE  Valid(e.object, e.kind)
    BY DEF NoDanglingHandle
  <2>1. PICK owner : KernelOK /\ SoundRefs(owner)
    BY DEF DanglingOK, TablesOK, AccountsOK, LinksOK, ReferencesOK
  <2>2. PICK ref : ref = e.object
    OBVIOUS
  <2>3. e \in Entries /\ (Held(ref) # {} \/ Carried(ref) # {})
    <3>1. CASE \E l \in TableSlots : e = EntryAt(l)
      BY <2>1, <2>2, <3>1, EntriesBelong, PlacesOf DEF HeldIn
    <3>2. CASE \E l \in TransitSlots : e = InTransit(l)
      BY <2>1, <2>2, <3>2, EntriesBelong, PlacesOf DEF CarriedIn
    <3> QED
      BY <3>1, <3>2 DEF AllEntries
  <2>4. ref \in ObjectRefs
    BY <2>2, <2>3, EntryParts
  <2>5. Count(ref) # 0
    BY <2>3, CountFinite, FS_EmptySet DEF Count
  <2>6. Live(e.object)
    BY <2>2, <2>4, <2>5 DEF DanglingOK, NothingDangles
  <2> QED
    BY <2>6 DEF Valid, NoKindConfusion
<1> QED
  BY <1>1, <1>2, StepDangling, KindsAreNotConfused, PTL DEF Spec

-----------------------------------------------------------------------------
(* Handles to memory.                                                      *)

(* An entry is in a table or on its way.                                   *)
Present(e) ==
  \/ \E q \in ProcessIds, i \in Slots : At(q, i) = e
  \/ \E id \in ObjectIds : InQueue(id, e)

(* A handle was made for the memory object of ref.                         *)
MemoryNamed(ref) ==
  \E e \in Entries : Present(e) /\ e.kind = "MemoryObject" /\ e.object = ref

(* Handles to memory lead to it, whatever the host destroys.               *)
HoldingOK == ReachedOK /\ \A ref \in ObjectRefs : MemoryNamed(ref) => Live(ref)

(* An entry that is present counts.                                        *)
LEMMA PresentCounted ==
  KernelOK => \A e \in Entries : Present(e) => Count(e.object) # 0
<1> SUFFICES ASSUME KernelOK, NEW e \in Entries, Present(e)
             PROVE  Count(e.object) # 0
  OBVIOUS
<1>1. e # None
  BY EntryParts
<1>2. ASSUME NEW q \in ProcessIds, NEW i \in Slots, At(q, i) = e
      PROVE  <<q, i>> \in Held(e.object)
  BY <1>1, <1>2 DEF Held
<1>3. ASSUME NEW id \in ObjectIds, InQueue(id, e)
      PROVE  Carried(e.object) # {}
  <2>0. PICK m \in MessageSlots :
          Queue(id, m) # None /\ \E k \in DOMAIN Queue(id, m) : Queue(id, m)[k] = e
    BY <1>3 DEF InQueue
  <2>1. PICK k \in DOMAIN Queue(id, m) :
          Queue(id, m) # None /\ k \in DOMAIN Queue(id, m) /\ Queue(id, m)[k] = e
    BY <2>0
  <2>2. Queue(id, m) \in Messages
    BY <2>1, ViewTypes
  <2>3. k \in 1 .. MaxMessageHandles
    BY <2>1, <2>2, MessageEntries, ChannelAssumption
  <2>4. <<id, m, k>> \in Carried(e.object)
    BY <2>1, <2>3 DEF Carried
  <2> QED
    BY <2>4
<1>4. Held(e.object) # {} \/ Carried(e.object) # {}
  BY <1>2, <1>3 DEF Present
<1> QED
  BY <1>4, CountFinite, FS_EmptySet DEF Count

(* What has handles has one that is present.                               *)
LEMMA CountedPresent ==
  ASSUME KernelOK, NEW ref, Count(ref) # 0
  PROVE  \E e \in Entries : Present(e) /\ e.object = ref
<1>1. Held(ref) # {} \/ Carried(ref) # {}
  BY FS_EmptySet DEF Count
<1>2. ASSUME NEW l \in Held(ref)
      PROVE  \E e \in Entries : Present(e) /\ e.object = ref
  BY <1>2, ViewTypes DEF Held, Present
<1>3. ASSUME NEW l \in Carried(ref)
      PROVE  \E e \in Entries : Present(e) /\ e.object = ref
  <2>1. /\ l[1] \in ObjectIds /\ l[2] \in MessageSlots
        /\ Queue(l[1], l[2]) # None /\ l[3] \in DOMAIN Queue(l[1], l[2])
        /\ Queue(l[1], l[2])[l[3]].object = ref
    BY <1>3 DEF Carried
  <2>2. Queue(l[1], l[2])[l[3]] \in Entries
    BY <2>1, ViewTypes, MessageEntries
  <2>3. InQueue(l[1], Queue(l[1], l[2])[l[3]])
    BY <2>1 DEF InQueue
  <2> QED
    BY <2>1, <2>2, <2>3 DEF Present
<1> QED
  BY <1>1, <1>2, <1>3

(* A handle that leads to an object leads to one of its kind.              *)
LEMMA KindOfPresent ==
  ASSUME TablesOK, NEW e \in Entries, Present(e), Live(e.object)
  PROVE  objects[e.object.id].kind = e.kind
<1>1. PICK owner \in Owners : SoundRefs(owner)
  BY DEF TablesOK, AccountsOK, LinksOK, ReferencesOK
<1>2. \E q \in ProcessIds : Belongs(owner, q, e)
  <2>1. ASSUME NEW id \in ObjectIds, InQueue(id, e)
        PROVE  owner[RefTo(id)] \in ProcessIds
    <3>1. objects[id] # None
      BY <2>1 DEF InQueue, Queue, IsEndpoint
    <3> QED
      BY <1>1, <3>1 DEF SoundRefs
  <2> QED
    BY <2>1 DEF Present, Belongs
<1> QED
  BY <1>1, <1>2 DEF SoundRefs, Sound

(* Such a handle leads to a memory object, if to anything.                 *)
LEMMA NamedIsMemory ==
  ASSUME TablesOK, NEW ref, MemoryNamed(ref), Live(ref)
  PROVE  IsMemory(ref.id)
BY KindOfPresent DEF MemoryNamed, IsMemory, Live

(* A call gives out handles to live objects only, for their kinds.         *)
LEMMA PresentAfter ==
  ASSUME KernelOK, StepKinds, NEW e \in Entries, Present(e)'
  PROVE  \/ Live(e.object)'
         \/ \E d \in Entries : Present(d) /\ d.object = e.object /\ d.kind = e.kind
<1> DEFINE Before == \E d \in Entries : Present(d) /\ d.object = e.object /\ d.kind = e.kind
<1>1. Present(e) => Before
  OBVIOUS
<1>2. QueuesStay /\ (\A id \in ObjectIds : ~InQueue(id, e)) => \A id \in ObjectIds : ~InQueue(id, e)'
  BY DEF QueuesStay, InQueue
<1>3. CASE QueuesStay /\ \A q \in ProcessIds, i \in Slots : At(q, i)' \in {At(q, i), None}
  BY <1>1, <1>2, <1>3, EntryParts DEF Present
<1>4. ASSUME NEW p \in ProcessIds, NEW N \in SUBSET ObjectIds, Creates(p, N)
      PROVE  Live(e.object)' \/ Before
  <2>1. QueuesStay
    BY <1>4 DEF Creates
  <2>2. ASSUME NEW q \in ProcessIds, NEW i \in Slots, At(q, i)' = e, At(q, i) # e
        PROVE  Live(e.object)'
    <3>1. PICK id \in N : e.object = RefTo(id)
      BY <1>4, <2>2 DEF Creates
    <3> QED
      BY <1>4, <3>1 DEF Creates, RefTo, Live
  <2> QED
    BY <1>1, <1>2, <2>1, <2>2 DEF Present
<1>5. ASSUME NEW p \in ProcessIds, NEW source \in Slots, NEW s \in Slots, NEW rights,
             Running(p), Duplicates(p, source, rights, s)
      PROVE  Before
  <2>1. QueuesStay
    BY <1>5, AlikeKeeps DEF Duplicates
  <2>2. source \in Nameable(Handles(p))
    BY <1>5 DEF Duplicates
  <2>3. /\ At(p, source) = Handles(p).entry[source] /\ At(p, source) \in Entries
    BY <1>5, <2>2, OccupiedSlot
  <2>4. /\ DerivedEntry(Handles(p), source, rights).object = At(p, source).object
        /\ DerivedEntry(Handles(p), source, rights).kind = At(p, source).kind
    BY <2>3 DEF DerivedEntry
  <2>5. ASSUME NEW q \in ProcessIds, NEW i \in Slots, At(q, i)' = e, At(q, i) # e
        PROVE  Before
    <3>1. e = DerivedEntry(Handles(p), source, rights)
      BY <1>5, <2>5 DEF Duplicates
    <3> QED
      BY <2>3, <2>4, <3>1 DEF Present
  <2> QED
    BY <1>1, <1>2, <2>1, <2>5 DEF Present
<1>6. ASSUME NEW p \in ProcessIds, NEW channel, NEW moved, NEW id \in ObjectIds,
             NEW m \in MessageSlots, Sends(p, channel, moved, id, m)
      PROVE  Before
  <2>1. ASSUME NEW q \in ProcessIds, NEW i \in Slots, At(q, i)' = e
        PROVE  Present(e)
    BY <1>6, <2>1, EntryParts DEF Sends, Present
  <2>2. ASSUME NEW o \in ObjectIds, InQueue(o, e)'
        PROVE  Present(e)
    <3>1. PICK n \in MessageSlots : Queue(o, n)' # None /\ \E k \in DOMAIN Queue(o, n)' : Queue(o, n)'[k] = e
      BY <2>2 DEF InQueue
    <3>2. CASE o = id /\ n = m
      <4>1. Queue(o, n)' = [k \in DOMAIN moved |-> At(p, moved[k])]
        BY <1>6, <3>2 DEF Sends
      <4> QED
        BY <1>6, <3>1, <4>1 DEF Present, Sends
    <3>3. CASE ~(o = id /\ n = m)
      <4>1. Queue(o, n)' = Queue(o, n)
        BY <1>6, <3>3 DEF Sends
      <4> QED
        BY <3>1, <4>1 DEF Present, InQueue
    <3> QED
      BY <3>2, <3>3
  <2> QED
    BY <1>1, <2>1, <2>2 DEF Present
<1>7. ASSUME NEW p \in ProcessIds, NEW channel, NEW id \in ObjectIds,
             NEW m \in MessageSlots, Receives(p, channel, id, m)
      PROVE  Before
  <2>1. ASSUME NEW q \in ProcessIds, NEW i \in Slots, At(q, i)' = e
        PROVE  Present(e)
    <3>1. CASE At(q, i) = e
      BY <3>1 DEF Present
    <3>2. CASE At(q, i) # e
      <4>1. /\ FreeRank(Handles(p), i) \in DOMAIN Queue(id, m)
            /\ e = Queue(id, m)[FreeRank(Handles(p), i)] /\ Queue(id, m) # None
        BY <1>7, <2>1, <3>2 DEF Receives
      <4> QED
        BY <4>1 DEF InQueue, Present
    <3> QED
      BY <3>1, <3>2
  <2>2. ASSUME NEW o \in ObjectIds, InQueue(o, e)'
        PROVE  Present(e)
    <3>1. PICK n \in MessageSlots : Queue(o, n)' # None /\ \E k \in DOMAIN Queue(o, n)' : Queue(o, n)'[k] = e
      BY <2>2 DEF InQueue
    <3>2. Queue(o, n)' = Queue(o, n)
      BY <1>7, <3>1 DEF Receives
    <3> QED
      BY <3>1, <3>2 DEF Present, InQueue
  <2> QED
    BY <1>1, <2>1, <2>2 DEF Present
<1>8. CASE Still
  BY <1>3, <1>8, AlikeKeeps DEF Still, SlotsStay
<1>9. CASE \E id \in ObjectIds : Destroys(id)
  BY <1>3, <1>9 DEF Destroys, SlotsStay
<1>10. CASE \E p \in ProcessIds, S \in SUBSET Slots, ref \in ObjectRefs : Closes(p, S, ref)
  BY <1>3, <1>10, AlikeKeeps DEF Closes
<1> QED
  BY <1>4, <1>5, <1>6, <1>7, <1>8, <1>9, <1>10 DEF StepKinds

(* No call leaves a handle to memory without its object.                   *)
LEMMA StepHolding == HoldingOK /\ [Next]_vars => HoldingOK'
<1> SUFFICES ASSUME HoldingOK, [Next]_vars PROVE HoldingOK'
  OBVIOUS
<1>1. ReachedOK' /\ KernelOK' /\ TablesOK
  BY StepReached DEF HoldingOK, ReachedOK, TablesOK, MemoryOK
<1>2. KernelOK /\ StepKinds /\ MemoryKinds
  BY <1>1, StepKindsOf
<1>3. GenerationsFree
  BY <1>2 DEF MemoryKinds, Idle, MakesMemory, Maps, Unmaps, GoesOn, Drops, Reclaims,
              IsReclaimed, GenerationsFree
<1>4. \A e \in Entries : Present(e)' => Count(e.object)' # 0
  <2>1. KernelOK' => (\A e \in Entries : Present(e) => Count(e.object) # 0)'
    BY PresentCounted, PTL
  <2> QED
    BY <1>1, <2>1
<1>5. ASSUME NEW ref \in ObjectRefs, MemoryNamed(ref)', ~Live(ref)'
      PROVE  FALSE
  <2>1. PICK e \in Entries : Present(e)' /\ e.kind = "MemoryObject" /\ e.object = ref
    BY <1>5 DEF MemoryNamed
  <2>2. MemoryNamed(ref) /\ Live(ref)
    BY <1>2, <1>5, <2>1, PresentAfter DEF MemoryNamed, HoldingOK
  <2>3. IsMemory(ref.id)
    BY <1>1, <2>2, NamedIsMemory
  <2>4. objects'[ref.id] = None
    BY <1>3, <1>5, <2>2 DEF GenerationsFree, Live, ObjectRefs
  <2>5. Count(ref)' = 0
    BY <1>1, <1>2, <2>2, <2>3, <2>4, GoneUnheld
  <2> QED
    BY <1>4, <2>1, <2>5
<1> QED
  BY <1>1, <1>5 DEF HoldingOK

-----------------------------------------------------------------------------
(* MemoryContract.                                                         *)

(* What is held of a memory object, by what its entry shows.               *)
Holding(ref) ==
  IF Valid(ref, "MemoryObject")
  THEN [frames |-> PagesOf(Extent(ref.id)), reachable |-> TRUE]
  ELSE Memory!Nothing

(* What Reachable stands for.                                              *)
LEMMA ReachableIs ==
  ASSUME KernelOK, NEW ref
  PROVE  Reachable(ref) <=> MemoryNamed(ref) \/ Used(ref)
<1> DEFINE Names(e) == e.kind = "MemoryObject" /\ e.object = ref
           InTable == \E l \in TableSlots : Names(EntryAt(l))
           InMessage == \E l \in TransitSlots : Names(InTransit(l))
           InSpace == \E s \in OfKind("AddressSpace") :
             \/ \E i \in Mapped(objects[s].payload) : objects[s].payload.mappings[i].memory = ref
             \/ \E i \in Owed(objects[s].payload) : objects[s].payload.work[i].memory = ref
<1>1. ASSUME NEW l \in TableSlots, Names(EntryAt(l))
      PROVE  MemoryNamed(ref)
  <2>1. /\ l[1] \in ProcessIds /\ l[2] \in Slots /\ EntryAt(l) # None
        /\ EntryAt(l) = At(l[1], l[2])
    BY <1>1 DEF TableSlots, Occupied, EntryAt, At
  <2> QED
    BY <1>1, <2>1, ViewTypes DEF MemoryNamed, Present
<1>2. ASSUME NEW l \in TransitSlots, Names(InTransit(l))
      PROVE  MemoryNamed(ref)
  <2>1. /\ l[1] \in ObjectIds /\ l[2] \in MessageSlots
        /\ Queue(l[1], l[2]) # None
        /\ l[3] \in DOMAIN Queue(l[1], l[2])
        /\ InTransit(l) = Queue(l[1], l[2])[l[3]]
    BY <1>2 DEF TransitSlots, OfKind, LiveIds, Waiting, Queue, IsEndpoint, InTransit
  <2>2. InTransit(l) \in Entries
    BY <2>1, ViewTypes, MessageEntries
  <2>3. InQueue(l[1], InTransit(l))
    BY <2>1 DEF InQueue
  <2> QED
    BY <1>2, <2>1, <2>2, <2>3 DEF MemoryNamed, Present
<1>3. ASSUME NEW e \in Entries, Present(e), Names(e)
      PROVE  InTable \/ InMessage
  <2>1. ASSUME NEW q \in ProcessIds, NEW i \in Slots, At(q, i) = e
        PROVE  InTable
    <3>1. <<q, i>> \in TableSlots /\ EntryAt(<<q, i>>) = e
      BY <2>1, EntryParts DEF TableSlots, Occupied, EntryAt, At
    <3> QED
      BY <1>3, <3>1
  <2>2. ASSUME NEW id \in ObjectIds, InQueue(id, e)
        PROVE  InMessage
    <3>0. PICK m \in MessageSlots :
            Queue(id, m) # None /\ \E k \in DOMAIN Queue(id, m) : Queue(id, m)[k] = e
      BY <2>2 DEF InQueue
    <3>1. PICK k \in DOMAIN Queue(id, m) :
            Queue(id, m) # None /\ k \in DOMAIN Queue(id, m) /\ Queue(id, m)[k] = e
      BY <3>0
    <3>2. Queue(id, m) \in Messages
      BY <3>1, ViewTypes
    <3>3. k \in 1 .. MaxMessageHandles
      BY <3>1, <3>2, MessageEntries, ChannelAssumption
    <3>4. <<id, m, k>> \in TransitSlots /\ InTransit(<<id, m, k>>) = e
      BY <3>1, <3>3 DEF TransitSlots, InTransit, OfKind, LiveIds, Waiting, Queue, IsEndpoint
    <3> QED
      BY <1>3, <3>4
  <2> QED
    BY <1>3, <2>1, <2>2 DEF Present
<1>4. Used(ref) <=> InSpace
  <2>1. Used(ref) <=> MappedAt(ref) # {} \/ AwaitedAt(ref) # {}
    BY UsesOf DEF Used
  <2>2. MappedAt(ref) # {} <=>
          \E s \in OfKind("AddressSpace") : \E i \in Mapped(objects[s].payload) :
            objects[s].payload.mappings[i].memory = ref
    <3>1. ASSUME NEW s \in OfKind("AddressSpace"), NEW i \in Mapped(objects[s].payload),
                 objects[s].payload.mappings[i].memory = ref
          PROVE  <<s, i>> \in MappedAt(ref)
      BY <3>1 DEF MappedAt, OfKind, LiveIds, Mapped
    <3>2. ASSUME NEW l \in MappedAt(ref)
          PROVE  /\ l[1] \in OfKind("AddressSpace") /\ l[2] \in Mapped(objects[l[1]].payload)
                 /\ objects[l[1]].payload.mappings[l[2]].memory = ref
      BY <3>2 DEF MappedAt
    <3> QED
      BY <3>1, <3>2
  <2>3. AwaitedAt(ref) # {} <=>
          \E s \in OfKind("AddressSpace") : \E i \in Owed(objects[s].payload) :
            objects[s].payload.work[i].memory = ref
    <3>1. ASSUME NEW s \in OfKind("AddressSpace"), NEW i \in Owed(objects[s].payload),
                 objects[s].payload.work[i].memory = ref
          PROVE  <<s, i>> \in AwaitedAt(ref)
      BY <3>1 DEF AwaitedAt, OfKind, LiveIds, Owed
    <3>2. ASSUME NEW l \in AwaitedAt(ref)
          PROVE  /\ l[1] \in OfKind("AddressSpace") /\ l[2] \in Owed(objects[l[1]].payload)
                 /\ objects[l[1]].payload.work[l[2]].memory = ref
      BY <3>2 DEF AwaitedAt
    <3> QED
      BY <3>1, <3>2
  <2> QED
    BY <2>1, <2>2, <2>3
<1>5. Reachable(ref) <=> InTable \/ InMessage \/ InSpace
  BY DEF Reachable
<1>6. MemoryNamed(ref) <=> InTable \/ InMessage
  BY <1>1, <1>2, <1>3 DEF MemoryNamed
<1> QED
  BY <1>4, <1>5, <1>6

(* A search of tables, messages, mappings and pending invalidations finds  *)
(* a reference exactly when its object lives.                              *)
LEMMA ReachableLives ==
  ASSUME HoldingOK, NEW ref \in ObjectRefs
  PROVE  Reachable(ref) <=> Valid(ref, "MemoryObject")
<1>1. Reachable(ref) <=> MemoryNamed(ref) \/ Used(ref)
  BY ReachableIs DEF HoldingOK, ReachedOK, TablesOK, MemoryOK
<1>2. MemoryNamed(ref) => Valid(ref, "MemoryObject")
  BY NamedIsMemory DEF HoldingOK, ReachedOK, Valid, IsMemory
<1>3. Used(ref) => Valid(ref, "MemoryObject")
  BY DEF HoldingOK, ReachedOK, TablesOK, MemoryOK, UsesValid
<1>4. ASSUME Valid(ref, "MemoryObject")
      PROVE  MemoryNamed(ref) \/ Used(ref)
  <2>1. PICK id \in ObjectIds : id = ref.id /\ ref = RefTo(id) /\ IsMemory(id)
    BY <1>4 DEF Valid, Live, RefTo, ObjectRefs, IsMemory
  <2>2. objects[id].handleCount > 0 \/ Active(id) > 0
    BY <2>1 DEF HoldingOK, ReachedOK, Reached
  <2>3. CASE objects[id].handleCount > 0
    <3>1. Count(ref) # 0
      BY <2>1, <2>3 DEF HoldingOK, ReachedOK, TablesOK, AccountsOK, CountsRight, IsMemory
    <3>2. PICK e \in Entries : Present(e) /\ e.object = ref
      BY <3>1, CountedPresent DEF HoldingOK, ReachedOK, TablesOK, MemoryOK
    <3>3. e.kind = "MemoryObject"
      BY <1>4, <2>1, <3>2, KindOfPresent DEF IsMemory, Valid, HoldingOK, ReachedOK
    <3> QED
      BY <3>2, <3>3 DEF MemoryNamed
  <2>4. CASE Active(id) > 0
    <3>1. UseCount(ref) # 0
      BY <2>1, <2>4 DEF HoldingOK, ReachedOK, TablesOK, MemoryOK, UsesCounted
    <3> QED
      BY <3>1, FS_EmptySet DEF UseCount, Used
  <2> QED
    BY <2>2, <2>3, <2>4
<1> QED
  BY <1>1, <1>2, <1>3, <1>4

(* Holdings, entry by entry.                                               *)
LEMMA HoldingsAre == HoldingOK => Holdings = [ref \in ObjectRefs |-> Holding(ref)]
<1> SUFFICES ASSUME HoldingOK, NEW ref \in ObjectRefs
             PROVE  [ frames    |-> {p \in Pages \ Free(frames) : frames[p].owner = ref},
                      reachable |-> Reachable(ref) ] = Holding(ref)
  BY DEF Holdings
<1> DEFINE owned == {p \in Pages \ Free(frames) : frames[p].owner = ref}
<1>1. MemoryOK
  BY DEF HoldingOK, ReachedOK, TablesOK
<1>2. ref # None /\ ref.id \in ObjectIds
  BY NoneIsNoRef DEF ObjectRefs
<1>3. Reachable(ref) \in BOOLEAN
  BY DEF Reachable
<1>4. CASE Valid(ref, "MemoryObject")
  <2>1. ref = RefTo(ref.id) /\ IsMemory(ref.id)
    BY <1>2, <1>4 DEF Valid, Live, RefTo, ObjectRefs, IsMemory
  <2>2. ASSUME NEW p \in PagesOf(Extent(ref.id))
        PROVE  p \in owned
    <3>1. OwnsRange(frames, Extent(ref.id), ref)
      BY <1>1, <1>2, <2>1 DEF MemoryOK, FramesBacked
    <3>2. p \in Pages /\ frames[p].owner = ref
      BY <3>1 DEF OwnsRange
    <3> QED
      BY <1>2, <3>2 DEF Free
  <2>3. ASSUME NEW p \in owned
        PROVE  p \in PagesOf(Extent(ref.id))
    <3>1. PICK id \in ObjectIds :
            IsMemory(id) /\ frames[p].owner = RefTo(id) /\ p \in PagesOf(Extent(id))
      BY <1>1, <1>2 DEF MemoryOK, FramesBacked
    <3> QED
      BY <2>1, <3>1 DEF RefTo
  <2>4. owned = PagesOf(Extent(ref.id))
    BY <2>2, <2>3
  <2>5. Reachable(ref) = TRUE
    BY <1>3, <1>4, ReachableLives
  <2> QED
    BY <1>4, <2>4, <2>5 DEF Holding
<1>5. CASE ~Valid(ref, "MemoryObject")
  <2>1. owned = {}
    <3> SUFFICES ASSUME NEW p \in owned PROVE FALSE
      OBVIOUS
    <3>1. PICK id \in ObjectIds : IsMemory(id) /\ frames[p].owner = RefTo(id)
      BY <1>1, <1>2 DEF MemoryOK, FramesBacked
    <3> QED
      BY <1>5, <3>1 DEF RefTo, Valid, Live, IsMemory
  <2>2. Reachable(ref) = FALSE
    BY <1>3, <1>5, ReachableLives
  <2> QED
    BY <1>5, <2>1, <2>2 DEF Holding, Memory!Nothing
<1> QED
  BY <1>4, <1>5

(* What is held of other objects stays.                                    *)
LEMMA HoldingStays ==
  ASSUME NEW ref \in ObjectRefs, GenerationsFree,
         MemoryStays(ref.id) \/ (IsMemory(ref.id) /\ IsMemory(ref.id)' /\ Extent(ref.id)' = Extent(ref.id))
  PROVE  Holding(ref)' = Holding(ref)
<1> DEFINE id == ref.id
<1>1. /\ IsMemory(id)' <=> IsMemory(id)
      /\ IsMemory(id) => Extent(id)' = Extent(id)
  BY DEF MemoryStays, Extent
<1>2. id \in ObjectIds
  BY DEF ObjectRefs
<1>3. IsMemory(id) => generations'[id] = generations[id]
  BY <1>1, <1>2 DEF GenerationsFree, IsMemory
<1>4. Valid(ref, "MemoryObject") <=> IsMemory(id) /\ generations[id] = ref.generation
  BY DEF Valid, Live, IsMemory
<1>5. Valid(ref, "MemoryObject")' <=> IsMemory(id)' /\ generations'[id] = ref.generation
  BY DEF Valid, Live, IsMemory
<1>6. Valid(ref, "MemoryObject")' <=> Valid(ref, "MemoryObject")
  BY <1>1, <1>3, <1>4, <1>5
<1>7. Valid(ref, "MemoryObject") => Extent(ref.id)' = Extent(ref.id)
  BY <1>1, <1>4
<1> QED
  BY <1>6, <1>7 DEF Holding, Memory!Nothing

(* Every call is a step of the contract.                                   *)
LEMMA StepContract ==
  ASSUME HoldingOK, HoldingOK', MemoryKinds
  PROVE  [Memory!Next]_Holdings
<1>1. /\ Holdings = [ref \in ObjectRefs |-> Holding(ref)]
      /\ Holdings' = [ref \in ObjectRefs |-> Holding(ref)']
  <2>1. (HoldingOK => Holdings = [ref \in ObjectRefs |-> Holding(ref)])'
    BY HoldingsAre, PTL
  <2> QED
    BY <2>1, HoldingsAre
<1>2. ASSUME \A ref \in ObjectRefs : Holding(ref)' = Holding(ref)
      PROVE  Holdings' = Holdings
  BY <1>1, <1>2
<1>3. ASSUME NEW id \in ObjectIds, NEW n, GoesOn(id, n)
      PROVE  Holdings' = Holdings
  <2>1. ASSUME NEW ref \in ObjectRefs
        PROVE  Holding(ref)' = Holding(ref)
    <3>1. ref.id \in ObjectIds
      BY DEF ObjectRefs
    <3> QED
      BY <1>3, <3>1, HoldingStays DEF GoesOn
  <2> QED
    BY <1>2, <2>1
<1>4. ASSUME MemoriesStay, GenerationsFree
      PROVE  Holdings' = Holdings
  <2>1. ASSUME NEW ref \in ObjectRefs
        PROVE  Holding(ref)' = Holding(ref)
    BY <1>4, HoldingStays DEF MemoriesStay, ObjectRefs
  <2> QED
    BY <1>2, <2>1
<1>5. ASSUME NEW id \in ObjectIds, NEW range \in FrameRanges, MakesMemory(id, range)
      PROVE  Memory!Next
  <2>1. PICK o \in ObjectRefs : o = RefTo(id)
    BY RefType DEF HoldingOK, ReachedOK, TablesOK, MemoryOK
  <2>2. /\ objects[id] = None /\ IsMemory(id)' /\ objects'[id].payload = NewMemoryObject(range)
        /\ PagesOf(range) \subseteq Free(frames) /\ UNCHANGED generations
    BY <1>5 DEF MakesMemory
  <2>3. o.id = id /\ o.generation = generations[id]
    BY <2>1 DEF RefTo
  <2>4. Holding(o) = Memory!Nothing
    BY <2>2, <2>3 DEF Holding, Valid, Live
  <2>5. Holding(o)' = [frames |-> PagesOf(range), reachable |-> TRUE]
    <3>1. Valid(o, "MemoryObject")'
      BY <2>2, <2>3 DEF Valid, Live, IsMemory
    <3>2. Extent(o.id)' = range
      BY <2>2, <2>3 DEF Extent, NewMemoryObject
    <3> QED
      BY <3>1, <3>2 DEF Holding
  <2>6. ASSUME NEW q \in ObjectRefs \ {o}
        PROVE  Holding(q)' = Holding(q)
    <3>1. q.id \in ObjectIds
      BY DEF ObjectRefs
    <3>2. CASE q.id = id
      <4>1. generations[id] # q.generation
        BY <2>1, <2>6, <3>2 DEF RefTo, ObjectRefs
      <4>2. ~Valid(q, "MemoryObject") /\ ~Valid(q, "MemoryObject")'
        BY <2>2, <3>2, <4>1 DEF Valid, Live
      <4> QED
        BY <4>2 DEF Holding, Memory!Nothing
    <3>3. CASE q.id # id
      BY <1>5, <3>1, <3>3, HoldingStays DEF MakesMemory, GenerationsFree
    <3> QED
      BY <3>2, <3>3
  <2>7. PagesOf(range) \subseteq Pages \ UNION {Holdings[q].frames : q \in ObjectRefs}
    <3>1. ASSUME NEW q \in ObjectRefs
          PROVE  Holdings[q].frames \subseteq Pages \ Free(frames)
      BY DEF Holdings
    <3> QED
      BY <2>2, <3>1 DEF Free
  <2>8. PagesOf(range) # {}
    BY DEF FrameRanges, PagesOf
  <2>9. Memory!Create(Holdings[o], Holdings'[o],
                      Pages \ UNION {Holdings[q].frames : q \in ObjectRefs})
    BY <1>1, <2>4, <2>5, <2>7, <2>8 DEF Memory!Create
  <2>10. \A q \in ObjectRefs \ {o} : Holdings'[q] = Holdings[q]
    BY <1>1, <2>6
  <2> QED
    BY <2>9, <2>10 DEF Memory!Next
<1>6. ASSUME NEW id \in ObjectIds, IsReclaimed(id)
      PROVE  Memory!Next
  <2>1. PICK o \in ObjectRefs : o = RefTo(id)
    BY RefType DEF HoldingOK, ReachedOK, TablesOK, MemoryOK
  <2>2. IsMemory(id) /\ objects'[id] = None /\ GenerationsFree
    BY <1>6 DEF IsReclaimed
  <2>3. o.id = id /\ o.generation = generations[id]
    BY <2>1 DEF RefTo
  <2>4. Holding(o) = [frames |-> PagesOf(Extent(id)), reachable |-> TRUE]
    BY <2>2, <2>3 DEF Holding, Valid, Live, IsMemory
  <2>5. Holding(o)' = Memory!Nothing
    <3>1. ~Valid(o, "MemoryObject")'
      BY <2>2, <2>3 DEF Valid, Live
    <3> QED
      BY <3>1 DEF Holding, Memory!Nothing
  <2>6. ASSUME NEW q \in ObjectRefs \ {o}
        PROVE  Holding(q)' = Holding(q)
    <3>1. q.id \in ObjectIds
      BY DEF ObjectRefs
    <3>2. CASE q.id = id
      <4>1. generations[id] # q.generation
        BY <2>1, <2>6, <3>2 DEF RefTo, ObjectRefs
      <4>2. ~Valid(q, "MemoryObject") /\ ~Valid(q, "MemoryObject")'
        BY <2>2, <3>2, <4>1 DEF Valid, Live
      <4> QED
        BY <4>2 DEF Holding, Memory!Nothing
    <3>3. CASE q.id # id
      BY <1>6, <2>2, <3>1, <3>3, HoldingStays DEF IsReclaimed
    <3> QED
      BY <3>2, <3>3
  <2>7. Memory!LoseLastWay(Holdings[o], Holdings'[o])
    BY <1>1, <2>4, <2>5 DEF Memory!LoseLastWay
  <2>8. \A q \in ObjectRefs \ {o} : Holdings'[q] = Holdings[q]
    BY <1>1, <2>6
  <2> QED
    BY <2>7, <2>8 DEF Memory!Next
<1> QED
  BY <1>3, <1>4, <1>5, <1>6 DEF MemoryKinds, Idle, Maps, Unmaps, Drops, Reclaims

(* The counters do what a search would: a memory object has its frames     *)
(* from its creation to the step in which the last handle, mapping or      *)
(* pending invalidation goes, and loses all of them in that step.          *)
THEOREM MemoryIsKept == Spec => ImplementsMemory
<1>1. Init => HoldingOK /\ Memory!Init
  <2> SUFFICES ASSUME Init PROVE HoldingOK /\ Memory!Init
    OBVIOUS
  <2>1. \A id \in ObjectIds : objects[id] = None
    BY DEF Init
  <2>2. \A e \in Entries : ~Present(e)
    BY EntryParts DEF Init, Present, At, Running, InQueue, Queue, IsEndpoint
  <2>3. HoldingOK
    BY <2>2, InitReached DEF HoldingOK, MemoryNamed
  <2>4. \A ref \in ObjectRefs : Holding(ref) = Memory!Nothing
    BY <2>1 DEF Holding, Valid, Live, ObjectRefs
  <2> QED
    BY <2>3, <2>4, HoldingsAre DEF Memory!Init
<1>2. HoldingOK /\ [Next]_vars => HoldingOK'
  BY StepHolding
<1>3. HoldingOK /\ HoldingOK' /\ [Next]_vars => [Memory!Next]_Holdings
  BY StepKindsOf, StepContract DEF HoldingOK, ReachedOK
<1> QED
  BY <1>1, <1>2, <1>3, PTL DEF Spec, ImplementsMemory, Memory!Spec

-----------------------------------------------------------------------------
(* MappingContract.                                                        *)

(* Pending invalidations, no two of which share a sequence number.         *)
Numbered(W) ==
  /\ IsFiniteSet(W)
  /\ \A w \in W : w.sequence \in Nat
  /\ \A v, w \in W : v.sequence = w.sequence => v = w

Rank(W, w) == Cardinality({v \in W : v.sequence < w.sequence})

InOrder(W) == [n \in 1 .. Cardinality(W) |-> RangeOf(CHOOSE w \in W : Rank(W, w) = n - 1)]

(* Their numbers put them at the places from the first to the last.        *)
LEMMA RanksFill ==
  ASSUME NEW W, Numbered(W)
  PROVE  /\ Cardinality(W) \in Nat
         /\ \A w \in W : Rank(W, w) \in 0 .. Cardinality(W) - 1
         /\ \A v, w \in W : Rank(W, v) = Rank(W, w) => v = w
         /\ \A n \in 1 .. Cardinality(W) : \E w \in W : Rank(W, w) = n - 1
<1> DEFINE Under(w) == {v \in W : v.sequence < w.sequence}
<1>1. IsFiniteSet(W) /\ Cardinality(W) \in Nat
  BY FS_CardinalityType DEF Numbered
<1>2. ASSUME NEW w \in W
      PROVE  /\ IsFiniteSet(Under(w)) /\ Rank(W, w) = Cardinality(Under(w))
             /\ Rank(W, w) \in 0 .. Cardinality(W) - 1
  <2>1. Under(w) \in SUBSET (W \ {w})
    BY DEF Numbered
  <2>2. IsFiniteSet(W \ {w}) /\ Cardinality(W \ {w}) = Cardinality(W) - 1
    BY <1>1, FS_RemoveElement
  <2>3. IsFiniteSet(Under(w)) /\ Cardinality(Under(w)) <= Cardinality(W \ {w})
    BY <2>1, <2>2, FS_Subset
  <2>4. Cardinality(Under(w)) \in Nat
    BY <2>3, FS_CardinalityType
  <2>5. Rank(W, w) = Cardinality(Under(w))
    BY DEF Rank
  <2> QED
    BY <1>1, <2>2, <2>3, <2>4, <2>5
<1> HIDE DEF Under
<1>3. \A w \in W : Rank(W, w) \in 0 .. Cardinality(W) - 1
  BY <1>2
<1>4. \A w \in W : Rank(W, w) \in Int
  BY <1>1, <1>3
<1>5. ASSUME NEW v \in W, NEW w \in W, v.sequence < w.sequence
      PROVE  Rank(W, v) < Rank(W, w)
  <2>1. Under(v) \cup {v} \in SUBSET Under(w) /\ v \notin Under(v)
    BY <1>5 DEF Numbered, Under
  <2>2. Cardinality(Under(v) \cup {v}) = Cardinality(Under(v)) + 1
    BY <1>2, <2>1, FS_AddElement
  <2>3. Cardinality(Under(v) \cup {v}) <= Cardinality(Under(w))
    BY <1>2, <2>1, FS_Subset
  <2> QED
    <3>1. /\ Rank(W, v) = Cardinality(Under(v)) /\ Rank(W, v) \in Int
          /\ Rank(W, w) = Cardinality(Under(w)) /\ Rank(W, w) \in Int
      BY <1>2, <1>4
    <3> QED
      BY <2>2, <2>3, <3>1
<1>6. ASSUME NEW v \in W, NEW w \in W, Rank(W, v) = Rank(W, w)
      PROVE  v = w
  <2>1. ~(v.sequence < w.sequence) /\ ~(w.sequence < v.sequence)
    BY <1>5, <1>6, <1>4
  <2> QED
    BY <2>1 DEF Numbered
<1>7. ASSUME NEW n \in 1 .. Cardinality(W)
      PROVE  \E w \in W : Rank(W, w) = n - 1
  <2> DEFINE f == [w \in W |-> Rank(W, w)]
             N == 0 .. Cardinality(W) - 1
  <2>1. f \in Injection(W, N)
    BY <1>2, <1>6 DEF Injection, IsInjective
  <2>2. IsFiniteSet(N) /\ Cardinality(N) = Cardinality(W)
    <3>1. 0 \in Int /\ Cardinality(W) - 1 \in Int
      BY <1>1
    <3>2. /\ IsFiniteSet(N)
          /\ Cardinality(N) = IF 0 > Cardinality(W) - 1 THEN 0 ELSE Cardinality(W) - 1 - 0 + 1
      BY <3>1, FS_Interval
    <3> QED
      BY <1>1, <3>2
  <2>3. f \in Surjection(W, N)
    BY <2>1, <2>2, FS_Injection
  <2>4. n - 1 \in N
    BY <1>1
  <2> QED
    BY <2>3, <2>4 DEF Surjection
<1> QED
  BY <1>1, <1>2, <1>6, <1>7

(* What is in a place is what has that many before it.                     *)
LEMMA PlaceOf ==
  ASSUME NEW W, Numbered(W), NEW w \in W, NEW n \in 1 .. Cardinality(W), Rank(W, w) = n - 1
  PROVE  InOrder(W)[n] = RangeOf(w)
<1>1. (CHOOSE u \in W : Rank(W, u) = n - 1) = w
  BY RanksFill
<1> QED
  BY <1>1 DEF InOrder

Ranges == [memory : ObjectRefs, base : Nat, size : Nat \ {0}]

(* The backlog is a sequence of ranges.                                    *)
LEMMA InOrderType ==
  ASSUME NEW W, Numbered(W), W \subseteq Invalidations
  PROVE  /\ InOrder(W) \in Seq(Ranges) /\ Len(InOrder(W)) = Cardinality(W)
         /\ DOMAIN InOrder(W) = 1 .. Cardinality(W)
<1>1. Cardinality(W) \in Nat
  BY RanksFill
<1>2. ASSUME NEW n \in 1 .. Cardinality(W)
      PROVE  InOrder(W)[n] \in Ranges
  <2>1. PICK w \in W : Rank(W, w) = n - 1
    BY RanksFill
  <2>2. InOrder(W)[n] = RangeOf(w)
    BY <2>1, PlaceOf
  <2> QED
    BY <2>2 DEF RangeOf, Ranges, Invalidations
<1>3. InOrder(W) \in [1 .. Cardinality(W) -> Ranges]
  BY <1>2 DEF InOrder
<1> QED
  BY <1>1, <1>3

(* Nothing owed, nothing in the backlog.                                   *)
LEMMA NoneInOrder == InOrder({}) = <<>>
<1>1. Cardinality({}) = 0
  BY FS_EmptySet
<1> QED
  BY <1>1 DEF InOrder

(* The latest invalidation goes last.                                      *)
LEMMA LatestLast ==
  ASSUME NEW W, Numbered(W), W \subseteq Invalidations, NEW x \in Invalidations, Numbered(W \cup {x}),
         \A w \in W : w.sequence < x.sequence
  PROVE  InOrder(W \cup {x}) = Append(InOrder(W), RangeOf(x))
<1> DEFINE V == W \cup {x}
           N == Cardinality(W)
<1>1. x.sequence \in Nat /\ x \notin W
  BY DEF Numbered
<1>2. N \in Nat /\ Cardinality(V) = N + 1
  BY <1>1, RanksFill, FS_AddElement DEF Numbered
<1>3. ASSUME NEW w \in W
      PROVE  Rank(V, w) = Rank(W, w)
  <2>1. {v \in V : v.sequence < w.sequence} = {v \in W : v.sequence < w.sequence}
    BY <1>1 DEF Numbered
  <2> QED
    BY <2>1 DEF Rank
<1>4. Rank(V, x) = N
  <2>1. {v \in V : v.sequence < x.sequence} = W
    BY <1>1
  <2> QED
    BY <2>1 DEF Rank
<1>5. /\ InOrder(V) \in Seq(Ranges) /\ Len(InOrder(V)) = N + 1
      /\ InOrder(W) \in Seq(Ranges) /\ Len(InOrder(W)) = N
  <2>1. V \subseteq Invalidations
    OBVIOUS
  <2> QED
    BY <1>2, <2>1, InOrderType
<1>6. ASSUME NEW n \in 1 .. N
      PROVE  InOrder(V)[n] = InOrder(W)[n]
  <2>1. PICK w \in W : Rank(W, w) = n - 1
    BY RanksFill
  <2>2. InOrder(W)[n] = RangeOf(w)
    BY <2>1, PlaceOf
  <2>3. InOrder(V)[n] = RangeOf(w)
    <3>1. w \in V /\ Rank(V, w) = n - 1 /\ n \in 1 .. Cardinality(V)
      BY <1>2, <1>3, <2>1
    <3> QED
      BY <3>1, PlaceOf
  <2> QED
    BY <2>2, <2>3
<1>7. InOrder(V)[N + 1] = RangeOf(x)
  <2>1. x \in V /\ Rank(V, x) = (N + 1) - 1 /\ N + 1 \in 1 .. Cardinality(V)
    BY <1>2, <1>4
  <2> QED
    BY <2>1, PlaceOf
<1>8. RangeOf(x) \in Ranges
  BY DEF RangeOf, Ranges, Invalidations
<1> HIDE DEF V, N
<1>9. /\ Append(InOrder(W), RangeOf(x)) \in Seq(Ranges)
      /\ Len(Append(InOrder(W), RangeOf(x))) = N + 1
      /\ \A n \in 1 .. N : Append(InOrder(W), RangeOf(x))[n] = InOrder(W)[n]
      /\ Append(InOrder(W), RangeOf(x))[N + 1] = RangeOf(x)
  BY <1>2, <1>5, <1>8
<1>10. \A n \in 1 .. N + 1 : InOrder(V)[n] = Append(InOrder(W), RangeOf(x))[n]
  BY <1>2, <1>6, <1>7, <1>9
<1>11. InOrder(V) = Append(InOrder(W), RangeOf(x))
  BY <1>5, <1>9, <1>10
<1> QED
  BY <1>11 DEF V

(* The earliest one is first, and the others move up when it goes.         *)
LEMMA EarliestFirst ==
  ASSUME NEW W, Numbered(W), W \subseteq Invalidations, NEW x \in W,
         \A w \in W : x.sequence <= w.sequence
  PROVE  InOrder(W) # <<>> /\ InOrder(W \ {x}) = Tail(InOrder(W))
<1> DEFINE V == W \ {x}
           N == Cardinality(V)
<1>1. /\ Numbered(V) /\ V \subseteq Invalidations
      /\ Cardinality(W) = N + 1
  <2>1. IsFiniteSet(V) /\ N = Cardinality(W) - 1
    BY FS_RemoveElement DEF Numbered
  <2>2. Cardinality(W) \in Nat
    BY RanksFill
  <2> QED
    BY <2>1, <2>2 DEF Numbered
<1>2. N \in Nat
  BY <1>1, RanksFill
<1>3. ASSUME NEW w \in V
      PROVE  Rank(W, w) = Rank(V, w) + 1
  <2> DEFINE A == {v \in V : v.sequence < w.sequence}
             B == {v \in W : v.sequence < w.sequence}
  <2>1. x.sequence < w.sequence
    BY DEF Numbered
  <2>2. B = A \cup {x} /\ x \notin A
    BY <2>1
  <2>3. IsFiniteSet(A)
    BY <1>1, FS_Subset DEF Numbered
  <2>4. Cardinality(B) = Cardinality(A) + 1
    BY <2>2, <2>3, FS_AddElement
  <2> QED
    BY <2>4 DEF Rank
<1>4. /\ InOrder(V) \in Seq(Ranges) /\ Len(InOrder(V)) = N
      /\ InOrder(W) \in Seq(Ranges) /\ Len(InOrder(W)) = N + 1
  BY <1>1, InOrderType
<1>5. ASSUME NEW n \in 1 .. N
      PROVE  InOrder(V)[n] = InOrder(W)[n + 1]
  <2>1. PICK w \in V : Rank(V, w) = n - 1
    BY <1>1, RanksFill
  <2>2. InOrder(V)[n] = RangeOf(w)
    BY <1>1, <2>1, PlaceOf
  <2>3. InOrder(W)[n + 1] = RangeOf(w)
    <3>1. w \in W /\ Rank(W, w) = (n + 1) - 1 /\ n + 1 \in 1 .. Cardinality(W)
      BY <1>1, <1>2, <1>3, <2>1
    <3> QED
      BY <3>1, PlaceOf
  <2> QED
    BY <2>2, <2>3
<1> HIDE DEF V, N
<1>6. InOrder(W) # <<>>
  BY <1>2, <1>4
<1>7. /\ Tail(InOrder(W)) \in Seq(Ranges) /\ Len(Tail(InOrder(W))) = N
      /\ \A n \in 1 .. N : Tail(InOrder(W))[n] = InOrder(W)[n + 1]
  BY <1>2, <1>4, <1>6
<1>8. InOrder(V) = Tail(InOrder(W))
  BY <1>4, <1>5, <1>7
<1> QED
  BY <1>6, <1>8 DEF V

RangesAt(s) == {RangeOf(MappingAt(s, i)) : i \in {k \in RangeSlots : MappingAt(s, k) # None}}

WorksAt(s) == {WorkAt(s, j) : j \in {k \in WorkSlots : WorkAt(s, k) # None}}

(* An address space by what its slots show.                                *)
Ledger(s) == [ranges |-> RangesAt(s), backlog |-> InOrder(WorksAt(s))]

(* AllMappings, entry by entry.                                            *)
LEMMA LedgersAre == AllMappings = [s \in ObjectIds |-> Ledger(s)]
<1> SUFFICES ASSUME NEW s \in ObjectIds
             PROVE  (IF s \in OfKind("AddressSpace")
                     THEN MappingsOf(objects[s].payload)
                     ELSE [ranges |-> {}, backlog |-> <<>>]) = Ledger(s)
  BY DEF AllMappings
<1>1. CASE IsSpace(s)
  <2> DEFINE a == objects[s].payload
  <2>1. s \in OfKind("AddressSpace")
    BY <1>1 DEF OfKind, LiveIds, IsSpace
  <2>2. RangesAt(s) = {RangeOf(a.mappings[i]) : i \in Mapped(a)}
    BY <1>1 DEF RangesAt, MappingAt, Mapped
  <2>3. WorksAt(s) = {a.work[j] : j \in Owed(a)}
    BY <1>1 DEF WorksAt, WorkAt, Owed
  <2>4. Backlog(a) = InOrder(WorksAt(s))
    BY <2>3 DEF Backlog, InOrder, Rank
  <2> QED
    BY <2>1, <2>2, <2>4 DEF MappingsOf, Ledger
<1>2. CASE ~IsSpace(s)
  <2>1. s \notin OfKind("AddressSpace")
    BY <1>2 DEF OfKind, LiveIds, IsSpace
  <2>2. RangesAt(s) = {} /\ WorksAt(s) = {}
    BY <1>2 DEF RangesAt, MappingAt, WorksAt, WorkAt
  <2> QED
    BY <2>1, <2>2, NoneInOrder DEF Ledger
<1> QED
  BY <1>1, <1>2

(* What is mapped does not overlap, what is owed is numbered and has a     *)
(* slot each.                                                              *)
LedgerOK(s) ==
  /\ \A i, k \in RangeSlots :
       i # k /\ MappingAt(s, i) # None /\ MappingAt(s, k) # None =>
         ~Overlaps(MappingAt(s, i), MappingAt(s, k))
  /\ Numbered(WorksAt(s)) /\ WorksAt(s) \subseteq Invalidations
  /\ \A j \in WorkSlots :
       WorkAt(s, j) = None => Cardinality(WorksAt(s)) < MaxPendingTlbInvalidations

LedgersOK == \A s \in ObjectIds : LedgerOK(s)

(* The counters and numbers of well-formed address spaces see to that.     *)
LEMMA LedgerParts == KernelOK => LedgersOK
<1> SUFFICES ASSUME KernelOK, NEW s \in ObjectIds PROVE LedgerOK(s)
  BY DEF LedgersOK
<1> DEFINE D == {k \in WorkSlots : WorkAt(s, k) # None}
<1>1. WorksAt(s) = {WorkAt(s, j) : j \in D}
  BY DEF WorksAt
<1>2. ASSUME IsSpace(s)
      PROVE  /\ ConsistentSpace(objects[s].payload)
             /\ \A j \in D : j \in Owed(objects[s].payload)
  BY <1>2, LiveObject, PayloadOf DEF IsSpace, WellFormedSpace, Owed, WorkAt
<1>3. ASSUME NEW i \in RangeSlots, NEW k \in RangeSlots, i # k,
             MappingAt(s, i) # None, MappingAt(s, k) # None
      PROVE  ~Overlaps(MappingAt(s, i), MappingAt(s, k))
  <2>1. IsSpace(s)
    BY <1>3 DEF MappingAt
  <2>2. i \in Mapped(objects[s].payload) /\ k \in Mapped(objects[s].payload)
    BY <1>3, <2>1 DEF MappingAt, Mapped
  <2> QED
    BY <1>2, <1>3, <2>1, <2>2 DEF ConsistentSpace, MappingAt
<1>4. \A j \in D : WorkAt(s, j) \in Invalidations /\ WorkAt(s, j).sequence \in Nat
  BY UseTypes, AddressSpaceAssumption DEF Invalidations
<1>5. ASSUME NEW j \in D, NEW k \in D, WorkAt(s, j).sequence = WorkAt(s, k).sequence
      PROVE  j = k
  <2>1. IsSpace(s)
    BY DEF WorkAt
  <2> QED
    BY <1>2, <1>5, <2>1 DEF ConsistentSpace, WorkAt
<1>6. IsFiniteSet(D) /\ Cardinality(D) \in Nat
  BY SlotsCount, AddressSpaceAssumption DEF WorkSlots
<1>7. IsFiniteSet(WorksAt(s)) /\ Cardinality(WorksAt(s)) <= Cardinality(D)
  <2> DEFINE f == [j \in D |-> WorkAt(s, j)]
  <2>1. f \in Surjection(D, WorksAt(s))
    BY <1>1 DEF Surjection
  <2> QED
    BY <1>6, <2>1, FS_Surjection
<1>8. Cardinality(WorksAt(s)) \in Nat
  BY <1>7, FS_CardinalityType
<1>9. Numbered(WorksAt(s)) /\ WorksAt(s) \subseteq Invalidations
  BY <1>1, <1>4, <1>5, <1>7 DEF Numbered
<1>10. ASSUME NEW j \in WorkSlots, WorkAt(s, j) = None
       PROVE  Cardinality(WorksAt(s)) < MaxPendingTlbInvalidations
  <2>1. D \in SUBSET (WorkSlots \ {j})
    BY <1>10
  <2>2. IsFiniteSet(WorkSlots) /\ Cardinality(WorkSlots) = MaxPendingTlbInvalidations
    <3>1. 1 \in Int /\ MaxPendingTlbInvalidations \in Int /\ MaxPendingTlbInvalidations >= 1
      BY AddressSpaceAssumption DEF WorkSlots
    <3> QED
      BY <3>1, FS_Interval DEF WorkSlots
  <2>3. /\ IsFiniteSet(WorkSlots \ {j})
        /\ Cardinality(WorkSlots \ {j}) = MaxPendingTlbInvalidations - 1
    BY <2>2, FS_RemoveElement
  <2>4. Cardinality(D) <= MaxPendingTlbInvalidations - 1
    BY <2>1, <2>3, FS_Subset
  <2> QED
    BY <1>6, <1>7, <1>8, <2>4, AddressSpaceAssumption
<1> QED
  BY <1>3, <1>9, <1>10 DEF LedgerOK

(* Every call is a step of the contract.                                   *)
LEMMA StepLedger ==
  ASSUME KernelOK, KernelOK', MemoryKinds
  PROVE  [AddressSpacesHere!Next]_AllMappings
<1>1. /\ AllMappings = [s \in ObjectIds |-> Ledger(s)]
      /\ AllMappings' = [s \in ObjectIds |-> Ledger(s)']
  <2>1. (AllMappings = [s \in ObjectIds |-> Ledger(s)])'
    BY LedgersAre, PTL
  <2> QED
    BY <2>1, LedgersAre
<1>2. \A s \in ObjectIds : LedgerOK(s) /\ LedgerOK(s)'
  <2>1. (KernelOK => LedgersOK)'
    BY LedgerParts, PTL
  <2> QED
    BY <2>1, LedgerParts DEF LedgersOK
<1>3. ASSUME NEW s \in ObjectIds, \A i \in RangeSlots : MappingAt(s, i)' = MappingAt(s, i)
      PROVE  RangesAt(s)' = RangesAt(s)
  BY <1>3 DEF RangesAt
<1>4. ASSUME NEW s \in ObjectIds, \A j \in WorkSlots : WorkAt(s, j)' = WorkAt(s, j)
      PROVE  WorksAt(s)' = WorksAt(s)
  BY <1>4 DEF WorksAt
<1>5. ASSUME NEW s \in ObjectIds,
             \A i \in RangeSlots : MappingAt(s, i)' = MappingAt(s, i),
             \A j \in WorkSlots : WorkAt(s, j)' = WorkAt(s, j)
      PROVE  Ledger(s)' = Ledger(s)
  BY <1>3, <1>4, <1>5 DEF Ledger
<1>6. ASSUME MappingsStay, WorkStays
      PROVE  AllMappings' = AllMappings
  BY <1>1, <1>5, <1>6 DEF MappingsStay, WorkStays
<1>7. ASSUME NEW s \in ObjectIds, NEW id \in ObjectIds, NEW i \in RangeSlots,
             NEW mapping \in Mappings, Maps(s, i, id, mapping)
      PROVE  AddressSpacesHere!Next
  <2>1. /\ MappingAt(s, i) = None /\ mapping # None /\ WorkStays
        /\ \A t \in ObjectIds, k \in RangeSlots :
             MappingAt(t, k)' = IF t = s /\ k = i THEN mapping ELSE MappingAt(t, k)
    BY <1>7 DEF Maps
  <2>2. RangesAt(s)' = RangesAt(s) \cup {RangeOf(mapping)}
    BY <2>1 DEF RangesAt
  <2>3. ASSUME NEW r \in RangesAt(s)
        PROVE  AddressSpacesHere!Disjoint(RangeOf(mapping), r)
    <3>1. PICK k \in RangeSlots : MappingAt(s, k) # None /\ r = RangeOf(MappingAt(s, k))
      BY DEF RangesAt
    <3>2. k # i /\ MappingAt(s, k)' = MappingAt(s, k) /\ MappingAt(s, i)' = mapping
      BY <2>1, <3>1
    <3>3. ~Overlaps(mapping, MappingAt(s, k))
      BY <1>2, <2>1, <3>1, <3>2 DEF LedgerOK
    <3>4. MappingAt(s, k) \in Mappings
      BY <3>1, UseTypes
    <3> QED
      BY <3>1, <3>3, <3>4 DEF Overlaps, EndOf, RangeOf, Mappings, AddressSpacesHere!Disjoint
  <2>4. ~AddressSpacesHere!Disjoint(RangeOf(mapping), RangeOf(mapping))
    BY DEF RangeOf, Mappings, AddressSpacesHere!Disjoint
  <2>5. RangeOf(mapping) \in RangesAt(s)' \ RangesAt(s)
    BY <2>2, <2>3, <2>4
  <2>6. Ledger(s)' = [Ledger(s) EXCEPT !.ranges = RangesAt(s) \cup {RangeOf(mapping)}]
    BY <1>4, <2>1, <2>2 DEF Ledger, WorkStays
  <2>7. AddressSpacesHere!Map(Ledger(s), Ledger(s)')
    BY <2>3, <2>5, <2>6 DEF Ledger, AddressSpacesHere!Map
  <2>8. \A t \in ObjectIds \ {s} : Ledger(t)' = Ledger(t)
    BY <1>5, <2>1 DEF WorkStays
  <2> QED
    BY <1>1, <2>7, <2>8 DEF AddressSpacesHere!Next
<1>8. ASSUME NEW s \in ObjectIds, NEW i \in RangeSlots, NEW j \in WorkSlots,
             NEW work \in Invalidations, Unmaps(s, i, j, work)
      PROVE  AddressSpacesHere!Next
  <2>1. /\ MappingAt(s, i) # None /\ WorkAt(s, j) = None
        /\ work # None /\ work.memory = MappingAt(s, i).memory
        /\ work.base = MappingAt(s, i).base /\ work.size = MappingAt(s, i).size
        /\ \A k \in WorkSlots : WorkAt(s, k) # None => WorkAt(s, k).sequence < work.sequence
        /\ \A t \in ObjectIds, k \in RangeSlots :
             MappingAt(t, k)' = IF t = s /\ k = i THEN None ELSE MappingAt(t, k)
        /\ \A t \in ObjectIds, k \in WorkSlots :
             WorkAt(t, k)' = IF t = s /\ k = j THEN work ELSE WorkAt(t, k)
    BY <1>8 DEF Unmaps
  <2>2. PICK old : old = RangeOf(MappingAt(s, i))
    OBVIOUS
  <2>3. RangeOf(work) = old
    BY <2>1, <2>2 DEF RangeOf
  <2>4. ASSUME NEW k \in RangeSlots, k # i, MappingAt(s, k) # None
        PROVE  RangeOf(MappingAt(s, k)) # old
    <3>1. ~Overlaps(MappingAt(s, i), MappingAt(s, k))
      BY <1>2, <2>1, <2>4 DEF LedgerOK
    <3>2. MappingAt(s, i) \in Mappings /\ MappingAt(s, k) \in Mappings
      BY <2>1, <2>4, UseTypes
    <3> QED
      BY <2>2, <3>1, <3>2 DEF Overlaps, EndOf, RangeOf, Mappings
  <2>5. old \in RangesAt(s) /\ RangesAt(s)' = RangesAt(s) \ {old}
    <3>1. old \in RangesAt(s)
      BY <2>1, <2>2 DEF RangesAt
    <3>2. ASSUME NEW r \in RangesAt(s)'
          PROVE  r \in RangesAt(s) \ {old}
      <4>1. PICK k \in RangeSlots : MappingAt(s, k)' # None /\ r = RangeOf(MappingAt(s, k)')
        BY DEF RangesAt
      <4>2. k # i /\ MappingAt(s, k)' = MappingAt(s, k)
        BY <2>1, <4>1
      <4> QED
        BY <2>4, <4>1, <4>2 DEF RangesAt
    <3>3. ASSUME NEW r \in RangesAt(s) \ {old}
          PROVE  r \in RangesAt(s)'
      <4>1. PICK k \in RangeSlots : MappingAt(s, k) # None /\ r = RangeOf(MappingAt(s, k))
        BY DEF RangesAt
      <4>2. k # i /\ MappingAt(s, k)' = MappingAt(s, k)
        BY <2>1, <2>2, <4>1
      <4> QED
        BY <4>1, <4>2 DEF RangesAt
    <3> QED
      BY <3>1, <3>2, <3>3
  <2>6. WorksAt(s)' = WorksAt(s) \cup {work}
    BY <2>1 DEF WorksAt
  <2>7. InOrder(WorksAt(s)') = Append(InOrder(WorksAt(s)), old)
    <3>1. /\ Numbered(WorksAt(s)) /\ WorksAt(s) \subseteq Invalidations
          /\ Numbered(WorksAt(s) \cup {work})
      BY <1>2, <2>6 DEF LedgerOK
    <3>2. \A w \in WorksAt(s) : w.sequence < work.sequence
      BY <2>1 DEF WorksAt
    <3> QED
      BY <2>3, <2>6, <3>1, <3>2, LatestLast
  <2>8. Len(InOrder(WorksAt(s))) < MaxPendingTlbInvalidations
    BY <1>2, <2>1, InOrderType DEF LedgerOK
  <2>9. Ledger(s)' = [ranges |-> RangesAt(s) \ {old}, backlog |-> Append(InOrder(WorksAt(s)), old)]
    BY <2>5, <2>7 DEF Ledger
  <2>10. AddressSpacesHere!Unmap(Ledger(s), Ledger(s)')
    BY <2>5, <2>8, <2>9 DEF Ledger, AddressSpacesHere!Unmap
  <2>11. \A t \in ObjectIds \ {s} : Ledger(t)' = Ledger(t)
    BY <1>5, <2>1
  <2> QED
    BY <1>1, <2>10, <2>11 DEF AddressSpacesHere!Next
<1>9. ASSUME NEW s \in ObjectIds, NEW id \in ObjectIds, NEW j \in WorkSlots, Drops(s, j, id)
      PROVE  AddressSpacesHere!Next
  <2>1. /\ WorkAt(s, j) # None /\ MappingsStay
        /\ \A k \in WorkSlots :
             WorkAt(s, k) # None => WorkAt(s, j).sequence <= WorkAt(s, k).sequence
        /\ \A t \in ObjectIds, k \in WorkSlots :
             WorkAt(t, k)' = IF t = s /\ k = j THEN None ELSE WorkAt(t, k)
    BY <1>9 DEF Drops
  <2>2. PICK work : work = WorkAt(s, j)
    OBVIOUS
  <2>3. Numbered(WorksAt(s)) /\ WorksAt(s) \subseteq Invalidations
    BY <1>2 DEF LedgerOK
  <2>4. work \in WorksAt(s) /\ \A w \in WorksAt(s) : work.sequence <= w.sequence
    BY <2>1, <2>2 DEF WorksAt
  <2>5. WorksAt(s)' = WorksAt(s) \ {work}
    <3>1. ASSUME NEW k \in WorkSlots, k # j, WorkAt(s, k) # None
          PROVE  WorkAt(s, k) # work
      <4>1. IsSpace(s)
        BY <3>1 DEF WorkAt
      <4>2. ConsistentSpace(objects[s].payload)
        BY <4>1, LiveObject, PayloadOf DEF IsSpace, WellFormedSpace
      <4>3. j \in Owed(objects[s].payload) /\ k \in Owed(objects[s].payload)
        BY <2>1, <3>1, <4>1 DEF Owed, WorkAt
      <4> QED
        BY <2>2, <3>1, <4>1, <4>2, <4>3 DEF ConsistentSpace, WorkAt
    <3>2. ASSUME NEW w \in WorksAt(s)'
          PROVE  w \in WorksAt(s) \ {work}
      <4>1. PICK k \in WorkSlots : WorkAt(s, k)' # None /\ w = WorkAt(s, k)'
        BY DEF WorksAt
      <4>2. k # j /\ WorkAt(s, k)' = WorkAt(s, k)
        BY <2>1, <4>1
      <4> QED
        BY <3>1, <4>1, <4>2 DEF WorksAt
    <3>3. ASSUME NEW w \in WorksAt(s) \ {work}
          PROVE  w \in WorksAt(s)'
      <4>1. PICK k \in WorkSlots : WorkAt(s, k) # None /\ w = WorkAt(s, k)
        BY DEF WorksAt
      <4>2. k # j /\ WorkAt(s, k)' = WorkAt(s, k)
        BY <2>1, <2>2, <4>1
      <4> QED
        BY <4>1, <4>2 DEF WorksAt
    <3> QED
      BY <3>2, <3>3
  <2>6. InOrder(WorksAt(s)) # <<>> /\ InOrder(WorksAt(s)') = Tail(InOrder(WorksAt(s)))
    BY <2>3, <2>4, <2>5, EarliestFirst
  <2>7. Ledger(s)' = [Ledger(s) EXCEPT !.backlog = Tail(InOrder(WorksAt(s)))]
    <3>1. RangesAt(s)' = RangesAt(s)
      BY <1>3, <2>1 DEF MappingsStay
    <3> QED
      BY <2>6, <3>1 DEF Ledger
  <2>8. AddressSpacesHere!HandOut(Ledger(s), Ledger(s)')
    BY <2>6, <2>7 DEF Ledger, AddressSpacesHere!HandOut
  <2>9. \A t \in ObjectIds \ {s} : Ledger(t)' = Ledger(t)
    BY <1>5, <2>1 DEF MappingsStay
  <2> QED
    BY <1>1, <2>8, <2>9 DEF AddressSpacesHere!Next
<1> QED
  BY <1>6, <1>7, <1>8, <1>9 DEF MemoryKinds, Idle, MakesMemory, Reclaims

(* Every unmap queues one invalidation of what it took away, behind those  *)
(* of the unmaps before it whichever slots they are in; take_next hands    *)
(* out the first of them, and neither a close nor the end of an address    *)
(* space drops one.                                                        *)
THEOREM InvalidationsInOrder == Spec => ImplementsMappings
<1>1. Init => TablesOK /\ AddressSpacesHere!Init
  <2> SUFFICES ASSUME Init PROVE TablesOK /\ AddressSpacesHere!Init
    OBVIOUS
  <2>1. TablesOK
    BY InitTables
  <2>2. ASSUME NEW s \in ObjectIds
        PROVE  AllMappings[s] = AddressSpacesHere!New
    <3>1. s \notin OfKind("AddressSpace")
      BY DEF Init, OfKind, LiveIds
    <3> QED
      BY <3>1 DEF AllMappings, AddressSpacesHere!New
  <2>3. AllMappings = [s \in ObjectIds |-> AddressSpacesHere!New]
    BY <2>2 DEF AllMappings
  <2> QED
    BY <2>1, <2>3 DEF AddressSpacesHere!Init
<1>2. TablesOK /\ [Next]_vars => TablesOK'
  BY StepTables
<1>3. TablesOK /\ TablesOK' /\ [Next]_vars => [AddressSpacesHere!Next]_AllMappings
  BY StepKindsOf, StepLedger DEF TablesOK, MemoryOK
<1> QED
  BY <1>1, <1>2, <1>3, PTL DEF Spec, ImplementsMappings, AddressSpacesHere!Spec

-----------------------------------------------------------------------------
(* CapabilityContract.                                                     *)

(* The generation of an entry moves on as its object goes, and by one.     *)
Passes(id) ==
  generations'[id] =
    IF objects[id] # None /\ objects'[id] = None THEN generations[id] + 1 ELSE generations[id]

(* The first end of a channel pair that did not come about is gone again.  *)
PairAborts(id) ==
  /\ objects[id] = None
  /\ UNCHANGED <<objects, processes>>
  /\ generations' = [generations EXCEPT ![id] = @ + 1]

(* A call that changes at most the generation of an object it drops.       *)
LEMMA DropPasses ==
  ASSUME KernelOK, StepOK,
         \/ UNCHANGED generations
         \/ \E id \in ObjectIds : /\ objects[id] # None /\ objects'[id] = None
                                  /\ generations' = [generations EXCEPT ![id] = @ + 1]
  PROVE  \A id \in ObjectIds : Passes(id)
<1> SUFFICES ASSUME NEW o \in ObjectIds PROVE Passes(o)
  OBVIOUS
<1>1. /\ generations[o] \in Nat
      /\ objects[o] # None /\ objects'[o] = None => generations'[o] > generations[o]
  BY KernelNamesAssumption DEF KernelOK, StepOK, ObjectsKept
<1>2. CASE UNCHANGED generations
  BY <1>1, <1>2 DEF Passes
<1>3. ASSUME NEW id \in ObjectIds, objects[id] # None, objects'[id] = None,
             generations' = [generations EXCEPT ![id] = @ + 1]
      PROVE  Passes(o)
  <2>1. generations'[o] = IF o = id THEN generations[o] + 1 ELSE generations[o]
    BY <1>3 DEF KernelOK
  <2> QED
    BY <1>1, <1>3, <2>1 DEF Passes
<1> QED
  BY <1>2, <1>3

(* reclaim_memory_object_if_unreferenced passes one generation.            *)
LEMMA ReclaimPasses ==
  ASSUME KernelOK, StepOK, NEW objs, NEW id \in ObjectIds, objects[id] # None, Reclaim(objs, id),
         DOMAIN objs = ObjectIds
  PROVE  \A o \in ObjectIds : Passes(o)
<1>1. CASE Unreferenced(objs[id])
  <2>1. /\ objects' = [objs EXCEPT ![id] = None]
        /\ generations' = [generations EXCEPT ![id] = @ + 1]
    BY <1>1 DEF Reclaim
  <2>2. objects'[id] = None
    BY <2>1
  <2> QED
    BY <2>1, <2>2, DropPasses
<1>2. CASE ~Unreferenced(objs[id])
  BY <1>2, DropPasses DEF Reclaim
<1> QED
  BY <1>1, <1>2

(* Close and revoke.                                                       *)
LEMMA ClosePasses ==
  ASSUME KernelOK, StepOK, NEW p \in ProcessIds, NEW S, NEW ref \in ObjectRefs, Live(ref),
         CloseSlots(p, S, ref)
  PROVE  \A id \in ObjectIds : Passes(id)
<1> DEFINE objs == [objects EXCEPT ![ref.id] = RemoveHandles(@, Cardinality(S))]
<1>1. DOMAIN objs = ObjectIds
  BY DEF KernelOK, ObjectTables
<1>2. Reclaim(objs, ref.id) /\ objects[ref.id] # None /\ ref.id \in ObjectIds
  BY DEF CloseSlots, Live, ObjectRefs
<1> HIDE DEF objs
<1> QED
  BY <1>1, <1>2, ReclaimPasses

(* The calls on handles and objects.                                       *)
LEMMA ObjectCallPasses ==
  ASSUME KernelOK, StepOK, NEW p \in ProcessIds, Running(p), ObjectCall(p)
  PROVE  \A id \in ObjectIds : Passes(id)
<1>1. ASSUME NEW i \in Slots, CloseHandle(p, i)
      PROVE  \A id \in ObjectIds : Passes(id)
  <2>1. Handles(p).entry[i].object \in ObjectRefs
    BY <1>1, NameableEntry DEF CloseHandle
  <2> QED
    BY <1>1, <2>1, ClosePasses DEF CloseHandle
<1>2. ASSUME NEW root \in Slots, RevokeDescendants(p, root)
      PROVE  \A id \in ObjectIds : Passes(id)
  <2>1. Handles(p).entry[root].object \in ObjectRefs
    BY <1>2, NameableEntry DEF RevokeDescendants
  <2> QED
    BY <1>2, <2>1, ClosePasses DEF RevokeDescendants
<1>3. ASSUME CreateRolledBack(p)
      PROVE  UNCHANGED generations
  BY <1>3, CreateUndone DEF vars
<1>4. CASE UNCHANGED generations
  BY <1>4, DropPasses
<1> QED
  BY <1>1, <1>2, <1>3, <1>4 DEF ObjectCall, CreateObject, CreateMemoryObject, DuplicateHandle

(* The calls on address spaces.                                            *)
LEMMA SpaceCallPasses ==
  ASSUME KernelOK, StepOK, NEW p \in ProcessIds, Running(p), SpaceCall(p)
  PROVE  \A id \in ObjectIds : Passes(id)
<1>1. CASE UNCHANGED generations
  BY <1>1, DropPasses
<1>2. ASSUME NEW space \in Slots, FlushAddressSpaceTlb(p, space)
      PROVE  \A id \in ObjectIds : Passes(id)
  <2> DEFINE s == ObjectOf(p, space)
             memory == objects[s].payload.work[NextWork(objects[s].payload)].memory
             taken == [objects EXCEPT ![s].payload = TakeWork(@)]
             objs == [taken EXCEPT ![memory.id].payload = RemoveMapping(@)]
  <2>1. /\ Lookup(p, space, "AddressSpace", {"MANAGE"})
        /\ Owed(objects[s].payload) # {}
        /\ Valid(memory, "MemoryObject")
        /\ Reclaim(objs, memory.id)
    BY <1>2 DEF FlushAddressSpaceTlb
  <2>2. objects[s] \in WellFormedObjects /\ objects[s].kind = "AddressSpace"
    BY <1>2, <2>1, LookupObject
  <2>3. WellFormedSpace(objects[s].payload)
    BY <2>2, PayloadOf
  <2>4. NextWork(objects[s].payload) \in Owed(objects[s].payload)
    BY <2>1, <2>3, TakeWorkWellFormed
  <2>5. memory \in ObjectRefs
    BY <2>3, <2>4, SpaceParts DEF Invalidations
  <2>6. DOMAIN objs = ObjectIds
    BY DEF KernelOK, ObjectTables
  <2>7. memory.id \in ObjectIds /\ objects[memory.id] # None
    BY <2>1, <2>5 DEF ObjectRefs, Valid, Live
  <2> HIDE DEF objs, memory
  <2> QED
    BY <2>1, <2>6, <2>7, ReclaimPasses
<1> QED
  BY <1>1, <1>2 DEF SpaceCall, MapMemoryObject, MapRolledBack, UnmapAddressRange

(* Send, receive and the other calls that leave the generations alone.     *)
LEMMA ChannelCallPasses ==
  ASSUME KernelOK, StepOK, NEW p \in ProcessIds, Running(p),
         \/ \E max \in MessageLimits, rights \in RightsChoices : CreateChannelPair(p, max, rights)
         \/ SecondObjectRefused(p) \/ Transfers(p)
  PROVE  \A id \in ObjectIds : Passes(id)
<1>1. UNCHANGED generations
  <2>1. CASE SecondObjectRefused(p)
    BY <2>1, CreateUndone DEF vars
  <2> QED
    BY <2>1 DEF CreateChannelPair, Transfers, ChannelSend, ChannelRecv
<1> QED
  BY <1>1, DropPasses

(* What the host does.                                                     *)
LEMMA HostPasses ==
  ASSUME KernelOK, StepOK, HostCall
  PROVE  \A id \in ObjectIds : Passes(id)
<1>1. ASSUME NEW id \in ObjectIds, DestroyObject(id)
      PROVE  \A o \in ObjectIds : Passes(o)
  <2>1. objects[id] # None /\ objects'[id] = None
    BY <1>1 DEF DestroyObject
  <2> QED
    BY <1>1, <2>1, DropPasses DEF DestroyObject
<1>2. CASE UNCHANGED generations
  BY <1>2, DropPasses
<1> QED
  BY <1>1, <1>2 DEF HostCall, SetEvent

(* The roll-back of a channel pair, with or without its first end.         *)
LEMMA PairPasses ==
  ASSUME KernelOK, StepOK, NEW p \in ProcessIds, Running(p), NEW max \in MessageLimits,
         ChannelPairRolledBack(p, max)
  PROVE  (\A id \in ObjectIds : Passes(id)) \/ \E id \in ObjectIds : PairAborts(id)
<1>1. UNCHANGED <<objects, processes>>
  BY PairUndone
<1>2. CASE UNCHANGED generations
  BY <1>2, DropPasses
<1>3. CASE PairLosesFirst(p, max)
  <2>1. FreeIds # {}
    <3>1. Cardinality(FreeIds) = 1
      BY <1>3 DEF PairLosesFirst
    <3> QED
      BY <3>1, FS_EmptySet
  <2>2. First(FreeIds) \in ObjectIds /\ objects[First(FreeIds)] = None
    BY <2>1, FreeEntry
  <2>3. generations' = [generations EXCEPT ![First(FreeIds)] = @ + 1]
    BY <1>3 DEF PairLosesFirst
  <2> QED
    BY <1>1, <2>2, <2>3 DEF PairAborts
<1> QED
  BY <1>2, <1>3 DEF ChannelPairRolledBack, PairFindsNoSlots, PairRefused

(* Every call does one or the other.                                       *)
LEMMA StepPasses ==
  ASSUME KernelOK, StepOK, [Next]_vars
  PROVE  (\A id \in ObjectIds : Passes(id)) \/ \E id \in ObjectIds : PairAborts(id)
<1>1. CASE UNCHANGED generations
  BY <1>1, DropPasses
<1>2. ASSUME NEW p \in ProcessIds, Running(p), ChannelCall(p)
      PROVE  (\A id \in ObjectIds : Passes(id)) \/ \E id \in ObjectIds : PairAborts(id)
  BY <1>2, ChannelCallPasses, PairPasses DEF ChannelCall, Transfers
<1> QED
  BY <1>1, <1>2, ObjectCallPasses, SpaceCallPasses, HostPasses
     DEF Next, SystemCall, CreateBootstrapProcess, vars

(* The capabilities to an object with the same rights, and the bag of all  *)
(* capabilities to it, by what the slots and the queues show.              *)
Class(ref, R) == {e \in Entries : e.object = ref /\ e.rights = R}

Copies(ref, R) == CountOf(Class(ref, R))

BagOf(ref) ==
  [R \in {R \in SUBSET HandleRights : Copies(ref, R) > 0} |-> Copies(ref, R)]

(* Two sets are as large when one numbers the other.                       *)
LEMMA MatchedCount ==
  ASSUME NEW S, IsFiniteSet(S), NEW T, NEW g \in [S -> T],
         \A k, l \in S : g[k] = g[l] => k = l,
         \A t \in T : \E l \in S : g[l] = t
  PROVE  IsFiniteSet(T) /\ Cardinality(T) = Cardinality(S)
<1>1. g \in Bijection(S, T)
  BY DEF Bijection, Injection, IsInjective, Surjection
<1>2. ExistsBijection(S, T)
  BY <1>1 DEF ExistsBijection
<1> QED
  BY <1>2, FS_Bijection

(* The entries of one class, each with its place, are as many as CountOf   *)
(* says.                                                                   *)
LEMMA PlacedCount ==
  ASSUME KernelOK, NEW ref, NEW R,
         NEW X, X = {e \in Placed : e[3].object = ref /\ e[3].rights = R}
  PROVE  IsFiniteSet(X) /\ Cardinality(X) = Copies(ref, R)
<1> DEFINE C == Class(ref, R)
           f == [l \in HeldOf(C) |-> <<"table", l, At(l[1], l[2])>>]
           g == [l \in CarriedOf(C) |-> <<"message", l, Queue(l[1], l[2])[l[3]]>>]
           T == {f[l] : l \in HeldOf(C)}
           M == {g[l] : l \in CarriedOf(C)}
<1>1. HeldOf(C) = {l \in TableSlots : EntryAt(l).object = ref /\ EntryAt(l).rights = R}
  <2>1. \A q \in ProcessIds, i \in Slots : At(q, i) # None => At(q, i) \in Entries
    BY ViewTypes
  <2> QED
    BY <2>1 DEF HeldOf, TableSlots, EntryAt, Occupied, At, Class
<1>2. CarriedOf(C) = {l \in TransitSlots : InTransit(l).object = ref /\ InTransit(l).rights = R}
  <2>1. ASSUME NEW id \in ObjectIds, NEW m \in MessageSlots, Queue(id, m) # None,
               NEW k \in DOMAIN Queue(id, m)
        PROVE  Queue(id, m)[k] \in Entries
    <3>1. Queue(id, m) \in Messages
      BY <2>1, ViewTypes
    <3> QED
      BY <2>1, <3>1, MessageEntries
  <2> QED
    BY <2>1 DEF CarriedOf, TransitSlots, InTransit, OfKind, LiveIds, Waiting, Queue, IsEndpoint, Class
<1>3. T = {<<"table", l, EntryAt(l)>> : l \in HeldOf(C)}
  BY DEF EntryAt, At, HeldOf
<1>4. M = {<<"message", l, InTransit(l)>> : l \in CarriedOf(C)}
  BY DEF InTransit, Queue, CarriedOf
<1>5. X = T \cup M
  <2> HIDE DEF T, M, C
  <2> QED
    BY <1>1, <1>2, <1>3, <1>4 DEF Placed
<1>6. T \cap M = {}
  OBVIOUS
<1>7. /\ IsFiniteSet(T) /\ Cardinality(T) = Cardinality(HeldOf(C))
      /\ IsFiniteSet(M) /\ Cardinality(M) = Cardinality(CarriedOf(C))
  <2>1. IsFiniteSet(HeldOf(C)) /\ IsFiniteSet(CarriedOf(C))
    BY ClassFinite
  <2>2. IsFiniteSet(T) /\ Cardinality(T) = Cardinality(HeldOf(C))
    <3>1. \A k, l \in HeldOf(C) : f[k] = f[l] => k = l
      OBVIOUS
    <3>2. f \in [HeldOf(C) -> T]
      OBVIOUS
    <3> HIDE DEF f, C
    <3> QED
      BY <2>1, <3>1, <3>2, MatchedCount
  <2>3. IsFiniteSet(M) /\ Cardinality(M) = Cardinality(CarriedOf(C))
    <3>1. \A k, l \in CarriedOf(C) : g[k] = g[l] => k = l
      OBVIOUS
    <3>2. g \in [CarriedOf(C) -> M]
      OBVIOUS
    <3> HIDE DEF g, C
    <3> QED
      BY <2>1, <3>1, <3>2, MatchedCount
  <2> QED
    BY <2>2, <2>3
<1>8. Cardinality(HeldOf(C)) \in Nat /\ Cardinality(CarriedOf(C)) \in Nat
  BY ClassFinite
<1> HIDE DEF T, M
<1>9. /\ IsFiniteSet(T \cup M)
      /\ Cardinality(T \cup M) = Cardinality(T) + Cardinality(M) - Cardinality(T \cap M)
  BY <1>7, FS_Union
<1>10. Cardinality(T \cap M) = 0
  BY <1>6, FS_EmptySet
<1>11. Copies(ref, R) = Cardinality(HeldOf(C)) + Cardinality(CarriedOf(C))
  BY DEF Copies, CountOf
<1> HIDE DEF C, f, g
<1>12. Cardinality(T \cup M) = Cardinality(HeldOf(C)) + Cardinality(CarriedOf(C))
  BY <1>7, <1>8, <1>9, <1>10
<1> QED
  BY <1>5, <1>9, <1>11, <1>12

(* What AllCapabilities stands for.                                        *)
LEMMA BagsAre == KernelOK => AllCapabilities = [ref \in ObjectRefs |-> BagOf(ref)]
<1> SUFFICES ASSUME KernelOK PROVE AllCapabilities = [ref \in ObjectRefs |-> BagOf(ref)]
  OBVIOUS
<1>1. ASSUME NEW e \in Placed
      PROVE  e[3].rights \in SUBSET HandleRights
  <2>1. e[3] \in Entries
    <3>1. ASSUME NEW l \in TableSlots
          PROVE  EntryAt(l) \in Entries
      <4>1. /\ l[1] \in ProcessIds /\ l[2] \in Slots /\ EntryAt(l) # None
            /\ EntryAt(l) = At(l[1], l[2])
        BY DEF TableSlots, Occupied, EntryAt, At
      <4> QED
        BY <4>1, ViewTypes
    <3>2. ASSUME NEW l \in TransitSlots
          PROVE  InTransit(l) \in Entries
      <4>1. /\ l[1] \in ObjectIds /\ l[2] \in MessageSlots
            /\ Queue(l[1], l[2]) # None
            /\ l[3] \in DOMAIN Queue(l[1], l[2])
            /\ InTransit(l) = Queue(l[1], l[2])[l[3]]
        BY DEF TransitSlots, OfKind, LiveIds, Waiting, Queue, IsEndpoint, InTransit
      <4> QED
        BY <4>1, ViewTypes, MessageEntries
    <3> QED
      BY <3>1, <3>2 DEF Placed
  <2> QED
    BY <2>1 DEF Entries
<1>2. ASSUME NEW ref \in ObjectRefs
      PROVE  CapabilitiesIn({e \in Placed : e[3].object = ref}) = BagOf(ref)
  <2> DEFINE P == {e \in Placed : e[3].object = ref}
             X(R) == {e \in P : e[3].rights = R}
  <2>1. ASSUME NEW R
        PROVE  Cardinality(X(R)) = Copies(ref, R) /\ (X(R) # {} <=> Copies(ref, R) > 0)
    <3>1. X(R) = {e \in Placed : e[3].object = ref /\ e[3].rights = R}
      OBVIOUS
    <3>2. IsFiniteSet(X(R)) /\ Cardinality(X(R)) = Copies(ref, R)
      BY <3>1, PlacedCount
    <3> HIDE DEF X
    <3> QED
      BY <3>2, FS_EmptySet, FS_CardinalityType
  <2>2. {e[3].rights : e \in P} = {R \in SUBSET HandleRights : Copies(ref, R) > 0}
    <3>1. \A R : (\E e \in P : e[3].rights = R) <=> X(R) # {}
      OBVIOUS
    <3>2. \A R : (\E e \in P : e[3].rights = R) => R \in SUBSET HandleRights
      BY <1>1
    <3> HIDE DEF P, X
    <3> QED
      BY <2>1, <3>1, <3>2
  <2>3. CapabilitiesIn(P) = [R \in {e[3].rights : e \in P} |-> Cardinality(X(R))]
    BY DEF CapabilitiesIn
  <2> HIDE DEF P, X
  <2>4. CapabilitiesIn(P) = BagOf(ref)
    BY <2>1, <2>2, <2>3 DEF BagOf
  <2> QED
    BY <2>4 DEF P
<1> QED
  BY <1>2 DEF AllCapabilities

(* As many copies of every class, the same bag.                            *)
LEMMA BagStays ==
  ASSUME NEW ref, \A R : Copies(ref, R)' = Copies(ref, R)
  PROVE  BagOf(ref)' = BagOf(ref)
BY DEF BagOf

(* The number of copies is one.                                            *)
LEMMA CopiesType == \A ref, R : Copies(ref, R) \in Nat
BY ClassFinite DEF Copies

(* A call that makes no object leaves the names of all objects of now or   *)
(* of before what they are.                                                *)
LEMMA BornStays ==
  ASSUME KernelOK, \A id \in ObjectIds : Passes(id), NothingNew
  PROVE  Born' = Born
<1>1. ASSUME NEW ref \in ObjectRefs
      PROVE  (ref.generation < generations[ref.id] \/ Live(ref))' <=>
               ref.generation < generations[ref.id] \/ Live(ref)
  <2>1. /\ ref.id \in ObjectIds /\ ref.generation \in Nat
        /\ generations[ref.id] \in Nat
    BY KernelNamesAssumption DEF KernelOK, ObjectRefs
  <2>2. objects'[ref.id] # None => objects[ref.id] # None
    BY <2>1 DEF NothingNew
  <2> QED
    BY <2>1, <2>2 DEF Passes, Live
<1> QED
  BY <1>1 DEF Born

(* What AllCapabilities is before and after a step.                        *)
LEMMA BagsNow ==
  ASSUME KernelOK, KernelOK'
  PROVE  /\ AllCapabilities = [ref \in ObjectRefs |-> BagOf(ref)]
         /\ AllCapabilities' = [ref \in ObjectRefs |-> BagOf(ref)']
<1>1. (KernelOK => AllCapabilities = [ref \in ObjectRefs |-> BagOf(ref)])'
  BY BagsAre, PTL
<1> QED
  BY <1>1, BagsAre

(* The same bags and the same objects.                                     *)
LEMMA BagsMove ==
  ASSUME KernelOK, KernelOK', Born' = Born, \A r \in ObjectRefs : BagOf(r)' = BagOf(r)
  PROVE  AllCapabilities' = AllCapabilities /\ UNCHANGED Capabilities!vars
<1>1. AllCapabilities' = AllCapabilities
  BY BagsNow
<1> QED
  BY <1>1 DEF Capabilities!vars

(* What is taken from a bag to leave a smaller one.                        *)
LEMMA BagDifference ==
  ASSUME NEW D, NEW E \in SUBSET D, NEW W \in [D -> Nat \ {0}], NEW X \in [E -> Nat \ {0}],
         \A Q \in E : X[Q] <= W[Q]
  PROVE  /\ Capabilities!\sqsubseteq(Capabilities!(-)(W, X), W)
         /\ X = Capabilities!(-)(W, Capabilities!(-)(W, X))
<1>1. PICK G : G = {Q \in D : Q \notin E \/ W[Q] - X[Q] > 0}
  OBVIOUS
<1>2. PICK Y : Y = [Q \in G |-> IF Q \in E THEN W[Q] - X[Q] ELSE W[Q]]
  OBVIOUS
<1>3. Capabilities!(-)(W, X) = Y
  BY <1>1, <1>2 DEF Capabilities!(-)
<1>4. DOMAIN Y = G /\ G \subseteq D /\ \A Q \in G : Y[Q] = IF Q \in E THEN W[Q] - X[Q] ELSE W[Q]
  BY <1>1, <1>2
<1>5. \A Q \in D : W[Q] \in Nat \ {0} /\ (Q \in E => X[Q] \in Nat \ {0} /\ X[Q] <= W[Q])
  OBVIOUS
<1>6. Capabilities!\sqsubseteq(Y, W)
  BY <1>4, <1>5 DEF Capabilities!\sqsubseteq
<1> DEFINE left(Q) == IF Q \in G THEN W[Q] - Y[Q] ELSE W[Q]
<1>7. Capabilities!(-)(W, Y) = [Q \in {Q \in D : left(Q) > 0} |-> left(Q)]
  BY <1>4 DEF Capabilities!(-)
<1>8. ASSUME NEW Q \in D
      PROVE  (left(Q) > 0 <=> Q \in E) /\ (Q \in E => left(Q) = X[Q])
  BY <1>1, <1>4, <1>5
<1> HIDE DEF left
<1>9. {Q \in D : left(Q) > 0} = E /\ \A Q \in E : left(Q) = X[Q]
  BY <1>8
<1>10. X = [Q \in E |-> X[Q]]
  OBVIOUS
<1> QED
  BY <1>3, <1>6, <1>7, <1>9, <1>10

(* The pair that did not come about used up a reference.                   *)
LEMMA AbortIsAborted ==
  ASSUME KernelOK, KernelOK', NEW id \in ObjectIds, PairAborts(id)
  PROVE  Capabilities!Next
<1>1. SlotsStay /\ QueuesStay
  BY DEF PairAborts, SlotsStay, QueuesStay, At, Running, Handles, Queue, IsEndpoint
<1>2. \A r \in ObjectRefs : BagOf(r)' = BagOf(r)
  BY <1>1, ClassStays, BagStays DEF Copies
<1>3. PICK new \in ObjectRefs : new = RefTo(id)
  BY RefType
<1>4. ASSUME NEW r \in ObjectRefs
      PROVE  r \in Born' <=> r \in Born \/ r = new
  <2>1. /\ r.id \in ObjectIds /\ r.generation \in Nat /\ generations[r.id] \in Nat
        /\ r = new <=> r.id = id /\ r.generation = generations[id]
    BY <1>3, KernelNamesAssumption DEF KernelOK, ObjectRefs, RefTo
  <2>2. /\ objects' = objects /\ objects[id] = None
        /\ generations'[r.id] = IF r.id = id THEN generations[r.id] + 1 ELSE generations[r.id]
    BY <2>1 DEF PairAborts, KernelOK
  <2> QED
    BY <2>1, <2>2 DEF Born, Live
<1>5. new \notin Born
  <2>1. generations[id] \in Nat /\ new.id = id /\ new.generation = generations[id]
    BY <1>3, KernelNamesAssumption DEF KernelOK, RefTo
  <2> QED
    BY <2>1 DEF Born, Live, PairAborts
<1>6. Born' = Born \cup {new}
  BY <1>3, <1>4 DEF Born
<1>7. AllCapabilities' = AllCapabilities
  BY <1>2, BagsNow
<1>8. \A was, is : was = AllCapabilities /\ is = AllCapabilities' => Capabilities!Abort(was, is)
  BY <1>3, <1>5, <1>6, <1>7 DEF Capabilities!Abort
<1> QED
  BY <1>8 DEF Capabilities!Next

(* A create call mints one capability to each object it makes.             *)
LEMMA CreateMints ==
  ASSUME KernelOK, KernelOK', NEW owner, SoundRefs(owner),
         NEW p \in ProcessIds, NEW N \in SUBSET ObjectIds, N # {}, Creates(p, N)
  PROVE  Capabilities!Next
<1>1. PICK R \in SUBSET HandleRights : \A i \in Slots :
        At(p, i)' = At(p, i) \/ At(p, i)'.rights = R
  BY DEF Creates
<1>2. PICK touched : touched = {RefTo(id) : id \in N}
  OBVIOUS
<1>3. touched \in SUBSET ObjectRefs /\ touched # {}
  BY <1>2, RefType
<1>4. ASSUME NEW r \in ObjectRefs, r \notin touched
      PROVE  BagOf(r)' = BagOf(r)
  <2>1. ASSUME NEW Q
        PROVE  Copies(r, Q)' = Copies(r, Q)
    <3>1. \A id \in N, e \in Class(r, Q) : e.object # RefTo(id)
      BY <1>2, <1>4 DEF Class
    <3> QED
      BY <3>1, ClassUncreated DEF Copies
  <2> QED
    BY <2>1, BagStays
<1>5. ASSUME NEW id \in N, NEW r, r = RefTo(id)
      PROVE  BagOf(r) = [Q \in {} |-> 1] /\ BagOf(r)' = [Q \in {R} |-> 1]
  <2>1. PICK i \in Slots : /\ Held(r) = {} /\ Carried(r) = {} /\ Carried(r)' = {}
                           /\ Held(r)' = {<<p, i>>} /\ At(p, i)' # At(p, i)
    BY <1>5, CreatedPlace
  <2>2. /\ At(p, i)' \in Entries /\ At(p, i)' # None
        /\ At(p, i)'.object = r /\ At(p, i)'.rights = R
    <3>1. At(p, i)' \in Entries
      BY <2>1 DEF Creates
    <3>2. <<p, i>> \in Held(r)'
      BY <2>1
    <3> QED
      BY <1>1, <2>1, <3>1, <3>2 DEF Held
  <2>3. ASSUME NEW Q
        PROVE  Copies(r, Q) = 0 /\ Copies(r, Q)' = IF Q = R THEN 1 ELSE 0
    <3>1. HeldOf(Class(r, Q)) = {} /\ CarriedOf(Class(r, Q)) = {} /\ CarriedOf(Class(r, Q))' = {}
      BY <2>1 DEF HeldOf, CarriedOf, Held, Carried, Class
    <3>2. HeldOf(Class(r, Q))' = IF Q = R THEN {<<p, i>>} ELSE {}
      <4>1. \A q \in ProcessIds, j \in Slots :
              At(q, j)' # None /\ At(q, j)'.object = r <=> q = p /\ j = i
        <5>1. ASSUME NEW q \in ProcessIds, NEW j \in Slots
              PROVE  At(q, j)' # None /\ At(q, j)'.object = r <=> <<q, j>> \in Held(r)'
          BY DEF Held
        <5> QED
          BY <2>1, <5>1
      <4>2. \A q \in ProcessIds, j \in Slots :
              At(q, j)' # None /\ At(q, j)' \in Class(r, Q) <=> q = p /\ j = i /\ Q = R
        BY <2>2, <4>1 DEF Class
      <4> QED
        BY <4>2 DEF HeldOf
    <3>3. Cardinality({}) = 0 /\ Cardinality({<<p, i>>}) = 1
      BY FS_EmptySet, FS_Singleton
    <3>4. Copies(r, Q) = 0
      BY <3>1, <3>3 DEF Copies, CountOf
    <3>5. Cardinality(HeldOf(Class(r, Q))') = IF Q = R THEN 1 ELSE 0
      BY <3>2, <3>3
    <3>6. Cardinality(CarriedOf(Class(r, Q))') = 0
      BY <3>1, <3>3
    <3> QED
      BY <3>4, <3>5, <3>6 DEF Copies, CountOf
  <2> QED
    BY <2>3 DEF BagOf
<1>6. ASSUME NEW r \in touched
      PROVE  BagOf(r)' = Capabilities!One(R) /\ BagOf(r)' # BagOf(r)
  <2>1. BagOf(r) = [Q \in {} |-> 1] /\ BagOf(r)' = [Q \in {R} |-> 1]
    BY <1>2, <1>5, <1>6
  <2>2. Capabilities!One(R) = [Q \in {R} |-> 1]
    BY DEF Capabilities!One, Capabilities!SetToBag
  <2>3. DOMAIN [Q \in {R} |-> 1] # DOMAIN [Q \in {} |-> 1]
    OBVIOUS
  <2> QED
    BY <2>1, <2>2, <2>3
<1>7. ASSUME NEW r \in ObjectRefs
      PROVE  /\ r \in Born => r \in Born' /\ r \notin touched
             /\ r \in Born' => r \in Born \/ r \in touched
             /\ r \in touched => r \in Born'
  <2>1. /\ r.id \in ObjectIds /\ r.generation \in Nat /\ generations[r.id] \in Nat
        /\ r = RefTo(r.id) <=> r.generation = generations[r.id]
    BY KernelNamesAssumption DEF KernelOK, ObjectRefs, RefTo
  <2>2. /\ generations' = generations
        /\ \A id \in N : objects[id] = None /\ objects'[id] # None
        /\ r.id \notin N => objects'[r.id] = objects[r.id]
    BY <2>1 DEF Creates
  <2>3. r \in touched <=> r.id \in N /\ r.generation = generations[r.id]
    BY <1>2, <2>1 DEF RefTo
  <2> QED
    BY <2>1, <2>2, <2>3 DEF Born, Live
<1>8. Born \subseteq Born' /\ touched = Born' \ Born
  BY <1>3, <1>7 DEF Born
<1>9. PICK was, is : was = AllCapabilities /\ is = AllCapabilities'
  OBVIOUS
<1>10. ASSUME NEW r \in ObjectRefs
       PROVE  is[r] = IF r \in Born' \ Born THEN Capabilities!One(R) ELSE was[r]
  <2>1. was[r] = BagOf(r) /\ is[r] = BagOf(r)'
    BY <1>9, BagsNow
  <2> QED
    BY <1>4, <1>6, <1>8, <2>1
<1>11. Born # Born'
  BY <1>3, <1>8
<1>12. Capabilities!Mint(was, is)
  BY <1>8, <1>10, <1>11 DEF Capabilities!Mint
<1> QED
  BY <1>9, <1>12 DEF Capabilities!Next

(* A duplicate is a narrower copy of what may be copied.                   *)
LEMMA DuplicateDerives ==
  ASSUME KernelOK, KernelOK', Born' = Born,
         NEW p \in ProcessIds, Running(p), NEW source \in Slots, NEW rights, NEW s \in Slots,
         Duplicates(p, source, rights, s), NEW was, was = AllCapabilities,
         NEW is, is = AllCapabilities'
  PROVE  /\ Capabilities!Derive(was, is, At(p, source).object, At(p, source).rights, rights)
         /\ Capabilities!Next
<1> DEFINE e == At(p, source)
           d == DerivedEntry(Handles(p), source, rights)
<1>1. /\ e \in Entries /\ d \in Entries /\ d.object = e.object /\ d.rights = rights
      /\ "DUPLICATE" \in e.rights /\ rights \in SUBSET e.rights
  <2>1. Handles(p).entry[source] \in Entries /\ e = Handles(p).entry[source]
    BY NameableEntry DEF At, Duplicates
  <2> QED
    BY <2>1 DEF DerivedEntry, Entries, Duplicates, CanDerive
<1>2. PICK r \in ObjectRefs : r = e.object
  BY <1>1 DEF Entries
<1>3. ASSUME NEW ref, NEW Q
      PROVE  Copies(ref, Q)' = Copies(ref, Q) + (IF ref = r /\ Q = rights THEN 1 ELSE 0)
  <2>1. d \in Class(ref, Q) <=> ref = r /\ Q = rights
    BY <1>1, <1>2 DEF Class
  <2>2. Copies(ref, Q)' = Copies(ref, Q) + (IF d \in Class(ref, Q) THEN 1 ELSE 0)
    BY ClassDuplicates DEF Copies
  <2> QED
    BY <2>1, <2>2
<1>4. Copies(r, e.rights) > 0
  <2>1. <<p, source>> \in HeldOf(Class(r, e.rights))
    BY <1>1, <1>2, EntryParts DEF HeldOf, Class
  <2>2. /\ IsFiniteSet(HeldOf(Class(r, e.rights)))
        /\ Cardinality(HeldOf(Class(r, e.rights))) \in Nat
        /\ Cardinality(CarriedOf(Class(r, e.rights))) \in Nat
    BY ClassFinite
  <2>3. Cardinality(HeldOf(Class(r, e.rights))) # 0
    BY <2>1, <2>2, FS_EmptySet
  <2> QED
    BY <2>2, <2>3 DEF Copies, CountOf
<1>5. e.rights \in SUBSET HandleRights /\ rights \in SUBSET HandleRights
  BY <1>1 DEF Entries
<1>6. PICK right : right = e.rights
  OBVIOUS
<1> HIDE DEF e, d
<1>7. \A Q : Copies(r, Q) \in Nat /\ Copies(r, Q)' = Copies(r, Q) + (IF Q = rights THEN 1 ELSE 0)
  BY <1>3, CopiesType
<1>8. BagOf(r)' = [Q \in DOMAIN BagOf(r) \cup {rights} |->
                     (IF Q \in DOMAIN BagOf(r) THEN BagOf(r)[Q] ELSE 0)
                       + (IF Q \in {rights} THEN 1 ELSE 0)]
  BY <1>5, <1>7 DEF BagOf
<1>9. \A q \in ObjectRefs : was[q] = BagOf(q) /\ is[q] = BagOf(q)'
  BY BagsNow
<1>10. right \in DOMAIN was[r] /\ "DUPLICATE" \in right /\ rights \in SUBSET right
  BY <1>1, <1>4, <1>5, <1>6, <1>9 DEF BagOf
<1>11. is[r] = Capabilities!(+)(was[r], Capabilities!One(rights))
  BY <1>8, <1>9 DEF Capabilities!(+), Capabilities!One, Capabilities!SetToBag
<1>12. ASSUME NEW q \in ObjectRefs, q # r
       PROVE  is[q] = was[q]
  <2>1. BagOf(q)' = BagOf(q)
    BY <1>3, <1>12, CopiesType, BagStays
  <2> QED
    BY <1>9, <2>1
<1>13. Capabilities!Derive(was, is, r, right, rights)
  BY <1>10, <1>11, <1>12
     DEF Capabilities!Derive, Capabilities!BagIn, Capabilities!BagToSet, Capabilities!OnlyAt
<1>14. Capabilities!Next
  BY <1>10, <1>13 DEF Capabilities!Next, Capabilities!BagToSet
<1> QED
  BY <1>2, <1>6, <1>13, <1>14 DEF e

(* A close or a revocation drops the capabilities of the slots it empties. *)
LEMMA CloseDrops ==
  ASSUME KernelOK, KernelOK', Born' = Born,
         NEW p \in ProcessIds, Running(p), NEW S \in SUBSET Slots, NEW closed \in ObjectRefs,
         Closes(p, S, closed), NEW was, was = AllCapabilities, NEW is, is = AllCapabilities'
  PROVE  Capabilities!Drop(was, is, closed, RightsAt(p, S)) /\ Capabilities!Next
<1>1. ASSUME NEW r \in ObjectRefs, r # closed
      PROVE  BagOf(r)' = BagOf(r)
  <2>1. ASSUME NEW Q
        PROVE  Copies(r, Q)' = Copies(r, Q)
    <3>1. {i \in S : At(p, i) \in Class(r, Q)} = {}
      BY <1>1 DEF Closes, Class
    <3>2. Copies(r, Q)' = Copies(r, Q) - Cardinality({i \in S : At(p, i) \in Class(r, Q)})
      BY ClassCloses DEF Copies
    <3> QED
      BY <3>1, <3>2, FS_EmptySet, CopiesType
  <2> QED
    BY <2>1, BagStays
<1> DEFINE With(Q) == {i \in S : Handles(p).entry[i].rights = Q}
<1>2. \A i \in S : /\ At(p, i) \in Entries /\ At(p, i).object = closed
                   /\ At(p, i) = Handles(p).entry[i]
                   /\ Handles(p).entry[i].rights \in SUBSET HandleRights
  <2>1. \A i \in S : At(p, i) # None /\ At(p, i).object = closed /\ At(p, i) \in Entries
    BY ViewTypes DEF Closes
  <2> QED
    BY <2>1 DEF At, Entries
<1>3. ASSUME NEW Q
      PROVE  /\ Cardinality(With(Q)) \in Nat /\ (With(Q) # {} <=> Cardinality(With(Q)) > 0)
             /\ Copies(closed, Q) \in Nat /\ Copies(closed, Q)' \in Nat
             /\ Copies(closed, Q)' = Copies(closed, Q) - Cardinality(With(Q))
  <2>1. With(Q) = {i \in S : At(p, i) \in Class(closed, Q)}
    BY <1>2 DEF Class
  <2>2. Copies(closed, Q)' = Copies(closed, Q) - Cardinality(With(Q))
    BY <2>1, ClassCloses DEF Copies
  <2>3. IsFiniteSet(With(Q))
    <3>1. With(Q) \in SUBSET Slots
      OBVIOUS
    <3> QED
      BY <3>1, SlotsFinite, FS_Subset
  <2>4. (\A ref, R : Copies(ref, R) \in Nat)'
    BY CopiesType, PTL
  <2> HIDE DEF With
  <2> QED
    BY <2>2, <2>3, <2>4, CopiesType, FS_EmptySet, FS_CardinalityType
<1>4. RightsAt(p, S) = [Q \in {Q \in SUBSET HandleRights : With(Q) # {}} |-> Cardinality(With(Q))]
  <2>1. {Handles(p).entry[i].rights : i \in S} = {Q \in SUBSET HandleRights : With(Q) # {}}
    BY <1>2
  <2> QED
    BY <2>1 DEF RightsAt
<1> HIDE DEF With
<1>5. /\ was[closed] = [Q \in {Q \in SUBSET HandleRights : Copies(closed, Q) > 0} |-> Copies(closed, Q)]
      /\ is[closed] = [Q \in {Q \in SUBSET HandleRights : Copies(closed, Q)' > 0} |-> Copies(closed, Q)']
  <2>1. was[closed] = BagOf(closed) /\ is[closed] = BagOf(closed)'
    BY BagsNow
  <2> QED
    BY <2>1 DEF BagOf
<1>6. PICK D, E, F :
        /\ D = {Q \in SUBSET HandleRights : Copies(closed, Q) > 0}
        /\ E = {Q \in SUBSET HandleRights : Copies(closed, Q)' > 0}
        /\ F = {Q \in SUBSET HandleRights : With(Q) # {}}
  OBVIOUS
<1>7. \A q \in ObjectRefs \ {closed} : is[q] = was[q]
  BY <1>1, BagsNow
<1>8. E \in SUBSET D /\ F \in SUBSET D
  BY <1>3, <1>6
<1>9. Capabilities!\sqsubseteq(RightsAt(p, S), was[closed])
  <2>1. \A Q \in F : Cardinality(With(Q)) <= Copies(closed, Q)
    BY <1>3
  <2> QED
    BY <1>4, <1>5, <1>6, <1>8, <2>1 DEF Capabilities!\sqsubseteq
<1>10. is[closed] = Capabilities!(-)(was[closed], RightsAt(p, S))
  <2> DEFINE left(Q) == IF Q \in F THEN Copies(closed, Q) - Cardinality(With(Q)) ELSE Copies(closed, Q)
  <2>1. Capabilities!(-)(was[closed], RightsAt(p, S)) = [Q \in {Q \in D : left(Q) > 0} |-> left(Q)]
    BY <1>4, <1>5, <1>6 DEF Capabilities!(-)
  <2>2. \A Q \in D : left(Q) = Copies(closed, Q)'
    BY <1>3, <1>6
  <2>3. {Q \in D : left(Q) > 0} = E
    BY <1>6, <1>8, <2>2
  <2> HIDE DEF left
  <2>4. [Q \in {Q \in D : left(Q) > 0} |-> left(Q)] = [Q \in E |-> Copies(closed, Q)']
    BY <1>8, <2>2, <2>3
  <2> QED
    BY <1>5, <1>6, <2>1, <2>4
<1>11. Capabilities!Drop(was, is, closed, RightsAt(p, S))
  BY <1>7, <1>9, <1>10 DEF Capabilities!Drop, Capabilities!OnlyAt
<1>12. Capabilities!Drop(was, is, closed, Capabilities!(-)(was[closed], is[closed]))
  <2>1. /\ was[closed] \in [D -> Nat \ {0}] /\ is[closed] \in [E -> Nat \ {0}]
        /\ \A Q \in E : is[closed][Q] <= was[closed][Q]
    BY <1>3, <1>5, <1>6, <1>8
  <2>2. /\ Capabilities!\sqsubseteq(Capabilities!(-)(was[closed], is[closed]), was[closed])
        /\ is[closed] = Capabilities!(-)(was[closed], Capabilities!(-)(was[closed], is[closed]))
    BY <1>8, <2>1, BagDifference
  <2> QED
    BY <1>7, <2>2 DEF Capabilities!Drop, Capabilities!OnlyAt
<1>13. Capabilities!Next
  BY <1>12 DEF Capabilities!Next
<1> QED
  BY <1>11, <1>13

(* Every call is a step of the contract or none.                           *)
LEMMA StepCapabilities ==
  ASSUME TablesOK, TablesOK', [Next]_vars
  PROVE  [Capabilities!Next]_(Capabilities!vars)
<1>1. KernelOK /\ KernelOK' /\ StepOK /\ StepKinds
  BY StepKindsOf DEF TablesOK, MemoryOK
<1>2. PICK owner : SoundRefs(owner)
  BY StepKindsOf
<1>3. ASSUME NEW id \in ObjectIds, PairAborts(id)
      PROVE  Capabilities!Next
  BY <1>1, <1>3, AbortIsAborted
<1>4. CASE \A id \in ObjectIds : Passes(id)
  <2>1. ASSUME NothingNew
        PROVE  Born' = Born
    BY <1>1, <1>4, <2>1, BornStays
  <2>2. ASSUME NothingNew, \A ref, R : Copies(ref, R)' = Copies(ref, R)
        PROVE  UNCHANGED Capabilities!vars
    BY <1>1, <2>1, <2>2, BagStays, BagsMove
  <2>3. ASSUME NothingNew, SlotsStay, QueuesStay
        PROVE  UNCHANGED Capabilities!vars
    BY <2>2, <2>3, ClassStays DEF Copies
  <2>4. CASE Still
    BY <2>3, <2>4, AlikeKeeps DEF Still
  <2>5. ASSUME NEW p \in ProcessIds, NEW N \in SUBSET ObjectIds, Creates(p, N)
        PROVE  [Capabilities!Next]_(Capabilities!vars)
    <3>1. CASE N # {}
      BY <1>1, <1>2, <2>5, <3>1, CreateMints
    <3>2. CASE N = {}
      <4>1. NothingNew
        BY <2>5, <3>2 DEF Creates, NothingNew
      <4>2. \A ref, R : Copies(ref, R)' = Copies(ref, R)
        BY <2>5, <3>2, ClassUncreated DEF Copies
      <4> QED
        BY <2>2, <4>1, <4>2
    <3> QED
      BY <3>1, <3>2
  <2>6. ASSUME NEW id \in ObjectIds, Destroys(id)
        PROVE  UNCHANGED Capabilities!vars
    BY <2>3, <2>6 DEF Destroys
  <2>7. ASSUME NEW p \in ProcessIds, Running(p), NEW source \in Slots, NEW s \in Slots, NEW rights,
               Duplicates(p, source, rights, s)
        PROVE  Capabilities!Next
    <3>1. NothingNew
      BY <2>7, AlikeKeeps DEF Duplicates
    <3> QED
      BY <1>1, <2>1, <2>7, <3>1, DuplicateDerives
  <2>8. ASSUME NEW p \in ProcessIds, Running(p), NEW S \in SUBSET Slots, NEW closed \in ObjectRefs,
               Closes(p, S, closed)
        PROVE  Capabilities!Next
    <3>1. NothingNew
      BY <2>8, AlikeKeeps DEF Closes
    <3> QED
      BY <1>1, <2>1, <2>8, <3>1, CloseDrops
  <2>9. ASSUME NEW p \in ProcessIds, NEW channel, NEW moved \in HandleLists,
               NEW id \in ObjectIds, NEW m \in MessageSlots, Sends(p, channel, moved, id, m)
        PROVE  UNCHANGED Capabilities!vars
    <3>1. \A ref, R : Copies(ref, R)' = Copies(ref, R)
      BY <1>1, <2>9, ClassSends DEF Copies
    <3> QED
      BY <2>2, <2>9, <3>1 DEF Sends
  <2>10. ASSUME NEW p \in ProcessIds, Running(p), NEW channel,
                NEW id \in ObjectIds, NEW m \in MessageSlots, Receives(p, channel, id, m)
         PROVE  UNCHANGED Capabilities!vars
    <3>1. \A ref, R : Copies(ref, R)' = Copies(ref, R)
      BY <1>1, <2>10, ClassReceives DEF Copies
    <3> QED
      BY <2>2, <2>10, <3>1 DEF Receives
  <2> QED
    BY <1>1, <2>4, <2>5, <2>6, <2>7, <2>8, <2>9, <2>10 DEF StepKinds
<1> QED
  BY <1>1, <1>3, <1>4, StepPasses

(* Send, receive, the calls on address spaces, the creates that fail and   *)
(* the host leave the capabilities to every object what they are.          *)
LEMMA TransfersMove ==
  ASSUME KernelOK, KernelOK', StepOK,
         \/ \E p \in ProcessIds :
              Running(p) /\ (Transfers(p) \/ SpaceCall(p) \/ CreateFails(p))
         \/ HostCall
  PROVE  AllCapabilities' = AllCapabilities /\ Born' = Born
<1>1. ASSUME NothingNew, \A ref, R : Copies(ref, R)' = Copies(ref, R),
             \A id \in ObjectIds : Passes(id)
      PROVE  AllCapabilities' = AllCapabilities /\ Born' = Born
  <2>1. Born' = Born
    BY <1>1, BornStays
  <2>2. \A r \in ObjectRefs : BagOf(r)' = BagOf(r)
    BY <1>1, BagStays
  <2> QED
    BY <2>1, <2>2, BagsMove
<1>2. ASSUME NothingNew, SlotsStay, QueuesStay, \A id \in ObjectIds : Passes(id)
      PROVE  AllCapabilities' = AllCapabilities /\ Born' = Born
  BY <1>1, <1>2, ClassStays DEF Copies
<1>3. ASSUME Still, \A id \in ObjectIds : Passes(id)
      PROVE  AllCapabilities' = AllCapabilities /\ Born' = Born
  BY <1>2, <1>3, AlikeKeeps DEF Still
<1>4. ASSUME NEW p \in ProcessIds, Running(p), Transfers(p)
      PROVE  NothingNew /\ \A ref, R : Copies(ref, R)' = Copies(ref, R)
  <2>1. ASSUME NEW channel \in Slots, NEW moved \in HandleLists, ChannelSend(p, channel, moved)
        PROVE  NothingNew /\ \A ref, R : Copies(ref, R)' = Copies(ref, R)
    <3>1. PICK id \in ObjectIds, m \in MessageSlots : Sends(p, channel, moved, id, m)
      BY <1>4, <2>1, SendEffect
    <3>2. \A ref, R : Copies(ref, R)' = Copies(ref, R)
      BY <3>1, ClassSends DEF Copies
    <3> QED
      BY <3>1, <3>2 DEF Sends
  <2>2. ASSUME NEW channel \in Slots, ChannelRecv(p, channel)
        PROVE  NothingNew /\ \A ref, R : Copies(ref, R)' = Copies(ref, R)
    <3>1. PICK id \in ObjectIds, m \in MessageSlots : Receives(p, channel, id, m)
      BY <1>4, <2>2, RecvEffect
    <3>2. \A ref, R : Copies(ref, R)' = Copies(ref, R)
      BY <1>4, <3>1, ClassReceives DEF Copies
    <3> QED
      BY <3>1, <3>2 DEF Receives
  <2> QED
    BY <1>4, <2>1, <2>2 DEF Transfers
<1>5. ASSUME NEW p \in ProcessIds, Running(p), Transfers(p) \/ SpaceCall(p) \/ CreateFails(p)
      PROVE  AllCapabilities' = AllCapabilities /\ Born' = Born
  <2>1. CASE Transfers(p)
    BY <1>1, <1>4, <1>5, <2>1, ChannelCallPasses
  <2>2. CASE SpaceCall(p)
    BY <1>3, <1>5, <2>2, SpaceCallStill, SpaceCallPasses
  <2>3. CASE CreateFails(p)
    <3>1. Still
      BY <1>5, <2>3, FailureStill DEF CreateFails
    <3>2. \A id \in ObjectIds : Passes(id)
      BY <1>5, <2>3, ObjectCallPasses, ChannelCallPasses DEF CreateFails, ObjectCall
    <3> QED
      BY <1>3, <3>1, <3>2
  <2> QED
    BY <1>5, <2>1, <2>2, <2>3
<1>6. ASSUME HostCall
      PROVE  AllCapabilities' = AllCapabilities /\ Born' = Born
  <2>1. \A id \in ObjectIds : Passes(id)
    BY <1>6, HostPasses
  <2>2. ASSUME NEW id \in ObjectIds, DestroyObject(id)
        PROVE  AllCapabilities' = AllCapabilities /\ Born' = Born
    <3>1. Destroys(id)
      BY <2>2, DestroyEffect
    <3> QED
      BY <1>2, <2>1, <3>1 DEF Destroys
  <2>3. ASSUME NEW id \in ObjectIds, NEW state \in {"Unsignaled", "Signaled"}, SetEvent(id, state)
        PROVE  AllCapabilities' = AllCapabilities /\ Born' = Born
    BY <1>3, <2>1, <2>3, EventEffect
  <2> QED
    BY <1>6, <2>2, <2>3 DEF HostCall
<1> QED
  BY <1>5, <1>6

(* A duplicate adds the capability asked for, a close and a revocation     *)
(* take those of the handles they close.                                   *)
LEMMA CallsDoAsTheySay ==
  ASSUME TablesOK, TablesOK', StepOK, EveryEntryNameable, NEW p \in ProcessIds, Running(p),
         NEW was, was = AllCapabilities, NEW is, is = AllCapabilities'
  PROVE  DuplicateAddsOne(p, was, is) /\ CloseTakesOne(p, was, is) /\ RevokeTakesAll(p, was, is)
<1>1. KernelOK /\ KernelOK' /\ DerivedRightsShrink
  BY ChildrenAgree DEF TablesOK, MemoryOK, AccountsOK, LinksOK, ReferencesOK
<1>2. ASSUME ObjectCall(p), NothingNew
      PROVE  Born' = Born
  BY <1>1, <1>2, ObjectCallPasses, BornStays
<1>3. ASSUME NEW source \in Slots, NEW rights \in RightsChoices, DuplicateHandle(p, source, rights)
      PROVE  Capabilities!Derive(was, is, Handles(p).entry[source].object,
                                 Handles(p).entry[source].rights, rights)
  <2>1. PICK s \in Slots : Duplicates(p, source, rights, s)
    BY <1>1, <1>3, DuplicateEffect
  <2>2. Born' = Born
    BY <1>2, <1>3, <2>1, AlikeKeeps DEF ObjectCall, Duplicates
  <2>3. At(p, source) = Handles(p).entry[source]
    BY DEF At
  <2> QED
    BY <1>1, <2>1, <2>2, <2>3, DuplicateDerives
<1>4. ASSUME NEW i \in Slots, CloseHandle(p, i)
      PROVE  Capabilities!Drop(was, is, Handles(p).entry[i].object, RightsAt(p, {i}))
  <2>1. PICK S \in SUBSET Slots, ref \in ObjectRefs :
          Closes(p, S, ref) /\ S = {i} /\ ref = Handles(p).entry[i].object
    BY <1>1, <1>4, CloseHandleCloses
  <2>2. Born' = Born
    BY <1>2, <1>4, <2>1, AlikeKeeps DEF ObjectCall, Closes
  <2> QED
    BY <1>1, <2>1, <2>2, CloseDrops
<1>5. ASSUME NEW root \in Slots, RevokeDescendants(p, root)
      PROVE  Capabilities!Drop(was, is, Handles(p).entry[root].object,
                               RightsAt(p, Revocable(p, root)))
  <2>1. PICK S \in SUBSET Slots, ref \in ObjectRefs :
          /\ Closes(p, S, ref) /\ S = ClosedByRevoke(p, root)
          /\ ref = Handles(p).entry[root].object
    BY <1>1, <1>5, RevokeCloses
  <2>2. Born' = Born
    BY <1>2, <1>5, <2>1, AlikeKeeps DEF ObjectCall, Closes
  <2>3. ClosedByRevoke(p, root) = Revocable(p, root)
    BY <1>5, RevokesAll DEF RevokeIsComplete, RevokeDescendants, TablesOK
  <2> QED
    BY <1>1, <2>1, <2>2, <2>3, CloseDrops
<1> QED
  BY <1>3, <1>4, <1>5 DEF DuplicateAddsOne, CloseTakesOne, RevokeTakesAll

(* What the second half of ImplementsCapabilities says of a step.          *)
LEMMA StepCalls ==
  ASSUME TablesOK, TablesOK', [Next]_vars, EveryEntryNameable
  PROVE  \E was \in {AllCapabilities}, is \in {AllCapabilities'} :
           /\ \A p \in ProcessIds : Running(p) =>
                /\ DuplicateAddsOne(p, was, is)
                /\ CloseTakesOne(p, was, is)
                /\ RevokeTakesAll(p, was, is)
                /\ Transfers(p) \/ SpaceCall(p) \/ CreateFails(p) => Capabilities!Move(was, is)
           /\ HostCall => Capabilities!Move(was, is)
<1>1. KernelOK /\ KernelOK' /\ StepOK
  BY StepKindsOf DEF TablesOK, MemoryOK
<1>2. PICK was, is : was = AllCapabilities /\ is = AllCapabilities'
  OBVIOUS
<1>3. ASSUME NEW p \in ProcessIds, Running(p)
      PROVE  /\ DuplicateAddsOne(p, was, is)
             /\ CloseTakesOne(p, was, is)
             /\ RevokeTakesAll(p, was, is)
  BY <1>1, <1>2, <1>3, CallsDoAsTheySay
<1>4. ASSUME NEW p \in ProcessIds, Running(p), Transfers(p) \/ SpaceCall(p) \/ CreateFails(p)
      PROVE  Capabilities!Move(was, is)
  BY <1>1, <1>2, <1>4, TransfersMove DEF Capabilities!Move
<1>5. ASSUME HostCall
      PROVE  Capabilities!Move(was, is)
  BY <1>1, <1>2, <1>5, TransfersMove DEF Capabilities!Move
<1> QED
  BY <1>2, <1>3, <1>4, <1>5

(* The kernel starts where the contract does.                              *)
LEMMA InitCapabilities == Init => TablesOK /\ Capabilities!Init
<1> SUFFICES ASSUME Init PROVE TablesOK /\ Capabilities!Init
  OBVIOUS
<1>1. TablesOK /\ KernelOK
  BY InitTables, InitWellFormed
<1>2. Born = {}
  BY DEF Init, Born, Live, ObjectRefs
<1>3. ASSUME NEW ref \in ObjectRefs
      PROVE  BagOf(ref) = Capabilities!EmptyBag
  <2>1. ASSUME NEW R
        PROVE  Copies(ref, R) = 0
    <3>1. HeldOf(Class(ref, R)) = {} /\ CarriedOf(Class(ref, R)) = {}
      BY DEF Init, HeldOf, CarriedOf, At, Running, Queue, IsEndpoint
    <3> QED
      BY <3>1, FS_EmptySet DEF Copies, CountOf
  <2> QED
    BY <2>1 DEF BagOf, Capabilities!EmptyBag, Capabilities!SetToBag
<1>4. AllCapabilities = [ref \in ObjectRefs |-> Capabilities!EmptyBag]
  BY <1>1, <1>3, BagsAre
<1> QED
  BY <1>1, <1>2, <1>4 DEF Capabilities!Init

(* No sequence of calls makes, widens, loses or doubles a capability but   *)
(* by creating an object, deriving a copy that is no wider from one that   *)
(* may be copied, or dropping capabilities to one object.                  *)
THEOREM CapabilitiesAreRefined == Spec => Capabilities!Spec
<1>1. TablesOK /\ [Next]_vars => TablesOK'
  BY StepTables
<1>2. TablesOK /\ TablesOK' /\ [Next]_vars => [Capabilities!Next]_(Capabilities!vars)
  BY StepCapabilities
<1> QED
  BY InitCapabilities, <1>1, <1>2, PTL DEF Spec, Capabilities!Spec

(* And each call does to them what its name says: a duplicate adds the one *)
(* asked for, a close and a revocation take away those of the handles they *)
(* are to close, all of them and no other, send_channel_message and        *)
(* recv_channel_message take away none and add none, however many handles  *)
(* a message carries and whichever they are, and neither does a call on an *)
(* address space, a create call that fails or the host.  A revocation      *)
(* finds all descendants only while every handle value still passes        *)
(* valid_entry, until the 32 bits of a generation wrap.                    *)
THEOREM CapabilitiesAreKept == Spec => ([]EveryEntryNameable => ImplementsCapabilities)
<1>1. Init => TablesOK
  BY InitTables
<1>2. TablesOK /\ [Next]_vars => TablesOK'
  BY StepTables
<1> DEFINE Step ==
      \E was \in {AllCapabilities}, is \in {AllCapabilities'} :
        /\ \A p \in ProcessIds : Running(p) =>
             /\ DuplicateAddsOne(p, was, is)
             /\ CloseTakesOne(p, was, is)
             /\ RevokeTakesAll(p, was, is)
             /\ Transfers(p) \/ SpaceCall(p) \/ CreateFails(p) => Capabilities!Move(was, is)
        /\ HostCall => Capabilities!Move(was, is)
<1>3. TablesOK /\ TablesOK' /\ EveryEntryNameable /\ [Next]_vars => Step
  BY StepCalls
<1>4. ImplementsCapabilities <=> Capabilities!Spec /\ [][Step]_vars
  BY DEF ImplementsCapabilities
<1> HIDE DEF Step
<1>5. Spec => ([]EveryEntryNameable => [][Step]_vars)
  BY <1>1, <1>2, <1>3, PTL DEF Spec
<1> QED
  BY <1>4, <1>5, CapabilitiesAreRefined

=============================================================================
