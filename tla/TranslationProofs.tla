--------------------------- MODULE TranslationProofs ---------------------------
(***************************************************************************)
(* Why the intents are enough: carried out in the order the kernel gave    *)
(* them, whatever happens in between, they leave the page tables that the  *)
(* mappings call for, and no CPU keeps a translation that is wrong unless  *)
(* its invalidation is still to come.                                      *)
(*                                                                         *)
(* The invariant follows the page tables through the intents in flight to  *)
(* the last one: whatever an address maps to on the way, and a CPU may     *)
(* pick up, is right or is owed an invalidation that comes later.          *)
(***************************************************************************)
EXTENDS Translation, KernelMemory

Contents == [frame : Int, rights : SUBSET MappingRights] \cup {None}

PageTables == [ObjectRefs -> [VirtualPages -> Contents]]

Intents ==
  [kind : {"Map"}, space : ObjectRefs, to : UNION {[P -> Contents] : P \in SUBSET Int}]
    \cup [kind : {"Unmap"}, space : ObjectRefs, pages : SUBSET Int]
    \cup [kind : {"Invalidate"}, space : ObjectRefs, pages : SUBSET Int, target : {AllActive}]

(* What a page maps to once an intent is carried out.                      *)
After(intent, ref, page, before) ==
  IF intent.kind = "Map" /\ ref = intent.space /\ page \in DOMAIN intent.to
  THEN intent.to[page]
  ELSE IF intent.kind = "Unmap" /\ ref = intent.space /\ page \in intent.pages
  THEN None
  ELSE before

(* Pages are numbered.                                                     *)
LEMMA PagesAreInts == VirtualPages \subseteq Int
BY AddressSpaceAssumption DEF VirtualPages

(* Updated, page by page.                                                  *)
LEMMA UpdatedTables ==
  ASSUME NEW t \in PageTables, NEW intent \in Intents
  PROVE  /\ Updated(t, intent) \in PageTables
         /\ \A ref \in ObjectRefs, page \in VirtualPages :
              Updated(t, intent)[ref][page] = After(intent, ref, page, t[ref][page])
<1>1. CASE intent.kind = "Map"
  <2> DEFINE new == [page \in VirtualPages |->
                       IF page \in DOMAIN intent.to THEN intent.to[page]
                       ELSE t[intent.space][page]]
  <2>1. Updated(t, intent) = [t EXCEPT ![intent.space] = new]
    BY <1>1 DEF Updated
  <2>2. intent.space \in ObjectRefs
    BY DEF Intents
  <2>3. \A page \in DOMAIN intent.to : intent.to[page] \in Contents
    <3>1. intent.to \in UNION {[P -> Contents] : P \in SUBSET Int}
      BY <1>1 DEF Intents
    <3>2. PICK P \in SUBSET Int : intent.to \in [P -> Contents]
      BY <3>1
    <3> QED
      BY <3>2
  <2>4. new \in [VirtualPages -> Contents]
    BY <2>2, <2>3 DEF PageTables
  <2>5. ASSUME NEW ref \in ObjectRefs, NEW page \in VirtualPages
        PROVE  Updated(t, intent)[ref][page] = After(intent, ref, page, t[ref][page])
    BY <1>1, <2>1, <2>2 DEF PageTables, After
  <2>6. Updated(t, intent) \in PageTables
    BY <2>1, <2>4 DEF PageTables
  <2> QED
    BY <2>5, <2>6
<1>2. CASE intent.kind = "Unmap"
  <2> DEFINE new == [page \in VirtualPages |->
                       IF page \in intent.pages THEN None ELSE t[intent.space][page]]
  <2>1. Updated(t, intent) = [t EXCEPT ![intent.space] = new]
    BY <1>2 DEF Updated
  <2>2. intent.space \in ObjectRefs
    BY DEF Intents
  <2>3. new \in [VirtualPages -> Contents]
    BY <2>2 DEF PageTables, Contents
  <2>4. ASSUME NEW ref \in ObjectRefs, NEW page \in VirtualPages
        PROVE  Updated(t, intent)[ref][page] = After(intent, ref, page, t[ref][page])
    BY <1>2, <2>1, <2>2 DEF PageTables, After
  <2>5. Updated(t, intent) \in PageTables
    BY <2>1, <2>3 DEF PageTables
  <2> QED
    BY <2>4, <2>5
<1>3. CASE intent.kind = "Invalidate"
  BY <1>3 DEF Updated, After
<1>4. intent.kind \in {"Map", "Unmap", "Invalidate"}
  BY DEF Intents
<1> QED
  BY <1>1, <1>2, <1>3, <1>4

-----------------------------------------------------------------------------
(* What an address space calls for and still owes.                         *)

(* The slots of the address space a reference names, none if it is gone.   *)
View(ref, i) == IF ref.generation = generations[ref.id] THEN MappingAt(ref.id, i) ELSE None

Due(ref, j) == IF ref.generation = generations[ref.id] THEN WorkAt(ref.id, j) ELSE None

(* What a mapping makes of one of its pages.                               *)
Mapping(m, page) ==
  [frame |-> Extent(m.memory.id).start + m.offset + (page - m.base), rights |-> m.rights]

(* Intended, page by page.                                                 *)
IntendedOK(ref) ==
  /\ Intended(ref) = [page \in VirtualPages |-> Intended(ref)[page]]
  /\ \A i \in RangeSlots, page \in VirtualPages :
       View(ref, i) # None /\ page \in Span(View(ref, i)) =>
         Intended(ref)[page] = Mapping(View(ref, i), page)
  /\ \A page \in VirtualPages :
       (\A i \in RangeSlots : View(ref, i) # None => page \notin Span(View(ref, i))) =>
         Intended(ref)[page] = None

TablesIntended == \A ref \in ObjectRefs : IntendedOK(ref)

(* Ranges that do not overlap say one thing of a page.                     *)
LEMMA IntendedIs == KernelOK => TablesIntended
<1> SUFFICES ASSUME KernelOK, NEW ref \in ObjectRefs PROVE IntendedOK(ref)
  BY DEF TablesIntended
<1> DEFINE here == IF Valid(ref, "AddressSpace")
                   THEN LET space == objects[ref.id].payload
                        IN  {space.mappings[i] : i \in Mapped(space)}
                   ELSE {}
           at(page) == {m \in here : page \in Span(m)}
<1>1. ref.id \in ObjectIds
  BY DEF ObjectRefs
<1>2. here = {View(ref, i) : i \in {k \in RangeSlots : View(ref, k) # None}}
  <2>1. CASE Valid(ref, "AddressSpace")
    <3>1. IsSpace(ref.id) /\ ref.generation = generations[ref.id]
      BY <2>1 DEF Valid, Live, IsSpace
    <3> QED
      BY <2>1, <3>1 DEF View, MappingAt, Mapped
  <2>2. CASE ~Valid(ref, "AddressSpace")
    <3>1. \A k \in RangeSlots : View(ref, k) = None
      BY <2>2 DEF View, MappingAt, IsSpace, Valid, Live
    <3> QED
      BY <2>2, <3>1
  <2> QED
    BY <2>1, <2>2
<1>3. Intended(ref) = [page \in VirtualPages |->
                         IF at(page) = {} THEN None ELSE Mapping(CHOOSE m \in at(page) : TRUE, page)]
  BY DEF Intended, Mapping, Extent
<1> HIDE DEF here
<1>4. ASSUME NEW i \in RangeSlots, NEW k \in RangeSlots, NEW page \in VirtualPages,
             View(ref, i) # None, View(ref, k) # None,
             page \in Span(View(ref, i)), page \in Span(View(ref, k))
      PROVE  i = k
  <2>1. LedgerOK(ref.id)
    BY <1>1, LedgerParts DEF LedgersOK
  <2>2. View(ref, i) = MappingAt(ref.id, i) /\ View(ref, k) = MappingAt(ref.id, k)
    BY <1>4 DEF View
  <2>3. i # k => ~Overlaps(MappingAt(ref.id, i), MappingAt(ref.id, k))
    BY <1>4, <2>1, <2>2 DEF LedgerOK
  <2>4. MappingAt(ref.id, i) \in Mappings /\ MappingAt(ref.id, k) \in Mappings
    BY <1>1, <1>4, <2>2, UseTypes
  <2> QED
    BY <1>4, <2>2, <2>3, <2>4 DEF Span, Overlaps, EndOf, Mappings
<1>5. ASSUME NEW i \in RangeSlots, NEW page \in VirtualPages,
             View(ref, i) # None, page \in Span(View(ref, i))
      PROVE  Intended(ref)[page] = Mapping(View(ref, i), page)
  <2>1. View(ref, i) \in at(page)
    BY <1>2, <1>5
  <2>2. \A m \in at(page) : m = View(ref, i)
    BY <1>2, <1>4, <1>5
  <2>3. (CHOOSE m \in at(page) : TRUE) = View(ref, i)
    BY <2>1, <2>2
  <2> QED
    BY <1>3, <2>1, <2>3
<1>6. ASSUME NEW page \in VirtualPages,
             \A i \in RangeSlots : View(ref, i) # None => page \notin Span(View(ref, i))
      PROVE  Intended(ref)[page] = None
  <2>1. at(page) = {}
    BY <1>2, <1>6
  <2> QED
    BY <1>3, <2>1
<1>7. Intended(ref) = [page \in VirtualPages |-> Intended(ref)[page]]
  BY <1>3
<1> QED
  BY <1>5, <1>6, <1>7 DEF IntendedOK

(* Owes, slot by slot.                                                     *)
OwesOK ==
  \A ref \in ObjectRefs : \A page, frame :
    Owes(ref, page, frame) <=>
      \E j \in WorkSlots :
        /\ Due(ref, j) # None /\ page \in Span(Due(ref, j))
        /\ frames[frame].owner = Due(ref, j).memory

(* A reference that is not valid owes nothing either way.                  *)
LEMMA OwesIs == OwesOK
<1> SUFFICES ASSUME NEW ref \in ObjectRefs, NEW page, NEW frame
             PROVE  Owes(ref, page, frame) <=>
                      \E j \in WorkSlots :
                        /\ Due(ref, j) # None /\ page \in Span(Due(ref, j))
                        /\ frames[frame].owner = Due(ref, j).memory
  BY DEF OwesOK
<1>1. CASE Valid(ref, "AddressSpace")
  <2>1. IsSpace(ref.id) /\ ref.generation = generations[ref.id]
    BY <1>1 DEF Valid, Live, IsSpace
  <2> QED
    BY <1>1, <2>1 DEF Owes, Due, WorkAt, Owed
<1>2. CASE ~Valid(ref, "AddressSpace")
  <2>1. \A j \in WorkSlots : Due(ref, j) = None
    BY <1>2 DEF Due, WorkAt, IsSpace, Valid, Live
  <2> QED
    BY <1>2, <2>1 DEF Owes
<1> QED
  BY <1>1, <1>2

-----------------------------------------------------------------------------
(* What a call leaves of them.                                             *)

(* No call renames an address space that maps or owes anything.            *)
LEMMA CallsKeepNames ==
  ASSUME MemoryKinds
  PROVE  GenerationsFree
BY DEF MemoryKinds, Idle, MakesMemory, Maps, Unmaps, GoesOn, Drops, Reclaims, IsReclaimed,
       GenerationsFree

(* A slot that is occupied after a call is one of the same address space.  *)
LEMMA ViewAfter ==
  ASSUME GenerationsFree, NEW ref \in ObjectRefs
  PROVE  /\ \A i \in RangeSlots :
              MappingAt(ref.id, i)' = MappingAt(ref.id, i) => View(ref, i)' = View(ref, i)
         /\ \A j \in WorkSlots :
              WorkAt(ref.id, j)' = WorkAt(ref.id, j) => Due(ref, j)' = Due(ref, j)
<1>1. ref.id \in ObjectIds
  BY DEF ObjectRefs
<1>2. IsSpace(ref.id)' => generations'[ref.id] = generations[ref.id]
  BY <1>1 DEF GenerationsFree, IsSpace
<1>3. ASSUME NEW i \in RangeSlots, MappingAt(ref.id, i)' = MappingAt(ref.id, i)
      PROVE  View(ref, i)' = View(ref, i)
  BY <1>2, <1>3 DEF View, MappingAt
<1>4. ASSUME NEW j \in WorkSlots, WorkAt(ref.id, j)' = WorkAt(ref.id, j)
      PROVE  Due(ref, j)' = Due(ref, j)
  BY <1>2, <1>4 DEF Due, WorkAt
<1> QED
  BY <1>3, <1>4

(* Memory that is still in use after a call was not reclaimed by it.       *)
LEMMA UsedStays ==
  ASSUME TablesOK, TablesOK', MemoryKinds, NEW ref \in ObjectRefs, Used(ref), Used(ref)'
  PROVE  /\ IsMemory(ref.id) /\ ref = RefTo(ref.id)
         /\ Extent(ref.id)' = Extent(ref.id)
         /\ \A f \in Pages : frames[f].owner = ref => frames'[f].owner = ref
<1>1. /\ IsMemory(ref.id) /\ ref = RefTo(ref.id) /\ ref.id \in ObjectIds
      /\ objects'[ref.id] # None
  <2>1. Valid(ref, "MemoryObject") /\ Valid(ref, "MemoryObject")'
    BY DEF TablesOK, MemoryOK, UsesValid
  <2> QED
    BY <2>1 DEF Valid, Live, IsMemory, RefTo, ObjectRefs
<1>2. ASSUME NEW f \in Pages, frames'[f] = frames[f]
      PROVE  frames[f].owner = ref => frames'[f].owner = ref
  BY <1>2
<1>3. MemoryStays(ref.id) => Extent(ref.id)' = Extent(ref.id)
  BY <1>1 DEF MemoryStays, Extent
<1>4. ASSUME NEW id \in ObjectIds, NEW n, GoesOn(id, n)
      PROVE  /\ Extent(ref.id)' = Extent(ref.id)
             /\ \A f \in Pages : frames[f].owner = ref => frames'[f].owner = ref
  BY <1>1, <1>3, <1>4 DEF GoesOn
<1>5. ASSUME NEW id \in ObjectIds, IsReclaimed(id)
      PROVE  /\ Extent(ref.id)' = Extent(ref.id)
             /\ \A f \in Pages : frames[f].owner = ref => frames'[f].owner = ref
  <2>1. ref.id # id /\ IsMemory(id) /\ frames' = Release(frames, PagesOf(Extent(id)))
    BY <1>1, <1>5 DEF IsReclaimed
  <2>2. Extent(ref.id)' = Extent(ref.id)
    BY <1>1, <1>3, <1>5, <2>1 DEF IsReclaimed
  <2>3. ASSUME NEW f \in Pages, frames[f].owner = ref
        PROVE  frames'[f].owner = ref
    <3>1. f \notin PagesOf(Extent(id))
      <4>1. OwnsRange(frames, Extent(id), RefTo(id))
        BY <2>1 DEF TablesOK, MemoryOK, FramesBacked
      <4>2. RefTo(id).id = id
        BY DEF RefTo
      <4> QED
        BY <2>1, <2>3, <4>1, <4>2 DEF OwnsRange
    <3> QED
      BY <2>1, <2>3, <3>1 DEF Release
  <2> QED
    BY <2>2, <2>3
<1>6. ASSUME NEW id \in ObjectIds, NEW range \in FrameRanges, MakesMemory(id, range)
      PROVE  /\ Extent(ref.id)' = Extent(ref.id)
             /\ \A f \in Pages : frames[f].owner = ref => frames'[f].owner = ref
  <2>1. ref.id # id /\ PagesOf(range) \subseteq Free(frames) /\ ref # None
    BY <1>1, <1>6, NoneIsNoRef DEF MakesMemory, IsMemory
  <2>2. Extent(ref.id)' = Extent(ref.id)
    BY <1>1, <1>3, <1>6, <2>1 DEF MakesMemory
  <2>3. ASSUME NEW f \in Pages, frames[f].owner = ref
        PROVE  frames'[f].owner = ref
    <3>1. f \notin PagesOf(range)
      BY <2>1, <2>3 DEF Free
    <3>2. frames' = Grant(frames, PagesOf(range), RefTo(id))
      BY <1>6 DEF MakesMemory
    <3> QED
      BY <2>3, <3>1, <3>2 DEF Grant
  <2> QED
    BY <2>2, <2>3
<1>7. ASSUME MemoriesStay, UNCHANGED frames
      PROVE  /\ Extent(ref.id)' = Extent(ref.id)
             /\ \A f \in Pages : frames[f].owner = ref => frames'[f].owner = ref
  BY <1>1, <1>3, <1>7 DEF MemoriesStay
<1>8. /\ Extent(ref.id)' = Extent(ref.id)
      /\ \A f \in Pages : frames[f].owner = ref => frames'[f].owner = ref
  <2>1. ASSUME Idle \/ \E s \in ObjectIds, i \in RangeSlots, j \in WorkSlots, work \in Invalidations :
                         Unmaps(s, i, j, work)
        PROVE  MemoriesStay /\ UNCHANGED frames
    BY <2>1 DEF Idle, Unmaps
  <2>2. ASSUME \/ \E s, id \in ObjectIds, i \in RangeSlots, mapping \in Mappings : Maps(s, i, id, mapping)
               \/ \E s, id \in ObjectIds, j \in WorkSlots : Drops(s, j, id)
        PROVE  \E id \in ObjectIds : IsReclaimed(id) \/ \E n : GoesOn(id, n)
    BY <2>2 DEF Maps, Drops
  <2>3. ASSUME NEW id \in ObjectIds, Reclaims(id)
        PROVE  IsReclaimed(id)
    BY <2>3 DEF Reclaims
  <2> QED
    BY <1>4, <1>5, <1>6, <1>7, <2>1, <2>2, <2>3 DEF MemoryKinds
<1> QED
  BY <1>1, <1>8

(* A mapping that stays says of its pages what it said before.             *)
LEMMA MappingStays ==
  ASSUME TablesOK, TablesOK', MemoryKinds, NEW ref \in ObjectRefs, NEW i \in RangeSlots,
         View(ref, i) # None, View(ref, i)' = View(ref, i)
  PROVE  \A page : Mapping(View(ref, i), page)' = Mapping(View(ref, i), page)
<1>1. PICK m : m = View(ref, i)
  OBVIOUS
<1>2. ref.id \in ObjectIds /\ MappingAt(ref.id, i) = m /\ MappingAt(ref.id, i)' = m /\ m # None
  BY <1>1 DEF View, ObjectRefs
<1>3. m.memory \in ObjectRefs
  BY <1>2, UseTypes DEF TablesOK, MemoryOK, Mappings
<1>4. Used(m.memory) /\ Used(m.memory)'
  <2>1. <<ref.id, i>> \in MappedPlaces(m.memory) /\ <<ref.id, i>> \in MappedPlaces(m.memory)'
    BY <1>2 DEF MappedPlaces
  <2> QED
    BY <2>1 DEF Used
<1>5. Extent(m.memory.id)' = Extent(m.memory.id)
  BY <1>3, <1>4, UsedStays
<1> QED
  BY <1>1, <1>5 DEF Mapping

(* What is owed for a frame is still owed if its invalidation stays.       *)
LEMMA OwesStays ==
  ASSUME TablesOK, TablesOK', MemoryKinds, NEW ref \in ObjectRefs, NEW page, NEW frame \in Pages,
         NEW j \in WorkSlots, Due(ref, j) # None, page \in Span(Due(ref, j)),
         frames[frame].owner = Due(ref, j).memory, Due(ref, j)' = Due(ref, j)
  PROVE  Owes(ref, page, frame)'
<1>1. PICK w : w = Due(ref, j)
  OBVIOUS
<1>2. ref.id \in ObjectIds /\ WorkAt(ref.id, j) = w /\ WorkAt(ref.id, j)' = w /\ w # None
  BY <1>1 DEF Due, ObjectRefs
<1>3. w.memory \in ObjectRefs
  BY <1>2, UseTypes DEF TablesOK, MemoryOK, Invalidations
<1>4. Used(w.memory) /\ Used(w.memory)'
  <2>1. <<ref.id, j>> \in OwedPlaces(w.memory) /\ <<ref.id, j>> \in OwedPlaces(w.memory)'
    BY <1>2 DEF OwedPlaces
  <2> QED
    BY <2>1 DEF Used
<1>5. frames'[frame].owner = w.memory
  BY <1>1, <1>3, <1>4, UsedStays
<1>6. OwesOK'
  BY OwesIs, PTL
<1>7. Due(ref, j)' # None /\ page \in Span(Due(ref, j)') /\ frames'[frame].owner = Due(ref, j)'.memory
  BY <1>1, <1>5
<1> QED
  BY <1>6, <1>7 DEF OwesOK

(* Both sides of a call.                                                   *)
LEMMA BothIntended ==
  ASSUME KernelOK, KernelOK', NEW ref \in ObjectRefs
  PROVE  IntendedOK(ref) /\ IntendedOK(ref)'
<1>1. (KernelOK => TablesIntended)'
  BY IntendedIs, PTL
<1> QED
  BY <1>1, IntendedIs DEF TablesIntended

(* A page that is served by a slot no call touched is served as before.    *)
LEMMA PageStays ==
  ASSUME TablesOK, TablesOK', MemoryKinds, NEW ref \in ObjectRefs, NEW page \in VirtualPages,
         \A i \in RangeSlots :
           \/ View(ref, i)' = View(ref, i)
           \/ /\ View(ref, i) # None => page \notin Span(View(ref, i))
              /\ View(ref, i)' # None => page \notin Span(View(ref, i)')
  PROVE  Intended(ref)'[page] = Intended(ref)[page]
<1>1. IntendedOK(ref) /\ IntendedOK(ref)'
  BY BothIntended DEF TablesOK, MemoryOK
<1>2. CASE \E i \in RangeSlots : View(ref, i) # None /\ page \in Span(View(ref, i))
  <2>1. PICK i \in RangeSlots : View(ref, i) # None /\ page \in Span(View(ref, i))
    BY <1>2
  <2>2. View(ref, i)' = View(ref, i)
    BY <2>1
  <2>3. Intended(ref)[page] = Mapping(View(ref, i), page)
    BY <1>1, <2>1 DEF IntendedOK
  <2>4. Intended(ref)'[page] = Mapping(View(ref, i), page)'
    BY <1>1, <2>1, <2>2 DEF IntendedOK
  <2>5. Mapping(View(ref, i), page)' = Mapping(View(ref, i), page)
    BY <2>1, <2>2, MappingStays
  <2> QED
    BY <2>3, <2>4, <2>5
<1>3. CASE ~\E i \in RangeSlots : View(ref, i) # None /\ page \in Span(View(ref, i))
  <2>1. ~\E i \in RangeSlots : View(ref, i)' # None /\ page \in Span(View(ref, i)')
    BY <1>3
  <2>2. Intended(ref)[page] = None
    BY <1>1, <1>3 DEF IntendedOK
  <2>3. Intended(ref)'[page] = None
    BY <1>1, <2>1 DEF IntendedOK
  <2> QED
    BY <2>2, <2>3
<1> QED
  BY <1>2, <1>3

(* A call that changes no mapping changes no intended page table.          *)
LEMMA IntendedStays ==
  ASSUME TablesOK, TablesOK', MemoryKinds, MappingsStay, NEW ref \in ObjectRefs
  PROVE  Intended(ref)' = Intended(ref)
<1>1. \A i \in RangeSlots : View(ref, i)' = View(ref, i)
  BY CallsKeepNames, ViewAfter DEF MappingsStay, ObjectRefs
<1>2. \A page \in VirtualPages : Intended(ref)'[page] = Intended(ref)[page]
  BY <1>1, PageStays
<1>3. IntendedOK(ref) /\ IntendedOK(ref)'
  BY BothIntended DEF TablesOK, MemoryOK
<1> QED
  BY <1>2, <1>3 DEF IntendedOK

(* A call that takes no invalidation owes what was owed.                   *)
LEMMA OwingStays ==
  ASSUME TablesOK, TablesOK', MemoryKinds,
         \A s \in ObjectIds, j \in WorkSlots : WorkAt(s, j) # None => WorkAt(s, j)' = WorkAt(s, j),
         NEW ref \in ObjectRefs, NEW page, NEW frame \in Pages, Owes(ref, page, frame)
  PROVE  Owes(ref, page, frame)'
<1>1. PICK j \in WorkSlots :
        /\ Due(ref, j) # None /\ page \in Span(Due(ref, j))
        /\ frames[frame].owner = Due(ref, j).memory
  BY OwesIs DEF OwesOK
<1>2. WorkAt(ref.id, j)' = WorkAt(ref.id, j)
  BY <1>1 DEF Due, ObjectRefs
<1>3. Due(ref, j)' = Due(ref, j)
  BY <1>2, CallsKeepNames, ViewAfter
<1> QED
  BY <1>1, <1>3, OwesStays

(* A map adds its translations where there were none.                      *)
LEMMA MapIntended ==
  ASSUME TablesOK, TablesOK', NEW s \in ObjectIds, NEW id \in ObjectIds, NEW i \in RangeSlots,
         NEW mapping \in Mappings, Maps(s, i, id, mapping),
         NEW ref \in ObjectRefs, NEW page \in VirtualPages
  PROVE  IF ref = RefTo(s) /\ page \in Span(mapping)
         THEN Intended(ref)[page] = None /\ Intended(ref)'[page] = Mapping(mapping, page)
         ELSE Intended(ref)'[page] = Intended(ref)[page]
<1>1. MemoryKinds
  BY DEF MemoryKinds
<1>2. /\ IsSpace(s) /\ MappingAt(s, i) = None /\ mapping # None /\ mapping.memory = RefTo(id)
      /\ \A t \in ObjectIds, k \in RangeSlots :
           MappingAt(t, k)' = IF t = s /\ k = i THEN mapping ELSE MappingAt(t, k)
  BY DEF Maps
<1>3. ref.id \in ObjectIds
  BY DEF ObjectRefs
<1>4. ASSUME NEW k \in RangeSlots, ~(ref.id = s /\ k = i)
      PROVE  View(ref, k)' = View(ref, k)
  BY <1>1, <1>2, <1>3, <1>4, CallsKeepNames, ViewAfter
<1>5. IsSpace(s)' /\ generations'[s] = generations[s]
  <2>1. MappingAt(s, i)' = mapping
    BY <1>2
  <2>2. IsSpace(s)'
    BY <1>2, <2>1 DEF MappingAt
  <2> QED
    BY <1>1, <2>2, CallsKeepNames DEF GenerationsFree, IsSpace
<1>6. CASE ref = RefTo(s)
  <2>1. ref.id = s /\ ref.generation = generations[s]
    BY <1>6 DEF RefTo
  <2>2. View(ref, i) = None /\ View(ref, i)' = mapping
    BY <1>2, <1>5, <2>1 DEF View
  <2>3. CASE page \in Span(mapping)
    <3>1. ASSUME NEW k \in RangeSlots, View(ref, k) # None
          PROVE  page \notin Span(View(ref, k))
      <4>1. k # i /\ MappingAt(s, k)' = MappingAt(s, k) /\ View(ref, k) = MappingAt(s, k)
        BY <1>2, <2>1, <2>2, <3>1 DEF View
      <4>2. LedgerOK(s)'
        <5>1. (KernelOK => LedgersOK)'
          BY LedgerParts, PTL
        <5> QED
          BY <5>1 DEF TablesOK, MemoryOK, LedgersOK
      <4>3. ~Overlaps(MappingAt(s, k)', MappingAt(s, i)')
        BY <1>2, <3>1, <4>1, <4>2 DEF LedgerOK
      <4>4. MappingAt(s, k) \in Mappings
        BY <3>1, <4>1, UseTypes DEF TablesOK, MemoryOK
      <4> QED
        BY <1>2, <2>3, <4>1, <4>3, <4>4, PagesAreInts DEF Span, Overlaps, EndOf, Mappings
    <3>2. Intended(ref)[page] = None
      BY <3>1, BothIntended DEF IntendedOK, TablesOK, MemoryOK
    <3>3. Intended(ref)'[page] = Mapping(mapping, page)'
      BY <1>2, <2>2, <2>3, BothIntended DEF IntendedOK, TablesOK, MemoryOK
    <3>4. Mapping(mapping, page)' = Mapping(mapping, page)
      <4>1. Extent(id)' = Extent(id) /\ mapping.memory.id = id
        BY <1>2 DEF Maps, GoesOn, RefTo
      <4> QED
        BY <4>1 DEF Mapping
    <3> QED
      BY <1>6, <2>3, <3>2, <3>3, <3>4
  <2>4. CASE page \notin Span(mapping)
    <3>1. \A k \in RangeSlots :
            \/ View(ref, k)' = View(ref, k)
            \/ /\ View(ref, k) # None => page \notin Span(View(ref, k))
               /\ View(ref, k)' # None => page \notin Span(View(ref, k)')
      BY <1>4, <2>2, <2>4
    <3> QED
      BY <1>1, <2>4, <3>1, PageStays
  <2> QED
    BY <2>3, <2>4
<1>7. CASE ref # RefTo(s)
  <2>1. ASSUME NEW k \in RangeSlots, ref.id = s
        PROVE  View(ref, k)' = View(ref, k)
    <3>1. ref.generation # generations[s]
      BY <1>7, <2>1 DEF RefTo, ObjectRefs
    <3> QED
      BY <1>5, <2>1, <3>1 DEF View
  <2>2. \A k \in RangeSlots : View(ref, k)' = View(ref, k)
    BY <1>4, <2>1
  <2> QED
    BY <1>1, <1>7, <2>2, PageStays
<1> QED
  BY <1>6, <1>7

(* An unmap takes its translations and owes an invalidation of them, while *)
(* the frames stay.                                                        *)
LEMMA UnmapIntended ==
  ASSUME TablesOK, TablesOK', NEW s \in ObjectIds, NEW i \in RangeSlots, NEW j \in WorkSlots,
         NEW work \in Invalidations, Unmaps(s, i, j, work),
         NEW ref \in ObjectRefs, NEW page \in VirtualPages
  PROVE  IF ref = RefTo(s) /\ page \in Span(work)
         THEN /\ Intended(ref)'[page] = None
              /\ \E frame \in Pages :
                   frame = Intended(ref)[page].frame /\ Owes(ref, page, frame)'
         ELSE Intended(ref)'[page] = Intended(ref)[page]
<1>1. MemoryKinds
  BY DEF MemoryKinds
<1>2. /\ MappingAt(s, i) # None /\ WorkAt(s, j) = None
      /\ work # None /\ work.memory = MappingAt(s, i).memory
      /\ work.base = MappingAt(s, i).base /\ work.size = MappingAt(s, i).size
      /\ \A t \in ObjectIds, k \in RangeSlots :
           MappingAt(t, k)' = IF t = s /\ k = i THEN None ELSE MappingAt(t, k)
      /\ \A t \in ObjectIds, k \in WorkSlots :
           WorkAt(t, k)' = IF t = s /\ k = j THEN work ELSE WorkAt(t, k)
      /\ UNCHANGED frames
  BY DEF Unmaps
<1>3. ref.id \in ObjectIds
  BY DEF ObjectRefs
<1>4. ASSUME NEW k \in RangeSlots, ~(ref.id = s /\ k = i)
      PROVE  View(ref, k)' = View(ref, k)
  BY <1>1, <1>2, <1>3, <1>4, CallsKeepNames, ViewAfter
<1>5. PICK m : m = MappingAt(s, i)
  OBVIOUS
<1>6. m \in Mappings /\ Span(work) = Span(m)
  BY <1>2, <1>5, UseTypes DEF TablesOK, MemoryOK, Span
<1>7. generations'[s] = generations[s]
  <2>1. IsSpace(s)'
    BY <1>2 DEF WorkAt
  <2> QED
    BY <1>1, <2>1, CallsKeepNames DEF GenerationsFree, IsSpace
<1>8. CASE ref = RefTo(s)
  <2>1. ref.id = s /\ ref.generation = generations[s]
    BY <1>8 DEF RefTo
  <2>2. View(ref, i) = m /\ View(ref, i)' = None /\ Due(ref, j)' = work
    BY <1>2, <1>5, <1>7, <2>1 DEF View, Due
  <2>3. CASE page \in Span(work)
    <3>1. ASSUME NEW k \in RangeSlots, View(ref, k)' # None
          PROVE  page \notin Span(View(ref, k)')
      <4>1. k # i /\ MappingAt(s, k)' = MappingAt(s, k) /\ View(ref, k)' = MappingAt(s, k)
        BY <1>2, <1>7, <2>1, <2>2, <3>1 DEF View
      <4>2. LedgerOK(s)
        BY LedgerParts DEF TablesOK, MemoryOK, LedgersOK
      <4>3. ~Overlaps(MappingAt(s, k), MappingAt(s, i))
        BY <1>2, <3>1, <4>1, <4>2 DEF LedgerOK
      <4>4. MappingAt(s, k) \in Mappings
        BY <3>1, <4>1, UseTypes DEF TablesOK, MemoryOK
      <4> QED
        BY <1>2, <1>5, <1>6, <2>3, <4>1, <4>3, <4>4, PagesAreInts DEF Span, Overlaps, EndOf, Mappings
    <3>2. Intended(ref)'[page] = None
      BY <3>1, BothIntended DEF IntendedOK, TablesOK, MemoryOK
    <3>3. Intended(ref)[page] = Mapping(m, page)
      BY <1>2, <1>5, <1>6, <2>2, <2>3, BothIntended DEF IntendedOK, TablesOK, MemoryOK
    <3>4. PICK f : f = Intended(ref)[page].frame
      OBVIOUS
    <3>5. f \in Pages /\ frames[f].owner = m.memory
      <4>1. Valid(m.memory, "MemoryObject") /\ m.memory \in ObjectRefs
        <5>1. <<s, i>> \in MappedPlaces(m.memory)
          BY <1>2, <1>5 DEF MappedPlaces
        <5> QED
          BY <1>6, <5>1 DEF Used, TablesOK, MemoryOK, UsesValid, Mappings
      <4>2. PICK id \in ObjectIds : m.memory.id = id /\ m.memory = RefTo(id) /\ IsMemory(id)
        BY <4>1 DEF Valid, Live, IsMemory, RefTo, ObjectRefs
      <4>3. m.offset + m.size <= SizeOf(objects[id].payload)
        BY <1>2, <1>5, <4>2 DEF TablesOK, MemoryOK, MappingsFit
      <4>4. objects[id].payload \in MemoryObjects
        BY <4>2, LiveObject, PayloadOf DEF IsMemory, TablesOK, MemoryOK
      <4>5. f = Extent(id).start + m.offset + (page - m.base)
        BY <3>3, <3>4, <4>2 DEF Mapping
      <4>6. /\ m.base \in Nat /\ m.size \in Nat /\ m.offset \in Nat
            /\ page \in Int /\ m.base <= page /\ page <= m.base + m.size - 1
        <5>1. m.base \in Nat /\ m.size \in Nat /\ m.offset \in Nat
          BY <1>6 DEF Mappings
        <5>2. page \in m.base .. m.base + m.size - 1
          BY <1>6, <2>3 DEF Span
        <5> QED
          BY <5>1, <5>2
      <4>7. /\ Extent(id).start \in Nat /\ Extent(id).end \in Nat
            /\ m.offset + m.size <= Extent(id).end - Extent(id).start
        BY <4>3, <4>4 DEF MemoryObjects, SizeOf, Extent
      <4>8. f \in Extent(id).start .. Extent(id).end - 1
        BY <4>5, <4>6, <4>7
      <4>9. OwnsRange(frames, Extent(id), RefTo(id))
        BY <4>2 DEF TablesOK, MemoryOK, FramesBacked
      <4> QED
        BY <4>2, <4>8, <4>9 DEF OwnsRange, PagesOf
    <3>6. Owes(ref, page, f)'
      <4>1. Due(ref, j)' # None /\ page \in Span(Due(ref, j)') /\ frames'[f].owner = Due(ref, j)'.memory
        BY <1>2, <1>5, <2>2, <2>3, <3>5
      <4>2. OwesOK'
        BY OwesIs, PTL
      <4> QED
        BY <4>1, <4>2 DEF OwesOK
    <3> QED
      BY <1>8, <2>3, <3>2, <3>4, <3>5, <3>6
  <2>4. CASE page \notin Span(work)
    <3>1. \A k \in RangeSlots :
            \/ View(ref, k)' = View(ref, k)
            \/ /\ View(ref, k) # None => page \notin Span(View(ref, k))
               /\ View(ref, k)' # None => page \notin Span(View(ref, k)')
      BY <1>4, <1>6, <2>2, <2>4
    <3> QED
      BY <1>1, <2>4, <3>1, PageStays
  <2> QED
    BY <2>3, <2>4
<1>9. CASE ref # RefTo(s)
  <2>1. ASSUME NEW k \in RangeSlots, ref.id = s
        PROVE  View(ref, k)' = View(ref, k)
    <3>1. ref.generation # generations[s]
      BY <1>9, <2>1 DEF RefTo, ObjectRefs
    <3> QED
      BY <1>7, <2>1, <3>1 DEF View
  <2>2. \A k \in RangeSlots : View(ref, k)' = View(ref, k)
    BY <1>4, <2>1
  <2> QED
    BY <1>1, <1>9, <2>2, PageStays
<1> QED
  BY <1>8, <1>9

(* What take_next hands out is owed no more; the rest is.                  *)
LEMMA DropOwes ==
  ASSUME TablesOK, TablesOK', NEW s \in ObjectIds, NEW id \in ObjectIds, NEW j \in WorkSlots,
         Drops(s, j, id),
         NEW ref \in ObjectRefs, NEW page, NEW frame \in Pages, Owes(ref, page, frame)
  PROVE  Owes(ref, page, frame)' \/ (ref = RefTo(s) /\ page \in Span(WorkAt(s, j)))
<1>1. MemoryKinds
  BY DEF MemoryKinds
<1>2. PICK k \in WorkSlots :
        /\ Due(ref, k) # None /\ page \in Span(Due(ref, k))
        /\ frames[frame].owner = Due(ref, k).memory
  BY OwesIs DEF OwesOK
<1>3. ref.id \in ObjectIds /\ ref.generation = generations[ref.id] /\ ref = RefTo(ref.id)
  BY <1>2 DEF Due, ObjectRefs, RefTo
<1>4. CASE ref.id = s /\ k = j
  BY <1>2, <1>3, <1>4 DEF Due
<1>5. CASE ~(ref.id = s /\ k = j)
  <2>1. WorkAt(ref.id, k)' = WorkAt(ref.id, k)
    BY <1>3, <1>5 DEF Drops
  <2>2. Due(ref, k)' = Due(ref, k)
    BY <1>1, <2>1, CallsKeepNames, ViewAfter
  <2> QED
    BY <1>1, <1>2, <2>2, OwesStays
<1> QED
  BY <1>4, <1>5

-----------------------------------------------------------------------------
(* What a CPU may find on the way.                                         *)

(* What a page maps to, k intents from now: nothing, what its address      *)
(* space calls for, or something an invalidation still to come covers.     *)
Covered(k, ref, page, v) ==
  \/ v = None
  \/ v = Intended(ref)[page]
  \/ v.frame \in Pages /\ Owes(ref, page, v.frame)
  \/ \E j \in DOMAIN inFlight : j > k /\ Covers(inFlight[j], ref, page)

(* The page tables as the intents in flight are carried out.               *)
History(run) ==
  /\ run \in [0 .. Len(inFlight) -> PageTables]
  /\ run[0] = tables
  /\ \A n \in DOMAIN inFlight : run[n] = Updated(run[n - 1], inFlight[n])

Leads(run) ==
  /\ \A ref \in ObjectRefs : run[Len(inFlight)][ref] = Intended(ref)
  /\ \A k \in 0 .. Len(inFlight), ref \in ObjectRefs, page \in VirtualPages :
       Covered(k, ref, page, run[k][ref][page])

Cached == [space : ObjectRefs, page : VirtualPages, to : Contents \ {None}]

CachesOK ==
  /\ tlb \in [CpuIds -> SUBSET Cached]
  /\ \A cpu \in CpuIds : \A t \in tlb[cpu] :
       cpu \in ActiveCpus(topology) /\ Covered(0, t.space, t.page, t.to)

TrailOK == inFlight \in Seq(Intents) /\ CachesOK /\ \E run : History(run) /\ Leads(run)

(* The inductive invariant.                                                *)
TranslationOK == TablesOK /\ TrailOK

(* The address space a call names is the one its handle refers to.         *)
LEMMA LookupRef ==
  ASSUME KernelOK, NEW p \in ProcessIds, Running(p), NEW i, NEW kind, NEW rights,
         Lookup(p, i, kind, rights)
  PROVE  /\ SpaceRef(p, i) \in ObjectRefs
         /\ SpaceRef(p, i) = RefTo(ObjectOf(p, i))
<1>1. Handles(p).entry[i] \in Entries
  BY LookupObject
<1>2. SpaceRef(p, i) \in ObjectRefs
  BY <1>1 DEF Entries, SpaceRef
<1>3. SpaceRef(p, i).generation = generations[SpaceRef(p, i).id]
  BY DEF Lookup, Valid, Live, SpaceRef
<1> QED
  BY <1>2, <1>3 DEF ObjectRefs, RefTo, SpaceRef, ObjectOf

(* A call may change what a page is to map to if what it mapped to before  *)
(* is nothing or is owed an invalidation from then on.                     *)
Outdates(ref, page) ==
  \/ Intended(ref)'[page] = Intended(ref)[page]
  \/ Intended(ref)[page] = None
  \/ \E frame \in Pages : frame = Intended(ref)[page].frame /\ Owes(ref, page, frame)'

(* It may stop owing an invalidation that it puts in flight.               *)
Discharges(ref, page) ==
  \A frame \in Pages :
    Owes(ref, page, frame) =>
      \/ Owes(ref, page, frame)'
      \/ \E j \in DOMAIN inFlight' : j > Len(inFlight) /\ Covers(inFlight'[j], ref, page)

(* Then what was covered stays covered.                                    *)
LEMMA StillCovered ==
  ASSUME NEW k \in 0 .. Len(inFlight), NEW ref, NEW page, NEW v,
         inFlight \in Seq(Intents), inFlight' \in Seq(Intents),
         \A j \in DOMAIN inFlight : j \in DOMAIN inFlight' /\ inFlight'[j] = inFlight[j],
         Outdates(ref, page), Discharges(ref, page), Covered(k, ref, page, v)
  PROVE  Covered(k, ref, page, v)'
<1>1. CASE v = None
  BY <1>1 DEF Covered
<1>2. CASE v = Intended(ref)[page] /\ v # None
  <2>1. CASE Intended(ref)'[page] = v
    BY <2>1 DEF Covered
  <2>2. CASE \E frame \in Pages : frame = v.frame /\ Owes(ref, page, frame)'
    BY <2>2 DEF Covered
  <2> QED
    BY <1>2, <2>1, <2>2 DEF Outdates
<1>3. CASE v.frame \in Pages /\ Owes(ref, page, v.frame)
  <2>1. PICK f \in Pages : f = v.frame /\ Owes(ref, page, f)
    BY <1>3
  <2>2. CASE Owes(ref, page, f)'
    BY <2>1, <2>2 DEF Covered
  <2>3. CASE \E j \in DOMAIN inFlight' : j > Len(inFlight) /\ Covers(inFlight'[j], ref, page)
    <3>1. PICK j \in DOMAIN inFlight' : j > Len(inFlight) /\ Covers(inFlight'[j], ref, page)
      BY <2>3
    <3>2. j \in Nat /\ Len(inFlight) \in Nat /\ k <= Len(inFlight)
      OBVIOUS
    <3>3. j > k
      BY <3>1, <3>2
    <3> QED
      BY <3>1, <3>3 DEF Covered, Covers
  <2> QED
    BY <2>1, <2>2, <2>3 DEF Discharges
<1>4. CASE \E j \in DOMAIN inFlight : j > k /\ Covers(inFlight[j], ref, page)
  <2>1. PICK j \in DOMAIN inFlight : j > k /\ Covers(inFlight[j], ref, page)
    BY <1>4
  <2>2. j \in DOMAIN inFlight' /\ j > k /\ Covers(inFlight'[j], ref, page)
    BY <2>1
  <2> QED
    BY <2>2 DEF Covered, Covers
<1> QED
  BY <1>1, <1>2, <1>3, <1>4 DEF Covered

(* A call that returns no intent.                                          *)
LEMMA SilentStep ==
  ASSUME TrailOK, UNCHANGED embedder,
         \A ref \in ObjectRefs : Intended(ref)' = Intended(ref),
         \A ref \in ObjectRefs, page \in VirtualPages : Discharges(ref, page)
  PROVE  TrailOK'
<1>1. inFlight \in Seq(Intents) /\ inFlight' = inFlight /\ tables' = tables /\ tlb' = tlb
      /\ topology' = topology
  BY DEF TrailOK, embedder
<1>2. ASSUME NEW k \in 0 .. Len(inFlight), NEW ref \in ObjectRefs, NEW page \in VirtualPages,
             NEW v, Covered(k, ref, page, v)
      PROVE  Covered(k, ref, page, v)'
  BY <1>1, <1>2, StillCovered DEF Outdates
<1>3. CachesOK'
  <2>1. ASSUME NEW cpu \in CpuIds, NEW t \in tlb[cpu]
        PROVE  cpu \in ActiveCpus(topology) /\ Covered(0, t.space, t.page, t.to)'
    <3>1. t \in Cached /\ cpu \in ActiveCpus(topology) /\ Covered(0, t.space, t.page, t.to)
      BY <2>1 DEF TrailOK, CachesOK
    <3>2. t.space \in ObjectRefs /\ t.page \in VirtualPages /\ 0 \in 0 .. Len(inFlight)
      BY <1>1, <3>1 DEF Cached
    <3> QED
      BY <1>2, <3>1, <3>2
  <2> QED
    BY <1>1, <2>1 DEF TrailOK, CachesOK
<1>4. PICK run : History(run) /\ Leads(run)
  BY DEF TrailOK
<1>5. History(run)'
  BY <1>1, <1>4 DEF History
<1>6. Leads(run)'
  <2>1. ASSUME NEW k \in 0 .. Len(inFlight), NEW ref \in ObjectRefs, NEW page \in VirtualPages
        PROVE  Covered(k, ref, page, run[k][ref][page])'
    BY <1>2, <1>4 DEF Leads
  <2> QED
    BY <1>1, <1>4, <2>1 DEF Leads
<1> QED
  BY <1>1, <1>3, <1>5, <1>6 DEF TrailOK

(* A call that returns an intent that makes of the page tables what the    *)
(* address spaces now call for.                                            *)
LEMMA ReturnStep ==
  ASSUME TrailOK, NEW x \in Intents, Return(x),
         \A ref \in ObjectRefs :
           Intended(ref)' = [page \in VirtualPages |-> Intended(ref)'[page]],
         \A ref \in ObjectRefs, page \in VirtualPages :
           Intended(ref)'[page] = After(x, ref, page, Intended(ref)[page]),
         \A ref \in ObjectRefs, page \in VirtualPages :
           Outdates(ref, page) /\ Discharges(ref, page)
  PROVE  TrailOK'
<1> DEFINE n == Len(inFlight)
<1>1. inFlight \in Seq(Intents) /\ n \in Nat /\ tables' = tables /\ tlb' = tlb
      /\ topology' = topology /\ inFlight' = Append(inFlight, x)
  BY DEF TrailOK, Return
<1>2. /\ inFlight' \in Seq(Intents) /\ Len(inFlight') = n + 1 /\ inFlight'[n + 1] = x
      /\ \A j \in DOMAIN inFlight : j \in DOMAIN inFlight' /\ inFlight'[j] = inFlight[j]
      /\ DOMAIN inFlight' = 1 .. n + 1 /\ DOMAIN inFlight = 1 .. n
  BY <1>1
<1>3. ASSUME NEW k \in 0 .. n, NEW ref \in ObjectRefs, NEW page \in VirtualPages,
             NEW v, Covered(k, ref, page, v)
      PROVE  Covered(k, ref, page, v)'
  BY <1>1, <1>2, <1>3, StillCovered
<1>4. CachesOK'
  <2>1. ASSUME NEW cpu \in CpuIds, NEW t \in tlb[cpu]
        PROVE  cpu \in ActiveCpus(topology) /\ Covered(0, t.space, t.page, t.to)'
    <3>1. t \in Cached /\ cpu \in ActiveCpus(topology) /\ Covered(0, t.space, t.page, t.to)
      BY <2>1 DEF TrailOK, CachesOK
    <3>2. t.space \in ObjectRefs /\ t.page \in VirtualPages /\ 0 \in 0 .. n
      BY <1>1, <3>1 DEF Cached
    <3> QED
      BY <1>3, <3>1, <3>2
  <2> QED
    BY <1>1, <2>1 DEF TrailOK, CachesOK
<1>5. PICK run : History(run) /\ Leads(run)
  BY DEF TrailOK
<1>6. run \in [0 .. n -> PageTables]
  BY <1>5 DEF History
<1> DEFINE last == Updated(run[n], x)
           longer == [k \in 0 .. n + 1 |-> IF k = n + 1 THEN last ELSE run[k]]
<1>7. n \in 0 .. n /\ run[n] \in PageTables /\ last \in PageTables
      /\ \A ref \in ObjectRefs, page \in VirtualPages :
           last[ref][page] = After(x, ref, page, run[n][ref][page])
  BY <1>1, <1>6, UpdatedTables
<1>8. ASSUME NEW ref \in ObjectRefs
      PROVE  last[ref] = Intended(ref)'
  <2>1. run[n][ref] = Intended(ref)
    BY <1>5 DEF Leads
  <2>2. \A page \in VirtualPages : last[ref][page] = Intended(ref)'[page]
    BY <1>7, <2>1
  <2>3. last[ref] = [page \in VirtualPages |-> last[ref][page]]
    BY <1>7 DEF PageTables
  <2> QED
    BY <2>2, <2>3
<1> HIDE DEF last
<1>9. PICK more : more = longer
  OBVIOUS
<1>10. /\ more \in [0 .. n + 1 -> PageTables] /\ more[n + 1] = last
       /\ \A k \in 0 .. n : more[k] = run[k]
  BY <1>1, <1>6, <1>7, <1>9
<1> HIDE DEF longer
<1>11. History(more)'
  <2>1. more[0] = tables'
    BY <1>1, <1>5, <1>10 DEF History
  <2>2. ASSUME NEW k \in 1 .. n + 1
        PROVE  more[k] = Updated(more[k - 1], inFlight'[k])
    <3>1. CASE k = n + 1
      <4>1. k - 1 = n
        BY <1>1, <3>1
      <4> QED
        BY <1>2, <1>7, <1>10, <3>1, <4>1 DEF last
    <3>2. CASE k \in 1 .. n
      <4>1. k - 1 \in 0 .. n /\ k \in 0 .. n
        BY <1>1, <3>2
      <4>2. run[k] = Updated(run[k - 1], inFlight[k])
        BY <1>2, <1>5, <3>2 DEF History
      <4> QED
        BY <1>2, <1>10, <3>2, <4>1, <4>2
    <3> QED
      BY <1>1, <3>1, <3>2
  <2> QED
    BY <1>2, <1>10, <2>1, <2>2 DEF History
<1>12. Leads(more)'
  <2>1. ASSUME NEW k \in 0 .. n + 1, NEW ref \in ObjectRefs, NEW page \in VirtualPages
        PROVE  Covered(k, ref, page, more[k][ref][page])'
    <3>1. CASE k = n + 1
      <4>1. more[k][ref][page] = Intended(ref)'[page]
        BY <1>8, <1>10, <3>1
      <4> QED
        BY <4>1 DEF Covered
    <3>2. CASE k \in 0 .. n
      <4>1. Covered(k, ref, page, run[k][ref][page])
        BY <1>5, <3>2 DEF Leads
      <4>2. more[k] = run[k]
        BY <1>10, <3>2
      <4>3. PICK v : v = run[k][ref][page]
        OBVIOUS
      <4>4. Covered(k, ref, page, v)'
        BY <1>3, <3>2, <4>1, <4>3
      <4> QED
        BY <4>2, <4>3, <4>4
    <3> QED
      BY <1>1, <3>1, <3>2
  <2>2. \A ref \in ObjectRefs : more[Len(inFlight')][ref] = Intended(ref)'
    BY <1>2, <1>8, <1>10
  <2> QED
    BY <1>2, <2>1, <2>2 DEF Leads
<1> QED
  BY <1>2, <1>4, <1>11, <1>12 DEF TrailOK

-----------------------------------------------------------------------------
(* The steps.                                                              *)

(* Every step of the kernel is one of Next's.                              *)
LEMMA KernelSteps ==
  ASSUME TablesOK, [TranslationNext]_allVars
  PROVE  /\ [Next]_vars /\ TablesOK'
         /\ KernelOK /\ KernelOK' /\ StepOK /\ MemoryKinds /\ DerivedRightsShrink
<1>1. [Next]_vars
  <2>1. ASSUME NEW p \in ProcessIds, OtherCall(p)
        PROVE  [Next]_vars
    BY <2>1 DEF OtherCall, Refusal, Next, SystemCall, SpaceCall
  <2>2. ASSUME NEW p \in ProcessIds, Running(p), NEW space \in Slots, NEW memory \in Slots,
               NEW request \in MapRequests, MapCall(p, space, memory, request)
        PROVE  [Next]_vars
    BY <2>2 DEF MapCall, Next, SystemCall, SpaceCall
  <2>3. ASSUME NEW p \in ProcessIds, Running(p), NEW space \in Slots,
               NEW request \in MapRequests, UnmapCall(p, space, request)
        PROVE  [Next]_vars
    BY <2>3 DEF UnmapCall, Next, SystemCall, SpaceCall
  <2>4. ASSUME NEW p \in ProcessIds, Running(p), NEW space \in Slots, FlushCall(p, space)
        PROVE  [Next]_vars
    BY <2>4 DEF FlushCall, Next, SystemCall, SpaceCall
  <2>5. ASSUME \/ CarryOut
               \/ \E cpu \in CpuIds, space \in ObjectRefs, page \in VirtualPages :
                    Walk(cpu, space, page)
               \/ UNCHANGED allVars
        PROVE  [Next]_vars
    BY <2>5 DEF CarryOut, Walk, allVars
  <2>6. ASSUME EmbedderCall
        PROVE  [Next]_vars
    BY <2>6 DEF EmbedderCall, Next
  <2> QED
    BY <2>1, <2>2, <2>3, <2>4, <2>5, <2>6 DEF TranslationNext
<1>2. PICK owner : SoundRefs(owner)
  BY <1>1, StepKindsOf
<1> QED
  BY <1>1, <1>2, StepTables, StepKindsOf, ChildrenAgree DEF TablesOK, MemoryOK

(* A call that neither maps, unmaps nor flushes, of a process or the host. *)
LEMMA OtherKeeps ==
  ASSUME TranslationOK, TablesOK', KernelOK, StepOK, DerivedRightsShrink,
         (\E p \in ProcessIds : OtherCall(p)) \/ EmbedderCall
  PROVE  TrailOK'
<1>1. MemoryKinds /\ MappingsStay /\ WorkStays
  <2>1. ASSUME NEW p \in ProcessIds, Running(p), ChannelCall(p) \/ Refusal(p)
        PROVE  Idle
    BY <2>1, ChannelCallIdle, RefusalIdle DEF Refusal
  <2>2. ASSUME NEW p \in ProcessIds, OtherCall(p)
        PROVE  \/ Idle
               \/ \E id \in ObjectIds, range \in FrameRanges : MakesMemory(id, range)
               \/ \E id \in ObjectIds : Reclaims(id)
    BY <2>1, <2>2, CreateIdle, ObjectCallMemory DEF OtherCall
  <2>3. ASSUME EmbedderCall
        PROVE  Idle
    BY <2>3, HostIdle DEF EmbedderCall
  <2> QED
    BY <2>2, <2>3 DEF MemoryKinds, Idle, MakesMemory, Reclaims
<1>2. \A ref \in ObjectRefs : Intended(ref)' = Intended(ref)
  BY <1>1, IntendedStays DEF TranslationOK
<1>3. \A ref \in ObjectRefs, page \in VirtualPages : Discharges(ref, page)
  BY <1>1, OwingStays DEF TranslationOK, WorkStays, Discharges
<1>4. UNCHANGED embedder
  BY DEF OtherCall, EmbedderCall
<1> QED
  BY <1>2, <1>3, <1>4, SilentStep DEF TranslationOK

(* A CPU's walk, or a step of nobody: the kernel rests.                    *)
LEMMA RestKeeps ==
  ASSUME TranslationOK, TablesOK', UNCHANGED vars
  PROVE  /\ \A ref \in ObjectRefs : Intended(ref)' = Intended(ref)
         /\ \A ref \in ObjectRefs, page \in VirtualPages, frame \in Pages :
              Owes(ref, page, frame) => Owes(ref, page, frame)'
<1>1. Idle
  BY NoneIdle DEF vars, GenerationsFree
<1>2. MemoryKinds /\ MappingsStay /\ WorkStays
  BY <1>1 DEF MemoryKinds, Idle
<1> QED
  BY <1>2, IntendedStays, OwingStays DEF TranslationOK, WorkStays

(* map_memory_object.                                                      *)
LEMMA MapKeeps ==
  ASSUME TranslationOK, TablesOK', KernelOK, KernelOK', StepOK, NEW p \in ProcessIds, Running(p),
         NEW space \in Slots, NEW memory \in Slots, NEW request \in MapRequests,
         MapCall(p, space, memory, request)
  PROVE  TrailOK'
<1>1. /\ MapMemoryObject(p, space, memory, request)
      /\ Return(MapIntent(SpaceRef(p, space), objects[ObjectOf(p, memory)].payload,
                          MappingFor(p, memory, request)))
  BY DEF MapCall
<1>2. PICK s \in ObjectIds, id \in ObjectIds, i \in RangeSlots, mapping \in Mappings :
        /\ Maps(s, i, id, mapping) /\ s = ObjectOf(p, space) /\ id = ObjectOf(p, memory)
        /\ mapping = MappingFor(p, memory, request)
  BY <1>1, MapMaps
<1>3. MemoryKinds /\ WorkStays
  BY <1>2 DEF MemoryKinds, Maps
<1>4. PICK named \in ObjectRefs : named = SpaceRef(p, space) /\ named = RefTo(s)
  BY <1>1, <1>2, LookupRef DEF MapMemoryObject, MayMap
<1>5. PICK x : x = MapIntent(named, objects[id].payload, mapping)
  OBVIOUS
<1>6. Return(x)
  BY <1>1, <1>2, <1>4, <1>5
<1>7. mapping.memory = RefTo(id) /\ mapping.memory.id = id
  BY <1>2 DEF Maps, RefTo
<1>8. \A page : FrameAt(objects[id].payload, mapping, page) = Mapping(mapping, page).frame
  BY <1>7 DEF FrameAt, Mapping, Extent
<1>9. Extent(id).start \in Nat
  <2>1. IsMemory(id)
    BY <1>2 DEF Maps, GoesOn
  <2>2. objects[id].payload \in MemoryObjects
    BY <2>1, LiveObject, PayloadOf DEF IsMemory
  <2> QED
    BY <2>2 DEF MemoryObjects, Extent
<1>10. /\ x.kind = "Map" /\ x.space = named /\ DOMAIN x.to = Span(mapping)
       /\ \A page \in Span(mapping) : x.to[page] = Mapping(mapping, page)
       /\ x = [kind |-> "Map", space |-> named, to |-> x.to]
  BY <1>5, <1>8 DEF MapIntent, Translations, Mapping
<1>11. x \in Intents
  <2>1. Span(mapping) \in SUBSET Int
    BY DEF Span, Mappings
  <2>2. ASSUME NEW page \in Span(mapping)
        PROVE  x.to[page] \in Contents
    <3>1. page \in Int /\ mapping.offset \in Int /\ mapping.base \in Int
          /\ mapping.rights \in SUBSET MappingRights
      BY <2>1 DEF Mappings
    <3>2. Extent(id).start + mapping.offset + (page - mapping.base) \in Int
      BY <1>9, <3>1
    <3>3. PICK frame \in Int : frame = Extent(id).start + mapping.offset + (page - mapping.base)
      BY <3>2
    <3>4. x.to[page] = [frame |-> frame, rights |-> mapping.rights]
      BY <1>7, <1>10, <3>3 DEF Mapping
    <3> QED
      BY <3>1, <3>4 DEF Contents
  <2>3. x.to = [page \in Span(mapping) |-> x.to[page]]
    BY <1>5 DEF MapIntent, Translations
  <2>4. x.to \in [Span(mapping) -> Contents]
    BY <2>2, <2>3
  <2> QED
    BY <1>10, <2>1, <2>4 DEF Intents
<1>12. ASSUME NEW ref \in ObjectRefs, NEW page \in VirtualPages
       PROVE  /\ Intended(ref)'[page] = After(x, ref, page, Intended(ref)[page])
              /\ Outdates(ref, page)
  <2>1. IF ref = RefTo(s) /\ page \in Span(mapping)
        THEN Intended(ref)[page] = None /\ Intended(ref)'[page] = Mapping(mapping, page)
        ELSE Intended(ref)'[page] = Intended(ref)[page]
    BY <1>2, MapIntended DEF TranslationOK
  <2> QED
    BY <1>4, <1>10, <2>1 DEF After, Outdates
<1>13. \A ref \in ObjectRefs, page \in VirtualPages : Discharges(ref, page)
  BY <1>3, OwingStays DEF TranslationOK, WorkStays, Discharges
<1>14. \A ref \in ObjectRefs :
         Intended(ref)' = [page \in VirtualPages |-> Intended(ref)'[page]]
  BY BothIntended DEF IntendedOK
<1> QED
  BY <1>6, <1>11, <1>12, <1>13, <1>14, ReturnStep DEF TranslationOK

(* unmap_address_range.                                                    *)
LEMMA UnmapKeeps ==
  ASSUME TranslationOK, TablesOK', KernelOK, KernelOK', StepOK, NEW p \in ProcessIds, Running(p),
         NEW space \in Slots, NEW request \in MapRequests, UnmapCall(p, space, request)
  PROVE  TrailOK'
<1>1. /\ UnmapAddressRange(p, space, request.base, request.size)
      /\ Return(UnmapIntent(SpaceRef(p, space), request))
  BY DEF UnmapCall
<1>2. PICK s \in ObjectIds, i \in RangeSlots, j \in WorkSlots, work \in Invalidations :
        /\ Unmaps(s, i, j, work) /\ s = ObjectOf(p, space)
        /\ work.base = request.base /\ work.base + work.size = request.base + request.size
  BY <1>1, UnmapUnmaps
<1>3. MemoryKinds
  BY <1>2 DEF MemoryKinds
<1>4. PICK named \in ObjectRefs : named = SpaceRef(p, space) /\ named = RefTo(s)
  BY <1>1, <1>2, LookupRef DEF UnmapAddressRange
<1>5. PICK x : x = UnmapIntent(named, request)
  OBVIOUS
<1>6. Return(x)
  BY <1>1, <1>4, <1>5
<1>7. Span(request) = Span(work) /\ Span(request) \in SUBSET Int
  <2>1. request.base \in Nat /\ request.size \in Nat
    BY KernelAssumption
  <2>2. work.base = request.base /\ work.base + work.size = request.base + request.size
    BY <1>2, Zenon
  <2>3. work.base \in Nat /\ work.size \in Nat
    BY DEF Invalidations
  <2>4. work.size = request.size
    BY <2>1, <2>2, <2>3
  <2>5. Span(request) = Span(work)
    BY <2>2, <2>4, Zenon DEF Span
  <2> QED
    BY <2>3, <2>5 DEF Span
<1>8. x.kind = "Unmap" /\ x.space = named /\ x.pages = Span(work) /\ x \in Intents
  BY <1>5, <1>7 DEF UnmapIntent, Intents
<1>9. ASSUME NEW ref \in ObjectRefs, NEW page \in VirtualPages
      PROVE  /\ Intended(ref)'[page] = After(x, ref, page, Intended(ref)[page])
             /\ Outdates(ref, page)
  <2>1. IF ref = RefTo(s) /\ page \in Span(work)
        THEN /\ Intended(ref)'[page] = None
             /\ \E frame \in Pages :
                  frame = Intended(ref)[page].frame /\ Owes(ref, page, frame)'
        ELSE Intended(ref)'[page] = Intended(ref)[page]
    BY <1>2, UnmapIntended DEF TranslationOK
  <2> QED
    BY <1>4, <1>8, <2>1 DEF After, Outdates
<1>10. \A ref \in ObjectRefs, page \in VirtualPages : Discharges(ref, page)
  <2>1. \A t \in ObjectIds, k \in WorkSlots : WorkAt(t, k) # None => WorkAt(t, k)' = WorkAt(t, k)
    BY <1>2 DEF Unmaps
  <2> QED
    BY <1>3, <2>1, OwingStays DEF TranslationOK, Discharges
<1>11. \A ref \in ObjectRefs :
         Intended(ref)' = [page \in VirtualPages |-> Intended(ref)'[page]]
  BY BothIntended DEF IntendedOK
<1> QED
  BY <1>6, <1>8, <1>9, <1>10, <1>11, ReturnStep DEF TranslationOK

(* flush_address_space_tlb.                                                *)
LEMMA FlushKeeps ==
  ASSUME TranslationOK, TablesOK', KernelOK, KernelOK', StepOK, NEW p \in ProcessIds, Running(p),
         NEW space \in Slots, FlushCall(p, space)
  PROVE  TrailOK'
<1>1. PICK s \in ObjectIds, id \in ObjectIds, j \in WorkSlots :
        /\ Drops(s, j, id) /\ s = ObjectOf(p, space)
        /\ WorkAt(s, j) = objects[s].payload.work[NextWork(objects[s].payload)]
  BY FlushDrops DEF FlushCall
<1>2. MemoryKinds /\ MappingsStay
  BY <1>1 DEF MemoryKinds, Drops
<1>3. PICK named \in ObjectRefs : named = SpaceRef(p, space) /\ named = RefTo(s)
  BY <1>1, LookupRef DEF FlushCall, FlushAddressSpaceTlb
<1>4. PICK work : work = WorkAt(s, j)
  OBVIOUS
<1>5. work \in Invalidations
  BY <1>1, <1>4, UseTypes DEF Drops
<1>6. PICK x : x = InvalidationIntent(named, work)
  OBVIOUS
<1>7. Return(x)
  BY <1>1, <1>3, <1>4, <1>6 DEF FlushCall
<1>8. /\ x.kind = "Invalidate" /\ x.space = named /\ x.pages = Span(work) /\ x \in Intents
  <2>1. Span(work) \in SUBSET Int
    BY <1>5 DEF Span, Invalidations
  <2> QED
    BY <1>6, <2>1 DEF InvalidationIntent, Intents
<1>9. \A ref \in ObjectRefs : Intended(ref)' = Intended(ref)
  BY <1>2, IntendedStays DEF TranslationOK
<1>10. \A ref \in ObjectRefs, page \in VirtualPages :
         /\ Intended(ref)'[page] = After(x, ref, page, Intended(ref)[page])
         /\ Outdates(ref, page)
  BY <1>8, <1>9 DEF After, Outdates
<1>11. ASSUME NEW ref \in ObjectRefs, NEW page \in VirtualPages
       PROVE  Discharges(ref, page)
  <2>1. /\ Len(inFlight) \in Nat /\ inFlight' = Append(inFlight, x) /\ inFlight \in Seq(Intents)
    BY <1>7 DEF TranslationOK, TrailOK, Return
  <2>2. /\ Len(inFlight) + 1 \in DOMAIN inFlight' /\ Len(inFlight) + 1 > Len(inFlight)
        /\ inFlight'[Len(inFlight) + 1] = x
    BY <1>8, <2>1
  <2>3. ASSUME NEW frame \in Pages, Owes(ref, page, frame)
        PROVE  Owes(ref, page, frame)' \/ Covers(x, ref, page)
    <3>1. Owes(ref, page, frame)' \/ (ref = RefTo(s) /\ page \in Span(WorkAt(s, j)))
      BY <1>1, <2>3, DropOwes DEF TranslationOK
    <3> QED
      BY <1>3, <1>4, <1>8, <3>1 DEF Covers
  <2>4. PICK n : n = Len(inFlight) + 1
    OBVIOUS
  <2>5. n \in DOMAIN inFlight' /\ n > Len(inFlight) /\ inFlight'[n] = x
    BY <2>2, <2>4
  <2> QED
    BY <2>3, <2>5 DEF Discharges
<1>12. \A ref \in ObjectRefs :
         Intended(ref)' = [page \in VirtualPages |-> Intended(ref)'[page]]
  BY BothIntended DEF IntendedOK
<1> QED
  BY <1>7, <1>8, <1>10, <1>11, <1>12, ReturnStep DEF TranslationOK

(* The embedder carries out the oldest intent: the tables are those that   *)
(* come next, and what an invalidation reaches is cached no more.          *)
LEMMA CarryOutKeeps ==
  ASSUME TranslationOK, TablesOK', CarryOut
  PROVE  TrailOK'
<1> DEFINE n == Len(inFlight)
           Reaches(cpu) ==
             Head(inFlight).kind = "Invalidate" /\ cpu \in Expand(topology, Head(inFlight).target)
<1>1. /\ inFlight \in Seq(Intents) /\ inFlight # <<>> /\ inFlight' = Tail(inFlight)
      /\ tables' = Updated(tables, Head(inFlight)) /\ topology' = topology
      /\ tlb' = [cpu \in CpuIds |->
                   {t \in tlb[cpu] : ~(Reaches(cpu) /\ Covers(Head(inFlight), t.space, t.page))}]
      /\ UNCHANGED vars
  BY DEF TranslationOK, TrailOK, CarryOut
<1>2. /\ n \in Nat \ {0} /\ Head(inFlight) = inFlight[1] /\ inFlight[1] \in Intents
      /\ inFlight' \in Seq(Intents) /\ Len(inFlight') = n - 1 /\ DOMAIN inFlight' = 1 .. n - 1
      /\ DOMAIN inFlight = 1 .. n
      /\ \A j \in 1 .. n - 1 : inFlight'[j] = inFlight[j + 1]
  BY <1>1
<1>3. /\ \A ref \in ObjectRefs : Intended(ref)' = Intended(ref)
      /\ \A ref \in ObjectRefs, page \in VirtualPages, frame \in Pages :
           Owes(ref, page, frame) => Owes(ref, page, frame)'
  BY <1>1, RestKeeps
<1>4. ASSUME NEW k \in 0 .. n - 1, NEW ref \in ObjectRefs, NEW page \in VirtualPages, NEW v,
             \/ v = None
             \/ v = Intended(ref)[page]
             \/ v.frame \in Pages /\ Owes(ref, page, v.frame)
             \/ \E j \in DOMAIN inFlight : j > k + 1 /\ Covers(inFlight[j], ref, page)
      PROVE  Covered(k, ref, page, v)'
  <2>1. CASE v = None \/ v = Intended(ref)[page]
    BY <1>3, <2>1 DEF Covered
  <2>2. CASE v.frame \in Pages /\ Owes(ref, page, v.frame)
    <3>1. PICK f \in Pages : f = v.frame /\ Owes(ref, page, f)
      BY <2>2
    <3>2. Owes(ref, page, f)'
      BY <1>3, <3>1
    <3> QED
      BY <3>1, <3>2 DEF Covered
  <2>3. CASE \E j \in DOMAIN inFlight : j > k + 1 /\ Covers(inFlight[j], ref, page)
    <3>1. PICK j \in DOMAIN inFlight : j > k + 1 /\ Covers(inFlight[j], ref, page)
      BY <2>3
    <3>2. PICK i : i = j - 1
      OBVIOUS
    <3>3. i \in DOMAIN inFlight' /\ i > k /\ inFlight'[i] = inFlight[j]
      BY <1>2, <3>1, <3>2
    <3> QED
      BY <3>1, <3>3 DEF Covered, Covers
  <2> QED
    BY <1>4, <2>1, <2>2, <2>3
<1>5. CachesOK'
  <2>1. ASSUME NEW cpu \in CpuIds, NEW t \in tlb'[cpu]
        PROVE  t \in Cached /\ cpu \in ActiveCpus(topology') /\ Covered(0, t.space, t.page, t.to)'
    <3>1. t \in tlb[cpu] /\ ~(Reaches(cpu) /\ Covers(inFlight[1], t.space, t.page))
      BY <1>1, <1>2
    <3>2. t \in Cached /\ cpu \in ActiveCpus(topology) /\ Covered(0, t.space, t.page, t.to)
      BY <3>1 DEF TranslationOK, TrailOK, CachesOK
    <3>3. t.space \in ObjectRefs /\ t.page \in VirtualPages
      BY <3>2 DEF Cached
    <3>4. ~Covers(inFlight[1], t.space, t.page)
      <4>1. inFlight[1].kind = "Invalidate" => inFlight[1].target = AllActive
        BY <1>2 DEF Intents
      <4> QED
        BY <1>2, <3>1, <3>2, <4>1 DEF Covers, Expand
    <3>5. \/ t.to = None
          \/ t.to = Intended(t.space)[t.page]
          \/ t.to.frame \in Pages /\ Owes(t.space, t.page, t.to.frame)
          \/ \E j \in DOMAIN inFlight : j > 1 /\ Covers(inFlight[j], t.space, t.page)
      <4>1. \A j \in DOMAIN inFlight : j > 0 /\ j # 1 => j > 1
        BY <1>2
      <4> QED
        BY <3>2, <3>4, <4>1 DEF Covered
    <3>6. 0 \in 0 .. n - 1 /\ 0 + 1 = 1
      BY <1>2
    <3>7. Covered(0, t.space, t.page, t.to)'
      BY <1>4, <3>3, <3>5, <3>6
    <3> QED
      BY <1>1, <3>2, <3>7
  <2>2. tlb' \in [CpuIds -> SUBSET Cached]
    BY <1>1, <2>1
  <2> QED
    BY <2>1, <2>2 DEF CachesOK
<1>6. PICK run : History(run) /\ Leads(run)
  BY DEF TranslationOK, TrailOK
<1>7. run \in [0 .. n -> PageTables] /\ run[0] = tables
      /\ \A k \in 1 .. n : run[k] = Updated(run[k - 1], inFlight[k])
  BY <1>2, <1>6 DEF History
<1>8. PICK rest : rest = [k \in 0 .. n - 1 |-> run[k + 1]]
  OBVIOUS
<1>9. /\ rest \in [0 .. n - 1 -> PageTables]
      /\ \A k \in 0 .. n - 1 : rest[k] = run[k + 1] /\ k + 1 \in 0 .. n
  BY <1>2, <1>7, <1>8
<1>10. History(rest)'
  <2>1. rest[0] = tables'
    <3>1. 0 \in 0 .. n - 1 /\ 1 \in 1 .. n /\ 0 + 1 = 1 /\ 1 - 1 = 0
      BY <1>2
    <3>2. rest[0] = run[1] /\ run[1] = Updated(run[0], inFlight[1])
      BY <1>7, <1>9, <3>1
    <3> QED
      BY <1>1, <1>2, <1>7, <3>2
  <2>2. ASSUME NEW k \in 1 .. n - 1
        PROVE  rest[k] = Updated(rest[k - 1], inFlight'[k])
    <3>1. k \in 0 .. n - 1 /\ k - 1 \in 0 .. n - 1 /\ (k - 1) + 1 = k /\ (k + 1) - 1 = k
          /\ k + 1 \in 1 .. n
      BY <1>2
    <3>2. run[k + 1] = Updated(run[k], inFlight[k + 1])
      BY <1>7, <3>1
    <3> QED
      BY <1>2, <1>9, <3>1, <3>2
  <2> QED
    BY <1>2, <1>9, <2>1, <2>2 DEF History
<1>11. Leads(rest)'
  <2>1. ASSUME NEW ref \in ObjectRefs
        PROVE  rest[n - 1][ref] = Intended(ref)'
    <3>1. n - 1 \in 0 .. n - 1 /\ (n - 1) + 1 = n
      BY <1>2
    <3> QED
      BY <1>3, <1>6, <1>9, <3>1 DEF Leads
  <2>2. ASSUME NEW k \in 0 .. n - 1, NEW ref \in ObjectRefs, NEW page \in VirtualPages
        PROVE  Covered(k, ref, page, rest[k][ref][page])'
    <3>1. PICK v : v = rest[k][ref][page]
      OBVIOUS
    <3>2. Covered(k + 1, ref, page, v)
      BY <1>6, <1>9, <3>1 DEF Leads
    <3>3. Covered(k, ref, page, v)'
      BY <1>4, <3>2 DEF Covered
    <3> QED
      BY <3>1, <3>3
  <2> QED
    BY <1>2, <2>1, <2>2 DEF Leads
<1> QED
  BY <1>2, <1>5, <1>10, <1>11 DEF TrailOK

(* A CPU caches what it finds.                                             *)
LEMMA WalkKeeps ==
  ASSUME TranslationOK, TablesOK', NEW cpu \in CpuIds, NEW space \in ObjectRefs,
         NEW page \in VirtualPages, Walk(cpu, space, page)
  PROVE  TrailOK'
<1>1. /\ inFlight \in Seq(Intents) /\ inFlight' = inFlight /\ tables' = tables
      /\ topology' = topology /\ cpu \in ActiveCpus(topology) /\ tables[space][page] # None
      /\ UNCHANGED vars
      /\ tlb' = [tlb EXCEPT ![cpu] = @ \cup
                  {[space |-> space, page |-> page, to |-> tables[space][page]]}]
  BY DEF TranslationOK, TrailOK, Walk
<1>2. /\ \A ref \in ObjectRefs : Intended(ref)' = Intended(ref)
      /\ \A ref \in ObjectRefs, q \in VirtualPages, frame \in Pages :
           Owes(ref, q, frame) => Owes(ref, q, frame)'
  BY <1>1, RestKeeps
<1>3. ASSUME NEW k \in 0 .. Len(inFlight), NEW ref \in ObjectRefs, NEW q \in VirtualPages,
             NEW v, Covered(k, ref, q, v)
      PROVE  Covered(k, ref, q, v)'
  <2>1. Outdates(ref, q) /\ Discharges(ref, q)
    BY <1>2 DEF Outdates, Discharges
  <2> QED
    BY <1>1, <1>3, <2>1, StillCovered
<1>4. PICK run : History(run) /\ Leads(run)
  BY DEF TranslationOK, TrailOK
<1>5. 0 \in 0 .. Len(inFlight) /\ tables \in PageTables /\ tables = run[0]
  BY <1>1, <1>4 DEF History
<1>6. CachesOK'
  <2>1. PICK new : new = [space |-> space, page |-> page, to |-> tables[space][page]]
    OBVIOUS
  <2>2. new \in Cached
    <3>1. tables[space][page] \in Contents
      BY <1>5 DEF PageTables
    <3> QED
      BY <1>1, <2>1, <3>1 DEF Cached
  <2>3. Covered(0, new.space, new.page, new.to)
    BY <1>4, <1>5, <2>1 DEF Leads
  <2>4. tlb \in [CpuIds -> SUBSET Cached]
    BY DEF TranslationOK, TrailOK, CachesOK
  <2>5. tlb' \in [CpuIds -> SUBSET Cached]
    BY <1>1, <2>1, <2>2, <2>4
  <2>6. ASSUME NEW c \in CpuIds, NEW t \in tlb'[c]
        PROVE  c \in ActiveCpus(topology') /\ Covered(0, t.space, t.page, t.to)'
    <3>1. t \in tlb[c] \/ (c = cpu /\ t = new)
      BY <1>1, <2>1, <2>4
    <3>2. c \in ActiveCpus(topology) /\ Covered(0, t.space, t.page, t.to)
      BY <1>1, <2>3, <3>1 DEF TranslationOK, TrailOK, CachesOK
    <3>3. t.space \in ObjectRefs /\ t.page \in VirtualPages
      BY <2>5 DEF Cached
    <3> QED
      BY <1>1, <1>3, <1>5, <3>2, <3>3
  <2> QED
    BY <2>5, <2>6 DEF CachesOK
<1>7. History(run)'
  BY <1>1, <1>4 DEF History
<1>8. Leads(run)'
  <2>1. ASSUME NEW k \in 0 .. Len(inFlight), NEW ref \in ObjectRefs, NEW q \in VirtualPages
        PROVE  Covered(k, ref, q, run[k][ref][q])'
    BY <1>3, <1>4 DEF Leads
  <2> QED
    BY <1>1, <1>2, <1>4, <2>1 DEF Leads
<1> QED
  BY <1>1, <1>6, <1>7, <1>8 DEF TrailOK

-----------------------------------------------------------------------------
(* The theorems.                                                           *)

(* Before the first call nothing is mapped, in flight or cached.           *)
LEMMA InitTranslation == TranslationInit => TranslationOK
<1> SUFFICES ASSUME TranslationInit PROVE TranslationOK
  OBVIOUS
<1>1. TablesOK /\ inFlight = <<>> /\ tlb = [cpu \in CpuIds |-> {}]
      /\ tables = [ref \in ObjectRefs |-> [page \in VirtualPages |-> None]]
  BY InitTables DEF TranslationInit
<1>2. tables \in PageTables
  BY <1>1 DEF PageTables, Contents
<1>3. ASSUME NEW ref \in ObjectRefs
      PROVE  tables[ref] = Intended(ref)
  <2>1. \A i \in RangeSlots : View(ref, i) = None
    BY DEF TranslationInit, Init, View, MappingAt, IsSpace, ObjectRefs
  <2>2. IntendedOK(ref)
    BY <1>1, IntendedIs DEF TablesOK, MemoryOK, TablesIntended
  <2>3. \A page \in VirtualPages : Intended(ref)[page] = None
    BY <2>1, <2>2 DEF IntendedOK
  <2> QED
    BY <1>1, <2>2, <2>3 DEF IntendedOK
<1>4. PICK run : run = [n \in 0 .. Len(inFlight) |-> tables]
  OBVIOUS
<1>5. Len(inFlight) = 0 /\ DOMAIN inFlight = {} /\ inFlight \in Seq(Intents)
  BY <1>1
<1>6. History(run)
  BY <1>2, <1>4, <1>5 DEF History
<1>7. Leads(run)
  BY <1>3, <1>4, <1>5 DEF Leads, Covered
<1>8. CachesOK
  BY <1>1 DEF CachesOK
<1> QED
  BY <1>1, <1>5, <1>6, <1>7, <1>8 DEF TranslationOK, TrailOK

(* Every step of the kernel, of its embedder and of a CPU keeps it.        *)
LEMMA StepTranslation == TranslationOK /\ [TranslationNext]_allVars => TranslationOK'
<1> SUFFICES ASSUME TranslationOK, [TranslationNext]_allVars PROVE TranslationOK'
  OBVIOUS
<1>1. TablesOK' /\ KernelOK /\ KernelOK' /\ StepOK /\ DerivedRightsShrink
  BY KernelSteps DEF TranslationOK
<1> SUFFICES TrailOK'
  BY <1>1 DEF TranslationOK
<1>2. ASSUME (\E p \in ProcessIds : OtherCall(p)) \/ EmbedderCall
      PROVE  TrailOK'
  BY <1>1, <1>2, OtherKeeps
<1>3. ASSUME NEW p \in ProcessIds, Running(p), NEW space \in Slots, NEW memory \in Slots,
             NEW request \in MapRequests, MapCall(p, space, memory, request)
      PROVE  TrailOK'
  BY <1>1, <1>3, MapKeeps
<1>4. ASSUME NEW p \in ProcessIds, Running(p), NEW space \in Slots, NEW request \in MapRequests,
             UnmapCall(p, space, request)
      PROVE  TrailOK'
  BY <1>1, <1>4, UnmapKeeps
<1>5. ASSUME NEW p \in ProcessIds, Running(p), NEW space \in Slots, FlushCall(p, space)
      PROVE  TrailOK'
  BY <1>1, <1>5, FlushKeeps
<1>6. CASE CarryOut
  BY <1>1, <1>6, CarryOutKeeps
<1>7. ASSUME NEW cpu \in CpuIds, NEW space \in ObjectRefs, NEW page \in VirtualPages,
             Walk(cpu, space, page)
      PROVE  TrailOK'
  BY <1>1, <1>7, WalkKeeps
<1>8. CASE UNCHANGED allVars
  <2>1. UNCHANGED vars /\ UNCHANGED embedder
    BY <1>8 DEF allVars
  <2>2. /\ \A ref \in ObjectRefs : Intended(ref)' = Intended(ref)
        /\ \A ref \in ObjectRefs, page \in VirtualPages : Discharges(ref, page)
    BY <1>1, <2>1, RestKeeps DEF Discharges
  <2> QED
    BY <2>1, <2>2, SilentStep DEF TranslationOK
<1> QED
  BY <1>2, <1>3, <1>4, <1>5, <1>6, <1>7, <1>8 DEF TranslationNext

(* The invariant holds in every reachable state, whatever the calls, the   *)
(* embedder and the CPUs do meanwhile.                                     *)
THEOREM TrailStaysRight == TranslationSpec => []TranslationOK
BY InitTranslation, StepTranslation, PTL DEF TranslationSpec

(* A function that satisfies the recursion is the one that it defines.     *)
LEMMA HistoryIs ==
  ASSUME TrailOK, NEW run, History(run)
  PROVE  LET after[n \in 0 .. Len(inFlight)] ==
               IF n = 0 THEN tables ELSE Updated(after[n - 1], inFlight[n])
         IN  after[Len(inFlight)] = run[Len(inFlight)]
<1> DEFINE N == Len(inFlight)
           Unfold(f) == [n \in 0 .. N |-> IF n = 0 THEN tables ELSE Updated(f[n - 1], inFlight[n])]
           after == CHOOSE f : f = Unfold(f)
<1>1. N \in Nat /\ DOMAIN inFlight = 1 .. N
  BY DEF TrailOK
<1>2. run = Unfold(run)
  <2>1. run \in [0 .. N -> PageTables] /\ run[0] = tables
        /\ \A n \in 1 .. N : run[n] = Updated(run[n - 1], inFlight[n])
    BY <1>1 DEF History
  <2>2. \A n \in 0 .. N : n # 0 => n \in 1 .. N
    BY <1>1
  <2>3. run = [n \in 0 .. N |-> run[n]]
    BY <2>1
  <2>4. \A n \in 0 .. N : run[n] = Unfold(run)[n]
    BY <2>1, <2>2
  <2> QED
    BY <2>3, <2>4
<1>3. after = Unfold(after)
  BY <1>2
<1> DEFINE Bad == {n \in 0 .. N : after[n] # run[n]}
<1>4. Bad = {}
  <2> SUFFICES ASSUME Bad # {} PROVE FALSE
    OBVIOUS
  <2>1. Bad \in SUBSET Nat
    BY <1>1
  <2> HIDE DEF after
  <2>2. PICK n \in Bad : \A m \in Bad : n <= m
    <3> HIDE DEF Bad
    <3> QED
      BY <2>1, LeastExists
  <2>3. n \in 0 .. N /\ after[n] # run[n]
    OBVIOUS
  <2>4. n # 0
    BY <1>1, <1>2, <1>3, <2>3
  <2>5. n - 1 \in 0 .. N /\ ~(n <= n - 1)
    BY <1>1, <2>3, <2>4
  <2>6. after[n - 1] = run[n - 1]
    BY <2>2, <2>5
  <2>7. after[n] = Updated(after[n - 1], inFlight[n]) /\ run[n] = Updated(run[n - 1], inFlight[n])
    BY <1>2, <1>3, <2>3, <2>4
  <2> QED
    BY <2>3, <2>6, <2>7
<1>5. N \in 0 .. N
  BY <1>1
<1>6. after[N] = run[N]
  <2> HIDE DEF after
  <2> QED
    BY <1>4, <1>5
<1> QED
  BY <1>6

(* Carried out in order, the intents in flight leave exactly the page      *)
(* tables the mappings call for, down to frames and rights.                *)
THEOREM IntentsAreEnough == TranslationSpec => []TablesFollow
<1>1. TranslationOK => TablesFollow
  <2> SUFFICES ASSUME TranslationOK PROVE TablesFollow
    OBVIOUS
  <2>1. PICK run : History(run) /\ Leads(run)
    BY DEF TranslationOK, TrailOK
  <2>2. \A ref \in ObjectRefs : run[Len(inFlight)][ref] = Intended(ref)
    BY <2>1 DEF Leads
  <2> QED
    BY <2>1, <2>2, HistoryIs DEF TranslationOK, TablesFollow
<1> QED
  BY <1>1, TrailStaysRight, PTL

(* A CPU that still uses a translation is right, or is owed an             *)
(* invalidation while the frame stays with the memory object, or the       *)
(* invalidation is in flight.                                              *)
THEOREM CachesAreCovered == TranslationSpec => []TranslationsCovered
<1>1. TranslationOK => TranslationsCovered
  <2> SUFFICES ASSUME TranslationOK, NEW cpu \in CpuIds, NEW t \in tlb[cpu]
               PROVE  \/ t.to = Intended(t.space)[t.page]
                      \/ Owes(t.space, t.page, t.to.frame)
                      \/ \E k \in DOMAIN inFlight : Covers(inFlight[k], t.space, t.page)
    BY DEF TranslationsCovered
  <2>1. t \in Cached /\ Covered(0, t.space, t.page, t.to)
    BY DEF TranslationOK, TrailOK, CachesOK
  <2>2. t.to # None
    BY <2>1 DEF Cached
  <2> QED
    BY <2>1, <2>2 DEF Covered
<1> QED
  BY <1>1, TrailStaysRight, PTL

=============================================================================
