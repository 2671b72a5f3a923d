------------------------------ MODULE Translation ------------------------------
(***************************************************************************)
(* What the processors see of the address spaces.  The kernel changes no   *)
(* page table and no TLB: MapMemoryObject, UnmapAddressRange and           *)
(* FlushAddressSpaceTlb return intents, and whoever called the kernel      *)
(* carries them out, later and while other calls and other CPUs go on.     *)
(*                                                                         *)
(* That caller is not in the repository.  Here it is the weakest one the   *)
(* intents make sense for: it carries them out in the order it got them,   *)
(* and an invalidation reaches the CPUs its CpuSet expands to.  A CPU      *)
(* walks a page table whenever it likes and caches what it finds; it       *)
(* forgets only when told to, since forgetting more hides nothing.         *)
(*                                                                         *)
(* Frames are the ones of the memory object, page offsets included; the    *)
(* base addresses of frames are not modelled.                              *)
(***************************************************************************)
EXTENDS KernelInvariants, CpuTopology

CONSTANT
  MaxInFlight  \* intents the caller has not carried out yet

ASSUME TranslationAssumption == MaxInFlight \in Nat

VARIABLES
  topology,  \* the snapshot invalidations are expanded against
  inFlight,  \* intents the kernel has returned, oldest first
  tables,    \* the page table of every address space
  tlb        \* for every CPU, the translations it has cached

embedder == <<topology, inFlight, tables, tlb>>
allVars == <<vars, embedder>>

VirtualPages == 0 .. AddressLimit - 1

Span(range) == range.base .. range.base + range.size - 1

-----------------------------------------------------------------------------
(* Intents.                                                                *)

(* Mutant: the offset into the memory object is forgotten.                 *)
FrameAt_NoOffset(memory, mapping, page) == memory.frames.start + (page - mapping.base)

(* page_table_frame_range: the frame behind a page of a mapping.           *)
FrameAt(memory, mapping, page) ==
  memory.frames.start + mapping.offset + (page - mapping.base)

Translations(memory, mapping) ==
  [page \in Span(mapping) |->
     [frame |-> FrameAt(memory, mapping, page), rights |-> mapping.rights]]

MapIntent(space, memory, mapping) ==
  [kind |-> "Map", space |-> space, to |-> Translations(memory, mapping)]

UnmapIntent(space, range) ==
  [kind |-> "Unmap", space |-> space, pages |-> Span(range)]

(* PendingTlbInvalidations::reserve targets every active CPU.              *)
InvalidationIntent(space, work) ==
  [kind |-> "Invalidate", space |-> space, pages |-> Span(work), target |-> AllActive]

Return(intent) ==
  /\ Len(inFlight) < MaxInFlight
  /\ inFlight' = Append(inFlight, intent)
  /\ UNCHANGED <<topology, tables, tlb>>

-----------------------------------------------------------------------------
(* The kernel's calls, with what they return.                              *)

SpaceRef(p, space) == Handles(p).entry[space].object

MapCall(p, space, memory, request) ==
  /\ MapMemoryObject(p, space, memory, request)
  /\ Return(MapIntent(SpaceRef(p, space), objects[ObjectOf(p, memory)].payload,
                      MappingFor(p, memory, request)))

UnmapCall(p, space, range) ==
  /\ UnmapAddressRange(p, space, range.base, range.size)
  /\ Return(UnmapIntent(SpaceRef(p, space), range))

FlushCall(p, space) ==
  LET payload == objects[ObjectOf(p, space)].payload
  IN  /\ FlushAddressSpaceTlb(p, space)
      /\ Return(InvalidationIntent(SpaceRef(p, space), payload.work[NextWork(payload)]))

(* The calls that return no intent: those on objects, handles and channels,*)
(* and a map call that is refused.                                         *)
Refusal(p) ==
  \E space, memory \in Slots, request \in MapRequests :
    MapRolledBack(p, space, memory, request)

OtherCall(p) ==
  /\ \/ CreateBootstrapProcess(p)
     \/ Running(p) /\ (ObjectCall(p) \/ ChannelCall(p) \/ Refusal(p))
  /\ UNCHANGED embedder

EmbedderCall == HostCall /\ UNCHANGED embedder

-----------------------------------------------------------------------------
(* Outside the kernel.                                                     *)

(* Page tables once an intent is carried out.                              *)
Updated(t, intent) ==
  CASE intent.kind = "Map" ->
         [t EXCEPT ![intent.space] =
            [page \in VirtualPages |->
               IF page \in DOMAIN intent.to THEN intent.to[page] ELSE @[page]]]
    [] intent.kind = "Unmap" ->
         [t EXCEPT ![intent.space] =
            [page \in VirtualPages |-> IF page \in intent.pages THEN None ELSE @[page]]]
    [] OTHER -> t

Covers(intent, space, page) ==
  intent.kind = "Invalidate" /\ intent.space = space /\ page \in intent.pages

CarryOut ==
  /\ inFlight # <<>>
  /\ LET intent == Head(inFlight)
         Reached(cpu) ==
           intent.kind = "Invalidate" /\ cpu \in Expand(topology, intent.target)
     IN  /\ intent.kind = "Invalidate" => CanExpand(topology, intent.target)
         /\ tables' = Updated(tables, intent)
         /\ tlb' = [cpu \in CpuIds |->
              {t \in tlb[cpu] : ~(Reached(cpu) /\ Covers(intent, t.space, t.page))}]
  /\ inFlight' = Tail(inFlight)
  /\ UNCHANGED <<vars, topology>>

(* An active CPU uses a page it has no translation for.                    *)
Walk(cpu, space, page) ==
  /\ cpu \in ActiveCpus(topology)
  /\ tables[space][page] # None
  /\ \A t \in tlb[cpu] : ~(t.space = space /\ t.page = page)
  /\ tlb' = [tlb EXCEPT ![cpu] = @ \cup
       {[space |-> space, page |-> page, to |-> tables[space][page]]}]
  /\ UNCHANGED <<vars, topology, inFlight, tables>>

TranslationInit ==
  /\ Init
  /\ topology \in Snapshots
  /\ inFlight = <<>>
  /\ tables = [ref \in ObjectRefs |-> [page \in VirtualPages |-> None]]
  /\ tlb = [cpu \in CpuIds |-> {}]

TranslationNext ==
  \/ \E p \in ProcessIds : OtherCall(p)
  \/ EmbedderCall
  \/ \E p \in ProcessIds : Running(p) /\
       \/ \E space, memory \in Slots, request \in MapRequests :
            MapCall(p, space, memory, request)
       \/ \E space \in Slots, request \in MapRequests : UnmapCall(p, space, request)
       \/ \E space \in Slots : FlushCall(p, space)
  \/ CarryOut
  \/ \E cpu \in CpuIds, space \in ObjectRefs, page \in VirtualPages :
       Walk(cpu, space, page)

TranslationSpec == TranslationInit /\ [][TranslationNext]_allVars

-----------------------------------------------------------------------------

(* The page table an address space calls for, by its own mappings.         *)
Intended(ref) ==
  LET here == IF Valid(ref, "AddressSpace")
              THEN LET space == objects[ref.id].payload
                   IN  {space.mappings[i] : i \in Mapped(space)}
              ELSE {}
      at(page) == {m \in here : page \in Span(m)}
  IN  [page \in VirtualPages |->
         IF at(page) = {} THEN None
         ELSE LET m == CHOOSE m \in at(page) : TRUE
              IN  [frame |-> objects[m.memory.id].payload.frames.start
                               + m.offset + (page - m.base),
                   rights |-> m.rights]]

(* The intents the kernel returned are all that is needed: once those in   *)
(* flight are carried out, every page table says what the mappings of its  *)
(* address space say, down to frames and rights.                           *)
TablesFollow ==
  LET after[n \in 0 .. Len(inFlight)] ==
        IF n = 0 THEN tables ELSE Updated(after[n - 1], inFlight[n])
      final == after[Len(inFlight)]
  IN  \A ref \in ObjectRefs : final[ref] = Intended(ref)

(* A CPU that still holds a translation is right, or it is owed an         *)
(* invalidation.  As long as the kernel owes it, the frame stays with the  *)
(* memory object it was mapped for; after that it is in flight.            *)
Owes(ref, page, frame) ==
  /\ Valid(ref, "AddressSpace")
  /\ \E i \in Owed(objects[ref.id].payload) :
       LET work == objects[ref.id].payload.work[i]
       IN  page \in Span(work) /\ frames[frame].owner = work.memory

TranslationsCovered ==
  \A cpu \in CpuIds : \A t \in tlb[cpu] :
    \/ t.to = Intended(t.space)[t.page]
    \/ Owes(t.space, t.page, t.to.frame)
    \/ \E k \in DOMAIN inFlight : Covers(inFlight[k], t.space, t.page)

=============================================================================
