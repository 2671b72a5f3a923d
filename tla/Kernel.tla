-------------------------------- MODULE Kernel --------------------------------
(***************************************************************************)
(* The capability kernel (kernel/src): object table, processes with their  *)
(* handle tables and budgets, frames, and one action per system call.      *)
(*                                                                         *)
(* Kernel::execute takes the whole kernel by &mut, so calls do not         *)
(* interleave: one call is one step.  What is hard here is what a long     *)
(* sequence of legal calls does to state that several owners share.        *)
(*                                                                         *)
(* A call that a check refuses before anything has changed is no step.     *)
(* A call that fails after it has reserved something is a step, with its   *)
(* rollback: the actions named ...RolledBack.  An expect or assert that    *)
(* would fail is a guard, so that the step which would panic does not      *)
(* exist, and KernelInvariants.tla states that no such guard ever fails.   *)
(***************************************************************************)
EXTENDS ChannelEndpoint, AddressSpace, FrameAllocator

CONSTANTS
  ProcessCapacity,  \* slots of the process table
  ObjectQuota,      \* object budget given to every process
  CreatableKinds,   \* kinds asked for by CreateObject
  RightsChoices,    \* rights asked for by create and duplicate
  MemorySizes,      \* sizes asked for by CreateMemoryObject, in pages
  MapRequests,      \* [base, size, offset, rights] asked for by MapMemoryObject
  MessageLimits,    \* max_messages asked for by CreateChannelPair
  HostCalls         \* ObjectManager methods the host calls: "destroy", "event"

ASSUME KernelAssumption ==
  /\ ProcessCapacity \in Nat
  /\ ObjectQuota \in Nat
  /\ CreatableKinds \subseteq ObjectKinds \ {"MemoryObject"}
  /\ RightsChoices \subseteq SUBSET HandleRights
  /\ MemorySizes \subseteq Nat
  /\ \A m \in MapRequests :
        /\ m.base \in Nat /\ m.size \in Nat \ {0} /\ m.offset \in Nat
        /\ m.rights \subseteq HandleRights
  /\ MessageLimits \subseteq Nat

VARIABLES
  objects,      \* ObjectManager.entries
  generations,  \* ObjectManager.generations
  processes,    \* ProcessTable.processes
  frames        \* FrameAllocator.frames

vars == <<objects, generations, processes, frames>>

ProcessIds == 0 .. ProcessCapacity - 1

(* ObjectPayload.  A process and a thread have no state the calls change.  *)
Payloads(kind) ==
  CASE kind = "ChannelEndpoint" -> Endpoints
    [] kind = "MemoryObject"    -> MemoryObjects
    [] kind = "AddressSpace"    -> AddressSpaces
    [] kind = "Event"           -> {"Unsignaled", "Signaled"}
    [] OTHER                    -> {"Initial"}

ObjectsOf(kind) == [kind : {kind}, handleCount : Nat, payload : Payloads(kind)]

Processes == [handles : Tables, remaining : Nat]

ASSUME NoneIsNothingElse ==
  None \notin Processes /\ \A kind \in ObjectKinds : None \notin ObjectsOf(kind)

Init ==
  /\ objects = [id \in ObjectIds |-> None]
  /\ generations = [id \in ObjectIds |-> 1]
  /\ processes = [p \in ProcessIds |-> None]
  /\ frames = InitialFrames

-----------------------------------------------------------------------------
(* The object table.                                                       *)

RefTo(id) == [id |-> id, generation |-> generations[id]]

(* An entry exists and its generation is the one of the reference.         *)
Live(ref) == objects[ref.id] # None /\ generations[ref.id] = ref.generation

(* validate                                                                *)
Valid(ref, kind) == Live(ref) /\ objects[ref.id].kind = kind

(* Mutant: an entry with one handle counts as unused.                      *)
FreeIds_OneHandle ==
  {id \in ObjectIds : objects[id] = None \/ objects[id].handleCount = 1}

FreeIds == FreeIn(objects, ObjectIds)

(* payload_for_kind                                                        *)
NewPayload(kind) ==
  CASE kind = "ChannelEndpoint" -> NewEndpoint(0)
    [] kind = "AddressSpace"    -> NewAddressSpace
    [] kind = "Event"           -> "Unsignaled"
    [] OTHER                    -> "Initial"

NewObject(kind, payload) == [kind |-> kind, handleCount |-> 0, payload |-> payload]

AddHandle(object) == [object EXCEPT !.handleCount = @ + 1]

(* remove_handle, n times; the subtraction saturates.                      *)
RemoveHandles(object, n) ==
  [object EXCEPT !.handleCount = IF @ < n THEN 0 ELSE @ - n]

(* Mutant: the last handle of an address space is never held back.         *)
CanCloseAfter_Always(object, n) == TRUE

(* Mutant: the last but one is held back as well.                          *)
CanCloseAfter_Early(object, n) ==
  object.handleCount - n <= 2 /\ object.kind = "AddressSpace" => CanDestroySpace(object.payload)

(* ensure_handle_can_close, once n other handles are closed: the last      *)
(* handle of an address space stays until its ranges and TLB work are gone.*)
CanCloseAfter(object, n) ==
  object.handleCount - n <= 1 /\ object.kind = "AddressSpace" => CanDestroySpace(object.payload)

(* Mutant: mappings do not keep a memory object.                           *)
Unreferenced_Unmapped(object) == object.kind = "MemoryObject" /\ object.handleCount = 0

(* Mutant: neither does the last handle.                                   *)
Unreferenced_OneHandle(object) ==
  /\ object.kind = "MemoryObject"
  /\ object.handleCount <= 1
  /\ CanReclaim(object.payload)

Unreferenced(object) ==
  /\ object.kind = "MemoryObject"
  /\ object.handleCount = 0
  /\ CanReclaim(object.payload)

(* reclaim_memory_object_if_unreferenced, on the object table objs the     *)
(* caller has already updated: free the frames, then drop the entry.       *)
Reclaim(objs, id) ==
  IF Unreferenced(objs[id])
  THEN LET range == objs[id].payload.frames
       IN  /\ OwnsRange(frames, range, RefTo(id))
           /\ CanRelease(frames, PagesOf(range))
           /\ generations[id] < MaxObjectGeneration
           /\ frames' = Release(frames, PagesOf(range))
           /\ objects' = [objs EXCEPT ![id] = None]
           /\ generations' = [generations EXCEPT ![id] = @ + 1]
  ELSE objects' = objs /\ UNCHANGED <<generations, frames>>

-----------------------------------------------------------------------------
(* Processes.                                                              *)

Running(p) == processes[p] # None

Handles(p) == processes[p].handles

(* HandleTable::lookup through the handle value of slot i.                 *)
Lookup(p, i, kind, rights) ==
  /\ i \in Nameable(Handles(p))
  /\ rights \subseteq Handles(p).entry[i].rights
  /\ Valid(Handles(p).entry[i].object, kind)

ObjectOf(p, i) == Handles(p).entry[i].object.id

(* Mutant: an object costs nothing.                                        *)
ReserveObject_Free(remaining) == remaining

(* ResourceBudget.  The budget a call has reserved comes back only when    *)
(* that same call fails.                                                   *)
ReserveObject(remaining) == remaining - 1
ReleaseObject(remaining) == remaining + 1

NewEntry(ref, kind, rights) ==
  [object |-> ref, kind |-> kind, rights |-> rights, parent |-> None]

(* The common tail of the create calls: commit_reserved, then              *)
(* install_reserved, in the slots the preflight found.                     *)
Publish(p, kind, payload, rights) ==
  LET id == First(FreeIds)
  IN  /\ FreeIds # {}
      /\ FreeSlots(Handles(p)) # {}
      /\ processes[p].remaining > 0
      /\ objects' = [objects EXCEPT ![id] = AddHandle(NewObject(kind, payload))]
      /\ processes' = [processes EXCEPT ![p] =
           [ handles   |-> PutEntry(@.handles, NewEntry(RefTo(id), kind, rights)),
             remaining |-> ReserveObject(@.remaining) ]]

(* ProcessTable::create_bootstrap: a process and, in its first slot, a     *)
(* handle to its own Process object.  When the object cannot be created    *)
(* the process is not published either.                                    *)
CreateBootstrapProcess(p) ==
  LET id == First(FreeIds)
      table == PutEntry(EmptyTable, NewEntry(RefTo(id), "Process", {"READ", "MANAGE"}))
  IN  /\ ~Running(p) /\ p = First(FreeIn(processes, ProcessIds))
      /\ ObjectQuota > 0
      /\ HandleCapacity > 0
      /\ FreeIds # {}
      /\ objects' = [objects EXCEPT ![id] = AddHandle(NewObject("Process", "Initial"))]
      /\ processes' = [processes EXCEPT ![p] =
           [handles |-> table, remaining |-> ReserveObject(ObjectQuota)]]
      /\ UNCHANGED <<generations, frames>>

-----------------------------------------------------------------------------
(* System calls: objects and handles.                                      *)

(* CreateObject and CreateAddressSpace.                                    *)
CreateObject(p, kind, rights) ==
  /\ Publish(p, kind, NewPayload(kind), rights)
  /\ UNCHANGED <<generations, frames>>

CreateMemoryObject(p, size, rights) ==
  LET range == FreeRun(frames, size)
      owner == RefTo(First(FreeIds))
  IN  /\ RunStarts(frames, size) # {}
      /\ Publish(p, "MemoryObject", NewMemoryObject(range), rights)
      /\ frames' = Grant(frames, PagesOf(range), owner)
      /\ UNCHANGED generations

(* What an error branch does to the budget: the call has reserved one      *)
(* object, or two, and gives them back before it returns the error.  All   *)
(* that a create call does after its preflight (commit_reserved and        *)
(* install_reserved into the slots found) cannot fail any more.            *)
PutsBackOne(p) ==
  /\ processes' = [processes EXCEPT ![p].remaining = ReleaseObject(ReserveObject(@))]
  /\ UNCHANGED <<objects, generations, frames>>

PutsBackTwo(p) ==
  /\ processes' = [processes EXCEPT ![p].remaining =
       ReleaseObject(ReleaseObject(ReserveObject(ReserveObject(@))))]
  /\ UNCHANGED <<objects, frames>>

(* The three checks of a create call's preflight, in their order.          *)
CreateFindsNoSlot(p) ==
  /\ processes[p].remaining > 0
  /\ FreeSlots(Handles(p)) = {}
  /\ PutsBackOne(p)

(* Mutant: the branch for a full object table keeps the reservation.       *)
CreateFindsNoEntry_KeepsBudget(p) ==
  /\ processes[p].remaining > 0
  /\ FreeSlots(Handles(p)) # {}
  /\ FreeIds = {}
  /\ processes' = [processes EXCEPT ![p].remaining = ReserveObject(@)]
  /\ UNCHANGED <<objects, generations, frames>>

CreateFindsNoEntry(p) ==
  /\ processes[p].remaining > 0
  /\ FreeSlots(Handles(p)) # {}
  /\ FreeIds = {}
  /\ PutsBackOne(p)

CreateFindsNoFrames(p, size) ==
  /\ processes[p].remaining > 0
  /\ FreeSlots(Handles(p)) # {}
  /\ FreeIds # {}
  /\ RunStarts(frames, size) = {}
  /\ PutsBackOne(p)

CreateRolledBack(p) ==
  \/ CreateFindsNoSlot(p)
  \/ CreateFindsNoEntry(p)
  \/ \E size \in MemorySizes : CreateFindsNoFrames(p, size)

DuplicateHandle(p, source, rights) ==
  LET table == Handles(p)
      e == table.entry[source]
  IN  /\ source \in Nameable(table)
      /\ CanDerive(table, source, rights)
      /\ Valid(e.object, e.kind)
      /\ FreeSlots(table) # {}
      /\ objects' = [objects EXCEPT ![e.object.id] = AddHandle(@)]
      /\ processes' = [processes EXCEPT
           ![p].handles = PutEntry(@, DerivedEntry(@, source, rights))]
      /\ UNCHANGED <<generations, frames>>

(* HandleTable::close on the slots of a set, all naming the object of ref. *)
CloseSlots(p, S, ref) ==
  /\ CanRemove(Handles(p), S)
  /\ processes' = [processes EXCEPT ![p].handles = RemoveEntries(@, S)]
  /\ Reclaim([objects EXCEPT ![ref.id] = RemoveHandles(@, Cardinality(S))], ref.id)

CloseHandle(p, i) ==
  LET ref == Handles(p).entry[i].object
  IN  /\ i \in Nameable(Handles(p))
      /\ Live(ref)
      /\ CanCloseAfter(objects[ref.id], 0)
      /\ CloseSlots(p, {i}, ref)

(* revoke_descendants closes the descendants from the first slot on and    *)
(* stops at the first close that fails.                                    *)
Revocable(p, root) == Descendants(Handles(p), root) \ {root}

ClosedByRevoke(p, root) ==
  LET table == Handles(p)
      collected == Revocable(p, root)
      Before(j) == Cardinality({k \in collected : k < j})
      Closes(j) ==
        /\ ValidHandle(table, HandleOf(table, j))
        /\ CanCloseAfter(objects[table.entry[root].object.id], Before(j))
  IN  {j \in collected : \A k \in collected : k <= j => Closes(k)}

RevokeDescendants(p, root) ==
  LET ref == Handles(p).entry[root].object
  IN  /\ root \in Nameable(Handles(p))
      /\ Live(ref)
      /\ CloseSlots(p, ClosedByRevoke(p, root), ref)

-----------------------------------------------------------------------------
(* System calls: channels.                                                 *)

Linked(endpoint, peer) == [endpoint EXCEPT !.peer = peer]

CreateChannelPair(p, max, rights) ==
  LET first == First(FreeIds)
      second == First(FreeIds \ {first})
      End(peer) == AddHandle(NewObject("ChannelEndpoint",
                                       Linked(NewEndpoint(max), RefTo(peer))))
      Entry(id) == NewEntry(RefTo(id), "ChannelEndpoint", rights)
  IN  /\ processes[p].remaining >= 2
      /\ Cardinality(FreeSlots(Handles(p))) >= 2
      /\ max <= MaxChannelMessages
      /\ Cardinality(FreeIds) >= 2
      /\ objects' = [objects EXCEPT ![first] = End(second), ![second] = End(first)]
      /\ processes' = [processes EXCEPT ![p] =
           [ handles   |-> PutEntry(PutEntry(@.handles, Entry(first)), Entry(second)),
             remaining |-> ReserveObject(ReserveObject(@.remaining)) ]]
      /\ UNCHANGED <<generations, frames>>

(* The budget has the first object of a pair and not the second.           *)
SecondObjectRefused(p) ==
  /\ processes[p].remaining = 1
  /\ PutsBackOne(p)

(* Mutant: only the first of the two reservations is given back.           *)
PairFindsNoSlots_PutsBackOne(p) ==
  /\ processes[p].remaining >= 2
  /\ Cardinality(FreeSlots(Handles(p))) < 2
  /\ processes' = [processes EXCEPT ![p].remaining =
       ReleaseObject(ReserveObject(ReserveObject(@)))]
  /\ UNCHANGED <<objects, generations, frames>>

(* Both are in the budget, but there is no room for two handles.           *)
PairFindsNoSlots(p) ==
  /\ processes[p].remaining >= 2
  /\ Cardinality(FreeSlots(Handles(p))) < 2
  /\ PutsBackTwo(p)
  /\ UNCHANGED generations

(* The first endpoint is refused: too many messages asked for, or no entry.*)
PairRefused(p, max) ==
  /\ processes[p].remaining >= 2
  /\ Cardinality(FreeSlots(Handles(p))) >= 2
  /\ max > MaxChannelMessages \/ FreeIds = {}
  /\ PutsBackTwo(p)
  /\ UNCHANGED generations

(* The second one finds no entry: the first, made a moment ago, is         *)
(* destroyed again, which uses up a generation of its entry.               *)
PairLosesFirst(p, max) ==
  LET first == First(FreeIds)
  IN  /\ processes[p].remaining >= 2
      /\ Cardinality(FreeSlots(Handles(p))) >= 2
      /\ max <= MaxChannelMessages
      /\ Cardinality(FreeIds) = 1
      /\ generations[first] < MaxObjectGeneration
      /\ PutsBackTwo(p)
      /\ generations' = [generations EXCEPT ![first] = @ + 1]

ChannelPairRolledBack(p, max) ==
  PairFindsNoSlots(p) \/ PairRefused(p, max) \/ PairLosesFirst(p, max)

(* send_channel_message moves the entries of the slots in `moved`, in that *)
(* order, to the peer's queue.  The channel's own handle may be one.       *)
ChannelSend(p, channel, moved) ==
  LET table == Handles(p)
      peer == objects[ObjectOf(p, channel)].payload.peer
      message == [k \in DOMAIN moved |-> table.entry[moved[k]]]
      slots == {moved[k] : k \in DOMAIN moved}
  IN  /\ Lookup(p, channel, "ChannelEndpoint", {"WRITE"})
      /\ ~objects[ObjectOf(p, channel)].payload.peerClosed
      /\ peer # None
      /\ Valid(peer, "ChannelEndpoint")
      /\ CanEnqueue(objects[peer.id].payload)
      /\ \A k \in DOMAIN moved :
           Lookup(p, moved[k], table.entry[moved[k]].kind, {"TRANSFER"})
      /\ CanRemove(table, slots)
      /\ objects' = [objects EXCEPT ![peer.id].payload = Enqueue(@, message)]
      /\ processes' = [processes EXCEPT ![p].handles = RemoveEntries(@, slots)]
      /\ UNCHANGED <<generations, frames>>

ChannelRecv(p, channel) ==
  LET id == ObjectOf(p, channel)
      endpoint == objects[id].payload
  IN  /\ Lookup(p, channel, "ChannelEndpoint", {"READ"})
      /\ Waiting(endpoint) # {}
      /\ Len(NextMessage(endpoint)) <= Cardinality(FreeSlots(Handles(p)))
      /\ objects' = [objects EXCEPT ![id].payload = Dequeue(@)]
      /\ processes' = [processes EXCEPT
           ![p].handles = PutEntries(@, NextMessage(endpoint))]
      /\ UNCHANGED <<generations, frames>>

-----------------------------------------------------------------------------
(* System calls: address spaces.                                           *)

MayMap(p, space, memory, request) ==
  /\ Lookup(p, space, "AddressSpace", {"MANAGE"})
  /\ Lookup(p, memory, "MemoryObject", request.rights)

MappingFor(p, memory, request) ==
  [ base   |-> request.base,
    size   |-> request.size,
    memory |-> RefTo(ObjectOf(p, memory)),
    offset |-> request.offset,
    rights |-> request.rights ]

MapMemoryObject(p, space, memory, request) ==
  LET s == ObjectOf(p, space)
      m == ObjectOf(p, memory)
      mapping == MappingFor(p, memory, request)
      counted == [objects EXCEPT ![m].payload = AddMapping(@)]
  IN  /\ MayMap(p, space, memory, request)
      /\ CanMap(objects[s].payload, objects[m].payload, mapping)
      /\ objects' = [counted EXCEPT ![s].payload = CommitMap(@, mapping)]
      /\ UNCHANGED <<generations, processes, frames>>

(* The address space refuses the range after the memory object has already *)
(* counted the mapping.                                                    *)
MapRolledBack(p, space, memory, request) ==
  LET m == ObjectOf(p, memory)
  IN  /\ MayMap(p, space, memory, request)
      /\ ~CanMap(objects[ObjectOf(p, space)].payload, objects[m].payload,
                 MappingFor(p, memory, request))
      /\ objects' = [objects EXCEPT ![m].payload = RemoveMapping(AddMapping(@))]
      /\ UNCHANGED <<generations, processes, frames>>

UnmapAddressRange(p, space, base, size) ==
  LET s == ObjectOf(p, space)
  IN  /\ Lookup(p, space, "AddressSpace", {"MANAGE"})
      /\ CanUnmap(objects[s].payload, base, size)
      /\ objects[s].payload.nextSequence < MaxSequence
      /\ objects' = [objects EXCEPT ![s].payload = CommitUnmap(@, base, size)]
      /\ UNCHANGED <<generations, processes, frames>>

(* Mutant: handing out the last reference does not reclaim.                *)
FlushAddressSpaceTlb_NoReclaim(p, space) ==
  LET s == ObjectOf(p, space)
      memory == objects[s].payload.work[NextWork(objects[s].payload)].memory
      taken == [objects EXCEPT ![s].payload = TakeWork(@)]
  IN  /\ Lookup(p, space, "AddressSpace", {"MANAGE"})
      /\ Owed(objects[s].payload) # {}
      /\ objects' = [taken EXCEPT ![memory.id].payload = RemoveMapping(@)]
      /\ UNCHANGED <<generations, processes, frames>>

(* The oldest pending invalidation is handed out, and the memory object it *)
(* kept alive loses that reference.                                        *)
FlushAddressSpaceTlb(p, space) ==
  LET s == ObjectOf(p, space)
      memory == objects[s].payload.work[NextWork(objects[s].payload)].memory
      taken == [objects EXCEPT ![s].payload = TakeWork(@)]
  IN  /\ Lookup(p, space, "AddressSpace", {"MANAGE"})
      /\ Owed(objects[s].payload) # {}
      /\ Valid(memory, "MemoryObject")
      /\ objects[memory.id].payload.activeMappings > 0
      /\ Reclaim([taken EXCEPT ![memory.id].payload = RemoveMapping(@)], memory.id)
      /\ UNCHANGED processes

-----------------------------------------------------------------------------
(* ObjectManager methods no system call reaches, which the embedder of the *)
(* kernel may call between two system calls.                               *)

Destroyable(object) ==
  /\ object.kind # "MemoryObject"
  /\ object.kind = "ChannelEndpoint" => object.payload.queued = 0
  /\ object.kind = "AddressSpace" => CanDestroySpace(object.payload)

(* Mutant: nobody is told.                                                 *)
LosesPeer_Never(id, other) == FALSE

(* The endpoint that learns from the destruction of id that it is alone.   *)
LosesPeer(id, other) ==
  /\ objects[id].kind = "ChannelEndpoint"
  /\ objects[id].payload.peer # None
  /\ objects[id].payload.peer.id = other
  /\ Valid(objects[id].payload.peer, "ChannelEndpoint")

(* Mutant: the entry of a destroyed object keeps its generation.           *)
DestroyObject_SameGeneration(id) ==
  /\ "destroy" \in HostCalls
  /\ objects[id] # None
  /\ Destroyable(objects[id])
  /\ objects' = [o \in ObjectIds |->
       IF o = id THEN None
       ELSE IF LosesPeer(id, o) THEN [objects[o] EXCEPT !.payload.peerClosed = TRUE]
       ELSE objects[o]]
  /\ UNCHANGED <<generations, processes, frames>>

DestroyObject(id) ==
  /\ "destroy" \in HostCalls
  /\ objects[id] # None
  /\ Destroyable(objects[id])
  /\ generations[id] < MaxObjectGeneration
  /\ objects' = [o \in ObjectIds |->
       IF o = id THEN None
       ELSE IF LosesPeer(id, o) THEN [objects[o] EXCEPT !.payload.peerClosed = TRUE]
       ELSE objects[o]]
  /\ generations' = [generations EXCEPT ![id] = @ + 1]
  /\ UNCHANGED <<processes, frames>>

(* signal_event and clear_event.                                           *)
SetEvent(id, state) ==
  /\ "event" \in HostCalls
  /\ objects[id] # None
  /\ objects[id].kind = "Event"
  /\ objects' = [objects EXCEPT ![id].payload = state]
  /\ UNCHANGED <<generations, processes, frames>>

-----------------------------------------------------------------------------

(* The handle lists a process can send: no slot twice.                     *)
HandleLists ==
  UNION {{l \in [1 .. n -> Slots] : \A j, k \in 1 .. n : l[j] = l[k] => j = k} :
           n \in 0 .. MaxMessageHandles}

ObjectCall(p) ==
  \/ \E kind \in CreatableKinds, rights \in RightsChoices : CreateObject(p, kind, rights)
  \/ \E size \in MemorySizes, rights \in RightsChoices : CreateMemoryObject(p, size, rights)
  \/ CreateRolledBack(p)
  \/ \E source \in Slots, rights \in RightsChoices : DuplicateHandle(p, source, rights)
  \/ \E i \in Slots : CloseHandle(p, i)
  \/ \E root \in Slots : RevokeDescendants(p, root)

ChannelCall(p) ==
  \/ \E max \in MessageLimits, rights \in RightsChoices : CreateChannelPair(p, max, rights)
  \/ SecondObjectRefused(p)
  \/ \E max \in MessageLimits : ChannelPairRolledBack(p, max)
  \/ \E channel \in Slots, moved \in HandleLists : ChannelSend(p, channel, moved)
  \/ \E channel \in Slots : ChannelRecv(p, channel)

SpaceCall(p) ==
  \/ \E space, memory \in Slots, request \in MapRequests :
       MapMemoryObject(p, space, memory, request)
  \/ \E space, memory \in Slots, request \in MapRequests :
       MapRolledBack(p, space, memory, request)
  \/ \E space \in Slots, request \in MapRequests :
       UnmapAddressRange(p, space, request.base, request.size)
  \/ \E space \in Slots : FlushAddressSpaceTlb(p, space)

SystemCall(p) == Running(p) /\ (ObjectCall(p) \/ ChannelCall(p) \/ SpaceCall(p))

(* What the host does to objects that processes have handles to.  It could *)
(* make objects too (create, create_channel_pair), which no process could  *)
(* name and only take up entries; and call add_handle and remove_handle,   *)
(* which here are the halves of install and remove that they are.          *)
HostCall ==
  \/ \E id \in ObjectIds : DestroyObject(id)
  \/ \E id \in ObjectIds, state \in {"Unsignaled", "Signaled"} : SetEvent(id, state)

Next ==
  \/ \E p \in ProcessIds : CreateBootstrapProcess(p)
  \/ \E p \in ProcessIds : SystemCall(p)
  \/ HostCall

Spec == Init /\ [][Next]_vars

=============================================================================
