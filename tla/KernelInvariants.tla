--------------------------- MODULE KernelInvariants ---------------------------
(***************************************************************************)
(* What the kernel of Kernel.tla keeps true, whatever calls are made.      *)
(***************************************************************************)
EXTENDS Kernel

(* Every variable holds what the Rust types and the two generation arrays  *)
(* allow, and the payload of an object is the one of its kind.             *)
TypeOK ==
  /\ objects = [id \in ObjectIds |-> objects[id]]
  /\ \A id \in ObjectIds : objects[id] # None =>
       objects[id].kind \in ObjectKinds /\ objects[id] \in ObjectsOf(objects[id].kind)
  /\ generations \in [ObjectIds -> 1 .. MaxObjectGeneration]
  /\ processes \in [ProcessIds -> Processes \cup {None}]
  /\ frames \in FrameTables(ObjectRefs)

-----------------------------------------------------------------------------
(* Who refers to what.                                                     *)

LiveIds == {id \in ObjectIds : objects[id] # None}

OfKind(kind) == {id \in LiveIds : objects[id].kind = kind}

TableSlots ==
  {l \in ProcessIds \X Slots : Running(l[1]) /\ l[2] \in Occupied(Handles(l[1]))}

EntryAt(l) == Handles(l[1]).entry[l[2]]

(* A handle on its way: endpoint, message slot, place in the message.      *)
TransitSlots ==
  {l \in ObjectIds \X MessageSlots \X (1 .. MaxMessageHandles) :
     /\ l[1] \in OfKind("ChannelEndpoint")
     /\ l[2] \in Waiting(objects[l[1]].payload)
     /\ l[3] \in DOMAIN objects[l[1]].payload.messages[l[2]]}

InTransit(l) == objects[l[1]].payload.messages[l[2]][l[3]]

HeldIn(ref) == {l \in TableSlots : EntryAt(l).object = ref}

CarriedIn(ref) == {l \in TransitSlots : InTransit(l).object = ref}

EntriesOf(ref) ==
  {EntryAt(l) : l \in HeldIn(ref)} \cup {InTransit(l) : l \in CarriedIn(ref)}

AllEntries ==
  {EntryAt(l) : l \in TableSlots} \cup {InTransit(l) : l \in TransitSlots}

MappedAt(ref) ==
  {l \in ObjectIds \X RangeSlots :
     /\ l[1] \in OfKind("AddressSpace")
     /\ l[2] \in Mapped(objects[l[1]].payload)
     /\ objects[l[1]].payload.mappings[l[2]].memory = ref}

AwaitedAt(ref) ==
  {l \in ObjectIds \X WorkSlots :
     /\ l[1] \in OfKind("AddressSpace")
     /\ l[2] \in Owed(objects[l[1]].payload)
     /\ objects[l[1]].payload.work[l[2]].memory = ref}

-----------------------------------------------------------------------------
(* Objects and handles.                                                    *)

(* An object's handle_count, which decides whether a close is the last,    *)
(* is the number of handles to it in tables and in queued messages: a      *)
(* transfer neither loses nor adds one, though neither end of it touches   *)
(* the count.                                                              *)
HandleCountAccurate ==
  \A id \in LiveIds :
    objects[id].handleCount =
      Cardinality(HeldIn(RefTo(id))) + Cardinality(CarriedIn(RefTo(id)))

(* A handle always leads to an object of the kind it was made for, whether *)
(* it sits in a table or in a message: while only system calls run, no     *)
(* object goes away under a handle.                                        *)
NoDanglingHandle == \A e \in AllEntries : Valid(e.object, e.kind)

(* Even when the host destroys objects under their handles, a handle that  *)
(* still passes the generation check names an object of its own kind.      *)
NoKindConfusion ==
  \A e \in AllEntries : Live(e.object) => objects[e.object.id].kind = e.kind

(* A derived handle has no right its parent lacks, names the same object,  *)
(* and was derived with the parent's DUPLICATE right; moving either of     *)
(* them through a channel does not change that.                            *)
DerivedRightsShrink ==
  \A p \in ProcessIds : Running(p) =>
    \A i, j \in Slots : Child(Handles(p), i, j) =>
      LET parent == Handles(p).entry[i]
          child == Handles(p).entry[j]
      IN  /\ child.rights \subseteq parent.rights
          /\ child.object = parent.object
          /\ "DUPLICATE" \in parent.rights

(* No handle descends from itself, so the walk of descends_from ends.      *)
LineageAcyclic ==
  \A p \in ProcessIds : Running(p) =>
    \A i \in Occupied(Handles(p)) : i \notin Descendants(Handles(p), i)

(* The close loop of revoke_descendants never stops half way: every handle *)
(* it collected can be closed.                                             *)
RevokeIsComplete ==
  \A p \in ProcessIds : Running(p) =>
    \A root \in Nameable(Handles(p)) :
      Live(Handles(p).entry[root].object) => ClosedByRevoke(p, root) = Revocable(p, root)

(* Every entry can be named: the handle value that install returned, and   *)
(* that its owner holds, passes valid_entry.                               *)
EveryEntryNameable ==
  \A p \in ProcessIds : Running(p) => Nameable(Handles(p)) = Occupied(Handles(p))

(* A handle derived from another one, directly or not, is still found as   *)
(* its descendant after any call that leaves both where they are: revoking *)
(* the ancestor will delete it.                                            *)
DescentSurvives ==
  [][\A p \in ProcessIds : Running(p) =>
       LET before == Handles(p)
           after == processes'[p].handles
           Kept(i) == /\ after.entry[i] = before.entry[i]
                      /\ after.generation[i] = before.generation[i]
       IN  \A root \in Nameable(before) : \A i \in Descendants(before, root) :
             Kept(root) /\ Kept(i) => i \in Descendants(after, root)]_vars

(* What a process can get at: the live objects its handles name, and those *)
(* carried by the messages that wait at an endpoint it can get at, as deep *)
(* as messages hold endpoints.  S encloses p when it leaves none out.      *)
Encloses(p, S) ==
  /\ \A i \in Occupied(Handles(p)) :
       LET ref == Handles(p).entry[i].object IN Live(ref) => ref.id \in S
  /\ \A l \in TransitSlots :
       LET ref == InTransit(l).object IN l[1] \in S /\ Live(ref) => ref.id \in S

Reach(p) == {id \in LiveIds : \A S \in SUBSET LiveIds : Encloses(p, S) => id \in S}

SpentBy(p) == IF Running(p) THEN ObjectQuota - processes[p].remaining ELSE 0

(* A process never gets at more objects than it has paid for out of its    *)
(* own budget, whatever it sends itself and receives: neither another      *)
(* process nor a call that failed gives it one for nothing.                *)
ReachIsCharged ==
  \A p \in ProcessIds : Running(p) => Cardinality(Reach(p)) <= SpentBy(p)

(* Every object reference that was ever given out.                         *)
Born == {ref \in ObjectRefs : ref.generation < generations[ref.id] \/ Live(ref)}

(* Nothing is paid for in vain: the units of budget gone from the          *)
(* processes are no more than the objects that live or lived, so that the  *)
(* error branches of the create calls have put back what they took.        *)
NothingSpentInVain ==
  Cardinality({u \in ProcessIds \X (1 .. ObjectQuota) : u[2] <= SpentBy(u[1])})
    <= Cardinality(Born)

(* The calls never carry a handle from one process to another: a channel's *)
(* two ends start in one table and an end can only travel through itself   *)
(* or through another channel of that table.                               *)
ProcessesConfined ==
  \A l, m \in TableSlots : l[1] # m[1] => EntryAt(l).object # EntryAt(m).object

(* Within one generation a slot goes from empty to one entry and no        *)
(* further: a handle value never names a second entry.                     *)
HandleNeverReassigned ==
  [][\A p \in ProcessIds, i \in Slots : Running(p) =>
       LET before == Handles(p).entry[i]
           after == processes'[p].handles.entry[i]
       IN  \/ processes'[p].handles.generation[i] > Handles(p).generation[i]
           \/ /\ processes'[p].handles.generation[i] = Handles(p).generation[i]
              /\ after = before \/ before = None]_vars

(* An object id and generation that have died stay dead, and until then    *)
(* they name one object of one kind.                                       *)
ObjectNeverRevived ==
  [][\A id \in ObjectIds :
       /\ generations'[id] >= generations[id]
       /\ objects[id] # None =>
            \/ generations'[id] > generations[id]
            \/ objects'[id] # None /\ objects'[id].kind = objects[id].kind]_vars

-----------------------------------------------------------------------------
(* Channels.                                                               *)

(* The counter that bounds a queue is the number of queued messages, and   *)
(* it never passes the limit: a send that saw room finds a free slot, and  *)
(* its rollback path is never taken.                                       *)
QueueCountAccurate ==
  \A id \in OfKind("ChannelEndpoint") : ConsistentQueue(objects[id].payload)

(* The two ends of a pair name each other, and an end is told that it is   *)
(* alone exactly when the other end is gone.                               *)
PeersAgree ==
  \A id \in OfKind("ChannelEndpoint") :
    LET endpoint == objects[id].payload
    IN  endpoint.peer # None =>
          /\ endpoint.peerClosed <=> ~Live(endpoint.peer)
          /\ Live(endpoint.peer) =>
               /\ objects[endpoint.peer.id].kind = "ChannelEndpoint"
               /\ objects[endpoint.peer.id].payload.peer = RefTo(id)

-----------------------------------------------------------------------------
(* Memory.                                                                 *)

(* active_mappings counts the mappings of a memory object and the          *)
(* invalidations that unmaps of it still owe.                              *)
MappingCountAccurate ==
  \A id \in OfKind("MemoryObject") :
    objects[id].payload.activeMappings =
      Cardinality(MappedAt(RefTo(id))) + Cardinality(AwaitedAt(RefTo(id)))

(* A memory object is there, with its frames, as long as a mapping or a    *)
(* pending TLB invalidation could still reach them, whatever happened to   *)
(* its handles.                                                            *)
MappedMemoryStays ==
  \A s \in OfKind("AddressSpace") :
    /\ \A i \in RangeSlots :
         LET m == objects[s].payload.mappings[i]
         IN  m # None =>
               /\ Valid(m.memory, "MemoryObject")
               /\ m.offset + m.size <= SizeOf(objects[m.memory.id].payload)
    /\ \A i \in WorkSlots :
         LET w == objects[s].payload.work[i]
         IN  w # None => Valid(w.memory, "MemoryObject")

(* A frame is allocated exactly when it backs a live memory object, at the *)
(* generation it was granted for: none is lost, none backs two objects.    *)
FramesBackMemory ==
  /\ \A id \in OfKind("MemoryObject") :
       OwnsRange(frames, objects[id].payload.frames, RefTo(id))
  /\ \A p \in Pages \ Free(frames) :
       /\ Valid(frames[p].owner, "MemoryObject")
       /\ p \in PagesOf(objects[frames[p].owner.id].payload.frames)

(* A memory object nobody can reach is gone: the last close and the last   *)
(* flush each reclaim it when the other came first.                        *)
UnreachableMemoryReclaimed ==
  \A id \in OfKind("MemoryObject") :
    objects[id].handleCount > 0 \/ objects[id].payload.activeMappings > 0

(* The two counters that admit, refuse and destroy are right in every      *)
(* address space, ranges do not overlap and sequence numbers order the     *)
(* pending invalidations.                                                  *)
SpaceConsistent ==
  \A s \in OfKind("AddressSpace") : ConsistentSpace(objects[s].payload)

(* An address space that still has ranges or pending work has a handle.    *)
BusySpaceHasHandle ==
  \A s \in OfKind("AddressSpace") :
    CanDestroySpace(objects[s].payload) \/ objects[s].handleCount > 0

=============================================================================
