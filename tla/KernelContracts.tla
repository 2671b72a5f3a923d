---------------------------- MODULE KernelContracts ----------------------------
(***************************************************************************)
(* The kernel implements its three contracts: each is instantiated with    *)
(* what its variables are in a state of Kernel.tla, and its specification  *)
(* is a property of the runs.                                              *)
(***************************************************************************)
EXTENDS KernelInvariants

(* Every entry there is, with the place it is at: in a table or in a       *)
(* message.                                                                *)
Placed ==
  {<<"table", l, EntryAt(l)>> : l \in TableSlots}
    \cup {<<"message", l, InTransit(l)>> : l \in TransitSlots}

CapabilitiesIn(placed) ==
  [ rights \in {e[3].rights : e \in placed} |->
      Cardinality({e \in placed : e[3].rights = rights}) ]

AllCapabilities ==
  LET placed == Placed
  IN  [ref \in ObjectRefs |-> CapabilitiesIn({e \in placed : e[3].object = ref})]

Capabilities ==
  INSTANCE CapabilityContract WITH
    Refs   <- ObjectRefs,
    Rights <- HandleRights,
    Copy   <- "DUPLICATE",
    born   <- Born,
    caps   <- AllCapabilities

(* The capabilities that the handles in the slots S of p are.              *)
RightsAt(p, S) ==
  [ rights \in {Handles(p).entry[i].rights : i \in S} |->
      Cardinality({i \in S : Handles(p).entry[i].rights = rights}) ]

DuplicateAddsOne(p, was, is) ==
  \A source \in Slots, rights \in RightsChoices :
    LET e == Handles(p).entry[source]
    IN  DuplicateHandle(p, source, rights) =>
          Capabilities!Derive(was, is, e.object, e.rights, rights)

CloseTakesOne(p, was, is) ==
  \A i \in Slots :
    CloseHandle(p, i) =>
      Capabilities!Drop(was, is, Handles(p).entry[i].object, RightsAt(p, {i}))

RevokeTakesAll(p, was, is) ==
  \A root \in Slots :
    RevokeDescendants(p, root) =>
      Capabilities!Drop(was, is, Handles(p).entry[root].object,
                        RightsAt(p, Revocable(p, root)))

Transfers(p) ==
  \/ \E channel \in Slots, moved \in HandleLists : ChannelSend(p, channel, moved)
  \/ \E channel \in Slots : ChannelRecv(p, channel)

CreateFails(p) == CreateRolledBack(p) \/ SecondObjectRefused(p)

(* No sequence of calls makes, widens, loses or doubles a capability       *)
(* except by creating an object, and each call does to the capabilities    *)
(* what its name says: a duplicate adds the one asked for, a close and a   *)
(* revocation take away those of the handles they close, and all of them;  *)
(* send and receive, with two handles to a message and the channel's own   *)
(* among them, take none away and add none, and neither does a call on an  *)
(* address space, a create call that fails or a call of the host.          *)
ImplementsCapabilities ==
  /\ Capabilities!Spec
  /\ [][\E was \in {AllCapabilities}, is \in {AllCapabilities'} :
          /\ \A p \in ProcessIds : Running(p) =>
               /\ DuplicateAddsOne(p, was, is)
               /\ CloseTakesOne(p, was, is)
               /\ RevokeTakesAll(p, was, is)
               /\ Transfers(p) \/ SpaceCall(p) \/ CreateFails(p) =>
                    Capabilities!Move(was, is)
          /\ HostCall => Capabilities!Move(was, is)]_vars

RangeOf(m) == [memory |-> m.memory, base |-> m.base, size |-> m.size]

(* The invalidations of a space in the order of their sequence numbers.    *)
Backlog(space) ==
  LET owed == {space.work[i] : i \in Owed(space)}
      rank(w) == Cardinality({v \in owed : v.sequence < w.sequence})
  IN  [n \in 1 .. Cardinality(owed) |-> RangeOf(CHOOSE w \in owed : rank(w) = n - 1)]

MappingsOf(space) ==
  [ ranges  |-> {RangeOf(space.mappings[i]) : i \in Mapped(space)},
    backlog |-> Backlog(space) ]

AllMappings ==
  [s \in ObjectIds |->
     IF s \in OfKind("AddressSpace")
     THEN MappingsOf(objects[s].payload)
     ELSE [ranges |-> {}, backlog |-> <<>>]]

AddressSpacesHere ==
  INSTANCE MappingContract WITH
    Spaces     <- ObjectIds,
    MaxBacklog <- MaxPendingTlbInvalidations,
    spaces     <- AllMappings

(* Every unmap queues one invalidation of what it took away, they are      *)
(* handed out in the order of the unmaps wherever their slots are, and no  *)
(* close or destruction drops one.                                         *)
ImplementsMappings == AddressSpacesHere!Spec

(* A handle, in a table or a message, a mapping or a pending invalidation. *)
Reachable(ref) ==
  LET Names(entry) == entry.kind = "MemoryObject" /\ entry.object = ref
  IN  \/ \E l \in TableSlots : Names(EntryAt(l))
      \/ \E l \in TransitSlots : Names(InTransit(l))
      \/ \E s \in OfKind("AddressSpace") :
           \/ \E i \in Mapped(objects[s].payload) : objects[s].payload.mappings[i].memory = ref
           \/ \E i \in Owed(objects[s].payload) : objects[s].payload.work[i].memory = ref

Holdings ==
  [ref \in ObjectRefs |->
     [ frames    |-> {p \in Pages \ Free(frames) : frames[p].owner = ref},
       reachable |-> Reachable(ref) ]]

Memory ==
  INSTANCE MemoryContract WITH
    Owners    <- ObjectRefs,
    PageRange <- Pages,
    holds     <- Holdings

(* Two counters decide when a memory object is reclaimed; together they do *)
(* what a search of every table, message, mapping and pending invalidation *)
(* would: the frames go with the last of these, not before and not after.  *)
ImplementsMemory == Memory!Spec

=============================================================================
