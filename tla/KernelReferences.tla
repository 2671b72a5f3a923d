--------------------------- MODULE KernelReferences ---------------------------
(***************************************************************************)
(* Why references stay truthful: what a handle, a queued message or an     *)
(* endpoint's peer names is the object it was made for, handles stay in    *)
(* the process that made them, and derived handles only lose rights.       *)
(*                                                                         *)
(* Every call is reduced to what it does to three views of the state: the  *)
(* entry in a table slot, the message in a queue slot and the peer of an   *)
(* endpoint.                                                               *)
(*                                                                         *)
(* From there on, why what the tables say of each other agrees: the two    *)
(* ends of a channel, the chain of handles a handle was derived from, and  *)
(* the count of an object and the handles that lead to it.                 *)
(***************************************************************************)
EXTENDS KernelProofs

IsEndpoint(id) == objects[id] # None /\ objects[id].kind = "ChannelEndpoint"

At(q, i) == IF Running(q) THEN Handles(q).entry[i] ELSE None

Queue(id, m) == IF IsEndpoint(id) THEN objects[id].payload.messages[m] ELSE None

Peer(id) == IF IsEndpoint(id) THEN objects[id].payload.peer ELSE None

Closed(id) == IsEndpoint(id) /\ objects[id].payload.peerClosed = TRUE

(* What a call may leave alone.                                            *)
SlotsStay == \A q \in ProcessIds, i \in Slots : At(q, i)' = At(q, i)

QueuesStay == \A id \in ObjectIds, m \in MessageSlots : Queue(id, m)' = Queue(id, m)

PeersStay == \A id \in ObjectIds : Peer(id)' = Peer(id)

ClosedStay == \A id \in ObjectIds : Closed(id)' <=> Closed(id)

(* A generation is only ever passed by an entry that holds no object.      *)
GenerationsFree ==
  \A id \in ObjectIds : objects'[id] # None => generations'[id] = generations[id]

NothingNew == \A id \in ObjectIds : objects'[id] # None => objects[id] # None

(* A reference does not run ahead of its entry, so that whatever the entry *)
(* holds next has another generation.                                      *)
RefBehind(r) ==
  /\ r.generation <= generations[r.id]
  /\ objects[r.id] = None => r.generation < generations[r.id]

(* The parent of an entry e of process q is a passed generation of its     *)
(* slot or an entry of at least the rights of e.                           *)
Lineage(q, e) ==
  e.parent # None =>
    LET i == e.parent.index
    IN  \/ e.parent.generation < Handles(q).generation[i]
        \/ /\ e.parent.generation = Handles(q).generation[i]
           /\ At(q, i) # None
           /\ At(q, i).object = e.object
           /\ e.rights \subseteq At(q, i).rights
           /\ "DUPLICATE" \in At(q, i).rights

(* An entry that belongs to process q, in its table or on its way to it.   *)
Sound(owner, q, e) ==
  /\ RefBehind(e.object)
  /\ Live(e.object) => objects[e.object.id].kind = e.kind
  /\ owner[e.object] = q
  /\ Lineage(q, e)

(* An entry in a message that waits at endpoint id.                        *)
InQueue(id, e) ==
  \E m \in MessageSlots :
    Queue(id, m) # None /\ \E k \in DOMAIN Queue(id, m) : Queue(id, m)[k] = e

(* The entries of process q: those in its table and those waiting at its   *)
(* endpoints.                                                              *)
Belongs(owner, q, e) ==
  \/ \E i \in Slots : At(q, i) = e
  \/ \E id \in ObjectIds : InQueue(id, e) /\ owner[RefTo(id)] = q

(* Every object has a process it was made by, and every handle to it and   *)
(* every message in its queue belong to that process.                      *)
SoundRefs(owner) ==
  /\ \A q \in ProcessIds, e \in Entries : Belongs(owner, q, e) => Sound(owner, q, e)
  /\ \A id \in ObjectIds, r \in ObjectRefs : Peer(id) = r =>
       RefBehind(r) /\ owner[r] = owner[RefTo(id)]
  /\ \A id \in ObjectIds : objects[id] # None =>
       owner[RefTo(id)] \in ProcessIds /\ Running(owner[RefTo(id)])

Owners == [ObjectRefs -> 0 .. ProcessCapacity]

ReferencesOK == KernelOK /\ \E owner \in Owners : SoundRefs(owner)

(* What a call does that makes no object: entries go, or come from a place *)
(* where they were sound.                                                  *)
Moves(owner) ==
  /\ \A q \in ProcessIds, e \in Entries :
       Belongs(owner, q, e)' => Belongs(owner, q, e) \/ (Running(q) /\ Sound(owner, q, e))
  /\ \A id \in ObjectIds : Peer(id)' \in {Peer(id), None}
  /\ GenerationsFree
  /\ NothingNew

(* The payloads that the create calls start with.                          *)
Fresh(kind, payload) ==
  /\ kind = "ChannelEndpoint" => \A m \in MessageSlots : payload.messages[m] = None
  /\ kind = "AddressSpace" => payload = NewAddressSpace
  /\ kind = "MemoryObject" => payload.activeMappings = 0

(* What a call does that makes the objects of the ids N for process p, and *)
(* one handle to each of them.                                             *)
Creates(p, N) ==
  /\ \A id \in N : /\ objects[id] = None /\ objects'[id] # None
                   /\ Fresh(objects'[id].kind, objects'[id].payload)
                   /\ objects'[id].handleCount = 1
                   /\ \E i \in Slots : \A j \in Slots :
                        At(p, j)' # At(p, j) /\ At(p, j)'.object = RefTo(id) <=> j = i
  /\ \A q \in ProcessIds, i \in Slots :
       \/ At(q, i)' = At(q, i)
       \/ /\ q = p /\ At(q, i) = None
          /\ At(q, i)' \in Entries /\ At(q, i)'.parent = None
          /\ \E id \in N : /\ At(q, i)'.object = RefTo(id)
                           /\ At(q, i)'.kind = objects'[id].kind
  /\ QueuesStay
  /\ \A id \in ObjectIds : \/ Peer(id)' = Peer(id)
                           \/ /\ id \in N /\ ~Closed(id)'
                              /\ \E other \in N : /\ Peer(id)' = RefTo(other)
                                                  /\ Peer(other)' = RefTo(id)
  /\ \E rights \in SUBSET HandleRights : \A i \in Slots :
       At(p, i)' = At(p, i) \/ At(p, i)'.rights = rights
  /\ \A id \in ObjectIds \ N : objects'[id] = objects[id]
  /\ Running(p)'
  /\ UNCHANGED generations

(* Only p pays, one unit of its budget for each of the objects of N.       *)
Charges(p, N) ==
  \A q \in ProcessIds : SpentBy(q)' = SpentBy(q) + (IF q = p THEN Cardinality(N) ELSE 0)

(* What a call that makes objects does.                                    *)
Buys(p) == \E N \in SUBSET ObjectIds : Creates(p, N) /\ Charges(p, N)

-----------------------------------------------------------------------------
(* The views.                                                              *)

(* The views hold entries, messages and references.                        *)
LEMMA ViewTypes ==
  ASSUME KernelOK
  PROVE  /\ \A q \in ProcessIds, i \in Slots : At(q, i) \in Entries \cup {None}
         /\ \A id \in ObjectIds, m \in MessageSlots : Queue(id, m) \in Messages \cup {None}
         /\ \A id \in ObjectIds : Peer(id) \in ObjectRefs \cup {None}
<1>1. ASSUME NEW q \in ProcessIds, NEW i \in Slots
      PROVE  At(q, i) \in Entries \cup {None}
  BY RunningProcess DEF At, Tables
<1>2. ASSUME NEW id \in ObjectIds, IsEndpoint(id)
      PROVE  objects[id].payload \in Endpoints
  BY <1>2, LiveObject, PayloadOf DEF IsEndpoint, WellFormedEndpoint
<1>3. ASSUME NEW id \in ObjectIds, NEW m \in MessageSlots
      PROVE  Queue(id, m) \in Messages \cup {None}
  BY <1>2 DEF Queue, Endpoints
<1>4. ASSUME NEW id \in ObjectIds
      PROVE  Peer(id) \in ObjectRefs \cup {None}
  BY <1>2 DEF Peer, Endpoints
<1> QED
  BY <1>1, <1>3, <1>4

(* The entries of a message.                                               *)
LEMMA MessageEntries ==
  ASSUME NEW message \in Messages
  PROVE  /\ message \in Seq(Entries)
         /\ Len(message) \in Nat /\ Len(message) <= MaxMessageHandles
         /\ DOMAIN message = 1 .. Len(message)
         /\ \A k \in DOMAIN message : message[k] \in Entries
         /\ message # None
BY NoneIsNoMessage DEF Messages

(* An entry is not None, and what it refers to is a reference.             *)
LEMMA EntryParts ==
  ASSUME NEW e \in Entries
  PROVE  /\ e # None
         /\ e.object \in ObjectRefs
         /\ e.object.id \in ObjectIds
         /\ e.object.generation \in Nat
         /\ e.kind \in ObjectKinds
         /\ e.parent \in HandleValues \cup {None}
BY NoneIsNothing, KernelNamesAssumption DEF Entries, ObjectRefs

(* What replacing the table of one process does to the slots.              *)
LEMMA SlotsAfterProcess ==
  ASSUME KernelOK, NEW p \in ProcessIds, NEW t \in Tables, NEW r \in Nat,
         processes' = [processes EXCEPT ![p] = [handles |-> t, remaining |-> r]]
  PROVE  \A q \in ProcessIds, i \in Slots :
           At(q, i)' = IF q = p THEN t.entry[i] ELSE At(q, i)
<1> DEFINE proc == [handles |-> t, remaining |-> r]
<1>1. proc \in Processes /\ proc.handles = t
  BY DEF Processes
<1>2. proc # None
  BY <1>1, NoneIsNothingElse
<1>3. processes' = [processes EXCEPT ![p] = proc]
  OBVIOUS
<1> HIDE DEF proc
<1> QED
  BY <1>1, <1>2, <1>3 DEF KernelOK, At, Running, Handles

(* The same for a call that changes the table and not the budget.          *)
LEMMA SlotsAfterTable ==
  ASSUME KernelOK, NEW p \in ProcessIds, Running(p), NEW t \in Tables,
         processes' = [processes EXCEPT ![p].handles = t]
  PROVE  \A q \in ProcessIds, i \in Slots :
           At(q, i)' = IF q = p THEN t.entry[i] ELSE At(q, i)
<1>1. PICK h \in Tables, n \in Nat : processes[p] = [handles |-> h, remaining |-> n]
  BY RunningProcess DEF Processes
<1>2. [processes[p] EXCEPT !.handles = t] = [handles |-> t, remaining |-> n]
  BY <1>1
<1>3. processes' = [processes EXCEPT ![p] = [handles |-> t, remaining |-> n]]
  BY <1>2
<1> QED
  BY <1>3, SlotsAfterProcess

(* Calls that keep every endpoint keep the queues and the peers.           *)
LEMMA EndpointsStay ==
  ASSUME \A id \in ObjectIds :
           /\ IsEndpoint(id)' <=> IsEndpoint(id)
           /\ IsEndpoint(id) => objects'[id].payload = objects[id].payload
  PROVE  QueuesStay /\ PeersStay /\ ClosedStay
<1>1. ASSUME NEW id \in ObjectIds, NEW m \in MessageSlots
      PROVE  Queue(id, m)' = Queue(id, m) /\ Peer(id)' = Peer(id)
  <2>1. CASE IsEndpoint(id)
    BY <2>1 DEF Queue, Peer
  <2>2. CASE ~IsEndpoint(id)
    BY <2>2 DEF Queue, Peer
  <2> QED
    BY <2>1, <2>2
<1>2. ASSUME NEW id \in ObjectIds
      PROVE  Peer(id)' = Peer(id)
  <2>1. CASE IsEndpoint(id)
    BY <2>1 DEF Peer
  <2>2. CASE ~IsEndpoint(id)
    BY <2>2 DEF Peer
  <2> QED
    BY <2>1, <2>2
<1>3. ASSUME NEW id \in ObjectIds
      PROVE  Closed(id)' <=> Closed(id)
  <2>1. CASE IsEndpoint(id)
    BY <2>1 DEF Closed
  <2>2. CASE ~IsEndpoint(id)
    BY <2>2 DEF Closed
  <2> QED
    BY <2>1, <2>2
<1> QED
  BY <1>1, <1>2, <1>3 DEF QueuesStay, PeersStay, ClosedStay

-----------------------------------------------------------------------------
(* What every step keeps.                                                  *)

(* A reference that was behind its entry stays behind, and does not come   *)
(* back to life.                                                           *)
LEMMA BehindKept ==
  ASSUME KernelOK, StepOK, NEW r \in ObjectRefs, RefBehind(r)
  PROVE  /\ RefBehind(r)'
         /\ Live(r)' => Live(r) /\ objects'[r.id].kind = objects[r.id].kind
<1>1. r.id \in ObjectIds /\ r.generation \in Nat
  BY KernelNamesAssumption DEF ObjectRefs
<1>2. generations[r.id] \in Nat /\ generations'[r.id] \in Nat
  BY <1>1, KernelNamesAssumption DEF StepOK, KernelOK
<1>3. /\ generations'[r.id] >= generations[r.id]
      /\ objects[r.id] # None =>
           \/ generations'[r.id] > generations[r.id]
           \/ objects'[r.id] # None /\ objects'[r.id].kind = objects[r.id].kind
  BY <1>1 DEF StepOK, ObjectsKept
<1>4. RefBehind(r)'
  BY <1>1, <1>2, <1>3 DEF RefBehind
<1>5. ASSUME Live(r)'
      PROVE  Live(r) /\ objects'[r.id].kind = objects[r.id].kind
  BY <1>1, <1>2, <1>3, <1>5 DEF RefBehind, Live
<1> QED
  BY <1>4, <1>5

(* Processes run on, and their slots keep their entries within a           *)
(* generation.                                                             *)
LEMMA SlotsKept ==
  ASSUME KernelOK, StepOK, NEW q \in ProcessIds, Running(q)
  PROVE  /\ Running(q)'
         /\ \A i \in Slots :
              /\ Handles(q).generation[i] \in Nat /\ Handles(q)'.generation[i] \in Nat
              /\ \/ Handles(q)'.generation[i] > Handles(q).generation[i]
                 \/ /\ Handles(q)'.generation[i] = Handles(q).generation[i]
                    /\ At(q, i)' = At(q, i) \/ At(q, i) = None
<1>1. Handles(q)' \in TablesAfter(Handles(q))
  BY DEF StepOK, ProcessesAfter, Handles
<1>2. Handles(q) \in Tables /\ Handles(q)' \in Tables
  BY <1>1, RunningProcess DEF TablesAfter
<1>3. Running(q)'
  BY DEF StepOK, ProcessesAfter, Running
<1> QED
  BY <1>1, <1>2, <1>3, HandleTableAssumption DEF TablesAfter, SlotKept, Tables, At

(* A parent that an entry descends from is found again, or its slot has    *)
(* moved on.                                                               *)
LEMMA LineageKept ==
  ASSUME KernelOK, StepOK, NEW q \in ProcessIds, Running(q), NEW e \in Entries, Lineage(q, e)
  PROVE  Lineage(q, e)'
<1> SUFFICES ASSUME e.parent # None
             PROVE  Lineage(q, e)'
  BY DEF Lineage
<1> DEFINE i == e.parent.index
<1>1. i \in Slots /\ e.parent.generation \in Nat
  BY EntryParts, HandleTableAssumption DEF HandleValues
<1>2. /\ Handles(q).generation[i] \in Nat /\ Handles(q)'.generation[i] \in Nat
      /\ \/ Handles(q)'.generation[i] > Handles(q).generation[i]
         \/ /\ Handles(q)'.generation[i] = Handles(q).generation[i]
            /\ At(q, i)' = At(q, i) \/ At(q, i) = None
  BY <1>1, SlotsKept
<1>3. CASE e.parent.generation < Handles(q).generation[i]
  BY <1>1, <1>2, <1>3 DEF Lineage
<1>4. CASE /\ e.parent.generation = Handles(q).generation[i]
           /\ At(q, i) # None
           /\ At(q, i).object = e.object
           /\ e.rights \subseteq At(q, i).rights
           /\ "DUPLICATE" \in At(q, i).rights
  <2>1. CASE Handles(q)'.generation[i] > Handles(q).generation[i]
    BY <1>1, <1>2, <1>4, <2>1 DEF Lineage
  <2>2. CASE Handles(q)'.generation[i] = Handles(q).generation[i] /\ At(q, i)' = At(q, i)
    BY <1>4, <2>2 DEF Lineage
  <2> QED
    BY <1>2, <1>4, <2>1, <2>2
<1> QED
  BY <1>3, <1>4 DEF Lineage

(* An entry that was sound stays so wherever it is.                        *)
LEMMA SoundKept ==
  ASSUME KernelOK, StepOK, NEW q \in ProcessIds, Running(q), NEW e \in Entries,
         NEW owner, Sound(owner, q, e)
  PROVE  Sound(owner, q, e)'
<1>1. RefBehind(e.object)' /\ (Live(e.object)' => Live(e.object) /\ objects'[e.object.id].kind = objects[e.object.id].kind)
  BY EntryParts, BehindKept DEF Sound
<1>2. Lineage(q, e)'
  BY LineageKept DEF Sound
<1> QED
  BY <1>1, <1>2 DEF Sound

(* An object that lives on has the reference it had.                       *)
LEMMA RefsStay ==
  ASSUME GenerationsFree, NEW id \in ObjectIds, objects'[id] # None
  PROVE  RefTo(id)' = RefTo(id)
BY DEF GenerationsFree, RefTo

(* Only a running process has entries.                                     *)
LEMMA OwnerRuns ==
  ASSUME KernelOK, NEW owner, SoundRefs(owner), NEW q \in ProcessIds, NEW e \in Entries,
         Belongs(owner, q, e)
  PROVE  Running(q)
<1>1. ASSUME NEW i \in Slots, At(q, i) = e
      PROVE  Running(q)
  BY <1>1, EntryParts DEF At
<1>2. ASSUME NEW id \in ObjectIds, InQueue(id, e), owner[RefTo(id)] = q
      PROVE  Running(q)
  <2>1. objects[id] # None
    BY <1>2 DEF InQueue, Queue, IsEndpoint
  <2> QED
    BY <1>2, <2>1 DEF SoundRefs
<1> QED
  BY <1>1, <1>2 DEF Belongs

(* Moving and dropping entries keeps the rest sound.                       *)
LEMMA MovesSound ==
  ASSUME KernelOK, StepOK, NEW owner, SoundRefs(owner), Moves(owner)
  PROVE  SoundRefs(owner)'
<1>1. ASSUME NEW q \in ProcessIds, NEW e \in Entries, Belongs(owner, q, e)'
      PROVE  Sound(owner, q, e)'
  <2>1. Running(q) /\ Sound(owner, q, e)
    BY <1>1, OwnerRuns DEF Moves, SoundRefs
  <2> QED
    BY <2>1, SoundKept
<1>2. ASSUME NEW id \in ObjectIds, NEW r \in ObjectRefs, Peer(id)' = r
      PROVE  RefBehind(r)' /\ owner[r] = owner[RefTo(id)']
  <2>1. Peer(id) = r
    BY <1>2, NoneIsNoRef DEF Moves
  <2>2. RefBehind(r) /\ owner[r] = owner[RefTo(id)]
    BY <2>1 DEF SoundRefs
  <2>3. objects'[id] # None
    BY <1>2, NoneIsNoRef DEF Peer, IsEndpoint
  <2> QED
    BY <2>2, <2>3, BehindKept, RefsStay DEF Moves
<1>3. ASSUME NEW id \in ObjectIds, objects'[id] # None
      PROVE  owner[RefTo(id)'] \in ProcessIds /\ processes'[owner[RefTo(id)']] # None
  <2>1. objects[id] # None /\ RefTo(id)' = RefTo(id)
    BY <1>3, RefsStay DEF Moves, NothingNew
  <2>2. PICK q \in ProcessIds : q = owner[RefTo(id)] /\ Running(q)
    BY <2>1 DEF SoundRefs
  <2>3. Running(q)'
    BY <2>2, SlotsKept
  <2> QED
    BY <2>1, <2>2, <2>3 DEF Running
<1> QED
  BY <1>1, <1>2, <1>3 DEF SoundRefs, Running

(* New objects go to the process that made them; nothing refers to their   *)
(* entries at this generation yet.                                         *)
LEMMA CreatesSound ==
  ASSUME KernelOK, StepOK, NEW owner \in Owners, SoundRefs(owner),
         NEW p \in ProcessIds, NEW N \in SUBSET ObjectIds, Creates(p, N)
  PROVE  \E after \in Owners :
           /\ SoundRefs(after)'
           /\ \A id \in ObjectIds :
                after[RefTo(id)'] = IF id \in N THEN p ELSE owner[RefTo(id)]
<1> DEFINE Mine(r) == \E id \in N : r = RefTo(id)
<1>1. PICK after \in Owners :
        \A r \in ObjectRefs : after[r] = IF Mine(r) THEN p ELSE owner[r]
  <2> DEFINE mapped == [r \in ObjectRefs |-> IF Mine(r) THEN p ELSE owner[r]]
  <2>1. p \in 0 .. ProcessCapacity
    BY KernelAssumption DEF ProcessIds
  <2>2. mapped \in Owners
    BY <2>1 DEF Owners
  <2> QED
    BY <2>2
<1>2. \A id \in ObjectIds : RefTo(id) \in ObjectRefs /\ RefTo(id)' = RefTo(id)
  BY RefType DEF Creates, RefTo
<1>3. ASSUME NEW r \in ObjectRefs, RefBehind(r)
      PROVE  after[r] = owner[r]
  <2>1. ~Mine(r)
    <3> SUFFICES ASSUME NEW id \in N, r = RefTo(id)
                 PROVE  FALSE
      OBVIOUS
    <3>1. r.id = id /\ r.generation = generations[id] /\ objects[id] = None
      BY DEF RefTo, Creates
    <3>2. generations[id] \in Nat
      BY KernelNamesAssumption DEF KernelOK
    <3> QED
      BY <1>3, <3>1, <3>2 DEF RefBehind
  <2> QED
    BY <1>1, <2>1
<1>4. \A id \in N : after[RefTo(id)] = p
  BY <1>1, <1>2
<1>5. \A id \in ObjectIds \ N : after[RefTo(id)] = owner[RefTo(id)]
  <2>1. \A id, other \in ObjectIds : RefTo(id) = RefTo(other) => id = other
    BY DEF RefTo
  <2> QED
    BY <1>1, <1>2, <2>1
<1>6. ASSUME NEW q \in ProcessIds, NEW e \in Entries, Sound(owner, q, e)
      PROVE  Sound(after, q, e)
  <2>1. after[e.object] = owner[e.object]
    BY <1>3, <1>6, EntryParts DEF Sound
  <2> QED
    BY <1>6, <2>1 DEF Sound
<1>7. ASSUME NEW q \in ProcessIds, NEW e \in Entries, Belongs(after, q, e)'
      PROVE  Sound(after, q, e)'
  <2>1. ASSUME Belongs(owner, q, e)
        PROVE  Sound(after, q, e)'
    BY <1>6, <2>1, OwnerRuns, SoundKept DEF SoundRefs
  <2>2. ASSUME NEW id \in ObjectIds, InQueue(id, e)', after[RefTo(id)'] = q
        PROVE  Sound(after, q, e)'
    <3>1. InQueue(id, e)
      BY <2>2 DEF InQueue, Creates, QueuesStay
    <3>2. id \notin N
      BY <3>1 DEF InQueue, Queue, IsEndpoint, Creates
    <3>3. owner[RefTo(id)] = q
      BY <1>2, <1>5, <2>2, <3>2
    <3> QED
      BY <2>1, <3>1, <3>3 DEF Belongs
  <2>3. ASSUME NEW i \in Slots, At(q, i)' = e, At(q, i)' # At(q, i)
        PROVE  Sound(after, q, e)'
    <3>1. PICK id \in N : /\ q = p /\ e.parent = None
                          /\ e.object = RefTo(id)
                          /\ e.kind = objects'[id].kind
                          /\ objects'[id] # None
      BY <2>3 DEF Creates
    <3>2. e.object.id = id /\ e.object.generation = generations'[id]
      BY <3>1 DEF RefTo, Creates
    <3>3. RefBehind(e.object)'
      <4>1. generations'[id] \in Nat
        BY KernelNamesAssumption DEF StepOK, KernelOK
      <4> QED
        BY <3>1, <3>2, <4>1 DEF RefBehind
    <3>4. Live(e.object)' => objects'[e.object.id].kind = e.kind
      BY <3>1, <3>2
    <3>5. Lineage(q, e)'
      BY <3>1 DEF Lineage
    <3>6. after[e.object] = q
      BY <1>4, <3>1
    <3> QED
      BY <3>3, <3>4, <3>5, <3>6 DEF Sound
  <2> QED
    BY <1>7, <2>1, <2>2, <2>3 DEF Belongs
<1>8. ASSUME NEW id \in ObjectIds, NEW r \in ObjectRefs, Peer(id)' = r
      PROVE  RefBehind(r)' /\ after[r] = after[RefTo(id)']
  <2>1. CASE Peer(id) = r
    <3>1. id \notin N
      BY <2>1, NoneIsNoRef DEF Peer, IsEndpoint, Creates
    <3>2. RefBehind(r) /\ owner[r] = owner[RefTo(id)]
      BY <2>1 DEF SoundRefs
    <3> QED
      BY <1>2, <1>3, <1>5, <3>1, <3>2, BehindKept
  <2>2. CASE Peer(id) # r
    <3>1. PICK other \in N : id \in N /\ r = RefTo(other) /\ objects'[other] # None
      BY <1>8, <2>2 DEF Creates
    <3>2. generations'[other] \in Nat /\ r.id = other /\ r.generation = generations'[other]
      BY <3>1, KernelNamesAssumption DEF StepOK, KernelOK, RefTo, Creates
    <3>3. RefBehind(r)'
      BY <3>1, <3>2 DEF RefBehind
    <3> QED
      BY <1>2, <1>4, <3>1, <3>3
  <2> QED
    BY <2>1, <2>2
<1>9. ASSUME NEW id \in ObjectIds, objects'[id] # None
      PROVE  after[RefTo(id)'] \in ProcessIds /\ processes'[after[RefTo(id)']] # None
  <2>1. CASE id \in N
    BY <1>2, <1>4, <2>1 DEF Creates, Running
  <2>2. CASE id \notin N
    <3>1. objects[id] # None
      BY <1>9, <2>2 DEF Creates
    <3>2. PICK q \in ProcessIds : q = owner[RefTo(id)] /\ Running(q)
      BY <3>1 DEF SoundRefs
    <3>3. Running(q)'
      BY <3>2, SlotsKept
    <3> QED
      BY <1>2, <1>5, <2>2, <3>2, <3>3 DEF Running
  <2> QED
    BY <2>1, <2>2
<1>10. SoundRefs(after)'
  BY <1>7, <1>8, <1>9 DEF SoundRefs, Running
<1>11. \A id \in ObjectIds : after[RefTo(id)'] = IF id \in N THEN p ELSE owner[RefTo(id)]
  BY <1>2, <1>4, <1>5
<1> QED
  BY <1>1, <1>10, <1>11

-----------------------------------------------------------------------------
(* What each call does to the views.                                       *)

(* An object that a call leaves alone as far as endpoints are concerned:   *)
(* only its handle count changes, or it is no endpoint.                    *)
Alike(id) ==
  \/ objects'[id] = objects[id]
  \/ /\ objects[id] # None /\ objects'[id] # None
     /\ objects'[id].kind = objects[id].kind /\ objects'[id].payload = objects[id].payload
  \/ /\ objects[id] # None /\ objects[id].kind # "ChannelEndpoint"
     /\ objects'[id] # None => objects'[id].kind = objects[id].kind

AllAlike == \A id \in ObjectIds : Alike(id)

(* What lives on has as many handles as before.                            *)
CountsStay ==
  \A id \in ObjectIds : objects'[id] # None => objects'[id].handleCount = objects[id].handleCount

(* A call that neither moves handles nor touches endpoints.                *)
Still == AllAlike /\ GenerationsFree /\ SlotsStay /\ CountsStay

(* Such calls keep the queues and the peers and make no object.            *)
LEMMA AlikeKeeps ==
  ASSUME AllAlike
  PROVE  QueuesStay /\ PeersStay /\ ClosedStay /\ NothingNew
<1>1. ASSUME NEW id \in ObjectIds
      PROVE  /\ IsEndpoint(id)' <=> IsEndpoint(id)
             /\ IsEndpoint(id) => objects'[id].payload = objects[id].payload
             /\ objects'[id] # None => objects[id] # None
  <2>1. Alike(id)
    BY DEF AllAlike
  <2> QED
    BY <2>1 DEF Alike, IsEndpoint
<1> QED
  BY <1>1, EndpointsStay DEF NothingNew

(* Entries that only go leave nothing to ask about.                        *)
LEMMA FewerMoves ==
  ASSUME KernelOK, NEW owner,
         \A q \in ProcessIds, i \in Slots : At(q, i)' \in {At(q, i), None},
         QueuesStay,
         \A id \in ObjectIds : Peer(id)' \in {Peer(id), None},
         GenerationsFree, NothingNew
  PROVE  Moves(owner)
<1>1. ASSUME NEW q \in ProcessIds, NEW e \in Entries, Belongs(owner, q, e)'
      PROVE  Belongs(owner, q, e)
  <2>1. ASSUME NEW i \in Slots, At(q, i)' = e
        PROVE  Belongs(owner, q, e)
    BY <2>1, EntryParts DEF Belongs
  <2>2. ASSUME NEW id \in ObjectIds, InQueue(id, e)', owner[RefTo(id)'] = q
        PROVE  Belongs(owner, q, e)
    <3>1. InQueue(id, e)
      BY <2>2 DEF InQueue, QueuesStay
    <3>2. objects'[id] # None
      BY <2>2 DEF InQueue, Queue, IsEndpoint
    <3> QED
      BY <2>2, <3>1, <3>2, RefsStay DEF Belongs
  <2> QED
    BY <1>1, <2>1, <2>2 DEF Belongs
<1> QED
  BY <1>1 DEF Moves

(* reclaim_memory_object_if_unreferenced changes the entry of id and no    *)
(* other.                                                                  *)
LEMMA ReclaimEffect ==
  ASSUME KernelOK, NEW objs \in ObjectsAfter, NEW id \in ObjectIds, Reclaim(objs, id),
         NEW o \in ObjectIds
  PROVE  \/ objects'[o] = objs[o] /\ generations'[o] = generations[o]
         \/ o = id /\ Unreferenced(objs[id]) /\ objects'[o] = None
<1>1. objs \in ObjectTables /\ generations \in [ObjectIds -> 1 .. MaxObjectGeneration]
  BY DEF ObjectsAfter, KernelOK
<1>2. CASE Unreferenced(objs[id])
  <2>1. /\ generations' = [generations EXCEPT ![id] = generations[id] + 1]
        /\ objects' = [objs EXCEPT ![id] = None]
    BY <1>2 DEF Reclaim
  <2> QED
    BY <1>1, <1>2, <2>1 DEF ObjectTables
<1>3. CASE ~Unreferenced(objs[id])
  BY <1>3 DEF Reclaim
<1> QED
  BY <1>2, <1>3

(* Reclaiming after a change that leaves endpoints alone leaves them alone *)
(* too: only memory objects are reclaimed.                                 *)
LEMMA ReclaimAlike ==
  ASSUME KernelOK, NEW objs \in ObjectsAfter, NEW id \in ObjectIds, Reclaim(objs, id),
         objects[id] # None,
         \A o \in ObjectIds :
           \/ objs[o] = objects[o]
           \/ /\ objects[o] # None /\ objs[o] # None
              /\ objs[o].kind = objects[o].kind /\ objs[o].payload = objects[o].payload
           \/ /\ objects[o] # None /\ objects[o].kind # "ChannelEndpoint"
  PROVE  AllAlike /\ GenerationsFree
<1>1. ASSUME NEW o \in ObjectIds
      PROVE  Alike(o) /\ (objects'[o] # None => generations'[o] = generations[o])
  <2>1. objects[o] # None => objs[o] # None /\ objs[o].kind = objects[o].kind
    BY DEF ObjectsAfter
  <2>2. CASE objects'[o] = objs[o] /\ generations'[o] = generations[o]
    BY <2>1, <2>2 DEF Alike
  <2>3. CASE o = id /\ Unreferenced(objs[id]) /\ objects'[o] = None
    BY <2>1, <2>3 DEF Alike, Unreferenced
  <2> QED
    BY <2>2, <2>3, ReclaimEffect
<1> QED
  BY <1>1 DEF AllAlike, GenerationsFree

(* What a new generation of one table does: nothing, but to its slots.     *)
LEMMA TablesStay ==
  ASSUME UNCHANGED processes
  PROVE  SlotsStay
BY DEF SlotsStay, At, Running, Handles

-----------------------------------------------------------------------------
(* Calls that are undone.                                                  *)

(* A budget that is put back is the budget that was there.                 *)
LEMMA BudgetPutBack ==
  ASSUME KernelOK, NEW p \in ProcessIds, Running(p), NEW r, r = processes[p].remaining,
         processes' = [processes EXCEPT ![p].remaining = r]
  PROVE  UNCHANGED processes
<1>1. PICK h \in Tables, n \in Nat : processes[p] = [handles |-> h, remaining |-> n]
  BY RunningProcess DEF Processes
<1>2. [processes[p] EXCEPT !.remaining = r] = processes[p]
  BY <1>1
<1>3. processes' = [processes EXCEPT ![p] = processes[p]]
  BY <1>2
<1> QED
  BY <1>3 DEF KernelOK

(* The refused create calls.                                               *)
LEMMA CreateUndone ==
  ASSUME KernelOK, NEW p \in ProcessIds, Running(p),
         CreateRolledBack(p) \/ SecondObjectRefused(p)
  PROVE  UNCHANGED vars
<1>1. ReleaseObject(ReserveObject(processes[p].remaining)) = processes[p].remaining
  BY RunningProcess DEF ReleaseObject, ReserveObject
<1>2. UNCHANGED processes
  BY <1>1, BudgetPutBack
     DEF CreateRolledBack, CreateFindsNoSlot, CreateFindsNoEntry, CreateFindsNoFrames,
         SecondObjectRefused, PutsBackOne
<1> QED
  BY <1>2
     DEF CreateRolledBack, CreateFindsNoSlot, CreateFindsNoEntry, CreateFindsNoFrames,
         SecondObjectRefused, PutsBackOne, vars

(* A pair that is undone costs at most a generation of a free entry.       *)
LEMMA PairUndone ==
  ASSUME KernelOK, NEW p \in ProcessIds, Running(p), NEW max, ChannelPairRolledBack(p, max)
  PROVE  UNCHANGED <<objects, processes, frames>> /\ GenerationsFree
<1>1. ReleaseObject(ReleaseObject(ReserveObject(ReserveObject(processes[p].remaining)))) =
        processes[p].remaining
  BY RunningProcess DEF ReleaseObject, ReserveObject
<1>2. UNCHANGED processes /\ UNCHANGED <<objects, frames>>
  BY <1>1, BudgetPutBack
     DEF ChannelPairRolledBack, PairFindsNoSlots, PairRefused, PairLosesFirst, PutsBackTwo
<1>3. ASSUME NEW id \in ObjectIds, objects'[id] # None
      PROVE  generations'[id] = generations[id]
  <2>1. CASE PairLosesFirst(p, max)
    <3>1. objects[First(FreeIds)] = None
      BY <2>1, FS_EmptySet, FreeEntry DEF PairLosesFirst
    <3>2. id # First(FreeIds)
      BY <1>2, <1>3, <3>1
    <3> QED
      BY <2>1, <3>2 DEF PairLosesFirst, KernelOK
  <2> QED
    BY <2>1 DEF ChannelPairRolledBack, PairFindsNoSlots, PairRefused
<1> QED
  BY <1>2, <1>3 DEF GenerationsFree

(* A mapping that the address space refuses is uncounted again.            *)
LEMMA MapUndone ==
  ASSUME KernelOK, NEW p \in ProcessIds, Running(p),
         NEW space \in Slots, NEW memory \in Slots, NEW request \in MapRequests,
         MapRolledBack(p, space, memory, request)
  PROVE  UNCHANGED vars
<1> DEFINE m == ObjectOf(p, memory)
           payload == objects[m].payload
<1>1. /\ Lookup(p, memory, "MemoryObject", request.rights)
      /\ objects' = [objects EXCEPT ![m].payload = RemoveMapping(AddMapping(payload))]
      /\ UNCHANGED <<generations, processes, frames>>
  BY DEF MapRolledBack, MayMap
<1>2. m \in ObjectIds /\ objects[m] \in WellFormedObjects /\ objects[m].kind = "MemoryObject"
  BY <1>1, LookupObject
<1>3. payload \in MemoryObjects
  BY <1>2, PayloadOf
<1> HIDE DEF m, payload
<1>4. RemoveMapping(AddMapping(payload)) = payload
  <2>1. PICK f \in {r \in [start : Nat, end : Nat] : r.start < r.end}, n \in Nat :
          payload = [frames |-> f, activeMappings |-> n]
    BY <1>3 DEF MemoryObjects
  <2>2. AddMapping(payload) = [frames |-> f, activeMappings |-> n + 1]
    BY <2>1 DEF AddMapping
  <2>3. RemoveMapping([frames |-> f, activeMappings |-> n + 1]) =
          [frames |-> f, activeMappings |-> (n + 1) - 1]
    BY DEF RemoveMapping
  <2> QED
    BY <2>1, <2>2, <2>3
<1>5. [objects[m] EXCEPT !.payload = payload] = objects[m]
  <2>1. objects[m] = [ kind |-> objects[m].kind, handleCount |-> objects[m].handleCount,
                       payload |-> payload ]
    BY <1>2, ObjectParts DEF payload
  <2> QED
    BY <2>1
<1>6. objects' = [objects EXCEPT ![m] = objects[m]]
  BY <1>1, <1>4, <1>5
<1>7. objects' = objects
  BY <1>6 DEF KernelOK, ObjectTables
<1> QED
  BY <1>1, <1>7 DEF vars

-----------------------------------------------------------------------------
(* Calls that make objects.                                                *)

(* An object as the create calls put it into its entry.                    *)
LEMMA NewObjectParts ==
  ASSUME NEW kind, NEW payload
  PROVE  /\ AddHandle(NewObject(kind, payload)).kind = kind
         /\ AddHandle(NewObject(kind, payload)).payload = payload
         /\ AddHandle(NewObject(kind, payload)).handleCount = 1
BY DEF AddHandle, NewObject

(* A fresh entry.                                                          *)
LEMMA NewEntryParts ==
  ASSUME NEW ref, NEW kind, NEW rights
  PROVE  /\ NewEntry(ref, kind, rights).object = ref
         /\ NewEntry(ref, kind, rights).kind = kind
         /\ NewEntry(ref, kind, rights).parent = None
         /\ NewEntry(ref, kind, rights).rights = rights
BY DEF NewEntry

(* One object, and one handle to it in the table t of process p.           *)
LEMMA OneCreated ==
  ASSUME KernelOK, NEW p \in ProcessIds, NEW id \in ObjectIds, objects[id] = None,
         NEW kind \in ObjectKinds, NEW payload, WellFormedPayload(kind, payload),
         Fresh(kind, payload), kind = "ChannelEndpoint" => payload.peer = None,
         NEW rights \in SUBSET HandleRights, NEW r \in Nat,
         NEW t \in Tables, FreeSlots(t) # {}, \A i \in Slots : t.entry[i] = At(p, i),
         objects' = [objects EXCEPT ![id] = AddHandle(NewObject(kind, payload))],
         processes' = [processes EXCEPT ![p] =
           [handles |-> PutEntry(t, NewEntry(RefTo(id), kind, rights)), remaining |-> r]],
         UNCHANGED generations
  PROVE  Creates(p, {id})
<1> DEFINE e == NewEntry(RefTo(id), kind, rights)
           u == PutEntry(t, e)
           o == AddHandle(NewObject(kind, payload))
           s == First(FreeSlots(t))
<1>1. /\ e \in Entries /\ e.object = RefTo(id) /\ e.kind = kind /\ e.parent = None
      /\ e.rights = rights
  BY RefType, NewEntryType, NewEntryParts
<1>2. o \in WellFormedObjects /\ o # None /\ o.kind = kind /\ o.payload = payload
  <2>1. NewObject(kind, payload) \in WellFormedObjects
    BY MakeObject DEF NewObject
  <2> QED
    BY <2>1, AddHandleWellFormed, NewObjectParts, ObjectParts
<1>3. /\ s \in Slots /\ t.entry[s] = None
      /\ \A i \in Slots : u.entry[i] = IF i = s THEN e ELSE t.entry[i]
      /\ u \in Tables
  BY <1>1, PutEntrySlot, PutEntryType
<1> HIDE DEF e, o, s
<1>4. /\ \A q \in ProcessIds, i \in Slots : At(q, i)' = IF q = p THEN u.entry[i] ELSE At(q, i)
  <2> HIDE DEF u
  <2> QED
    BY <1>3, SlotsAfterProcess DEF e, u
<1>5. Running(p)'
  <2>1. processes'[p] = [handles |-> u, remaining |-> r]
    BY DEF KernelOK, e
  <2>2. [handles |-> u, remaining |-> r] \in Processes
    BY <1>3 DEF Processes
  <2> QED
    BY <2>1, <2>2, NoneIsNothingElse DEF Running
<1> HIDE DEF u
<1>6. /\ objects'[id] = o
      /\ \A other \in ObjectIds \ {id} : objects'[other] = objects[other]
  BY DEF KernelOK, ObjectTables, o
<1>7. \A q \in ProcessIds, i \in Slots :
        \/ At(q, i)' = At(q, i)
        \/ /\ q = p /\ At(q, i) = None
           /\ At(q, i)' \in Entries /\ At(q, i)'.parent = None
           /\ \E n \in {id} : At(q, i)'.object = RefTo(n) /\ At(q, i)'.kind = objects'[n].kind
  BY <1>1, <1>2, <1>3, <1>4, <1>6
<1>8. ASSUME NEW n \in ObjectIds, NEW m \in MessageSlots
      PROVE  Queue(n, m)' = Queue(n, m)
  BY <1>2, <1>6 DEF Queue, IsEndpoint, Fresh
<1>9. ASSUME NEW n \in ObjectIds
      PROVE  Peer(n)' = Peer(n)
  BY <1>2, <1>6 DEF Peer, IsEndpoint
<1>10. o.handleCount = 1
  BY NewObjectParts DEF o
<1>11. \A j \in Slots : At(p, j)' # At(p, j) /\ At(p, j)'.object = RefTo(id) <=> j = s
  BY <1>1, <1>3, <1>4, EntryParts
<1>12. \A j \in Slots : At(p, j)' = At(p, j) \/ At(p, j)'.rights = rights
  BY <1>1, <1>3, <1>4
<1> QED
  BY <1>2, <1>3, <1>5, <1>6, <1>7, <1>8, <1>9, <1>10, <1>11, <1>12 DEF Creates, QueuesStay

(* What every process has spent is a number.                               *)
LEMMA SpentIsNumber ==
  ASSUME KernelOK, NEW q \in ProcessIds
  PROVE  SpentBy(q) \in Int
BY RunningProcess, KernelAssumption DEF SpentBy

(* A process that pays for as many objects as it makes.                    *)
LEMMA PaysFor ==
  ASSUME KernelOK, NEW p \in ProcessIds, NEW N, NEW after,
         processes' = [processes EXCEPT ![p] = after],
         SpentBy(p)' = SpentBy(p) + Cardinality(N)
  PROVE  Charges(p, N)
<1>1. ASSUME NEW q \in ProcessIds, q # p
      PROVE  SpentBy(q)' = SpentBy(q) + 0
  <2>1. processes'[q] = processes[q]
    BY <1>1 DEF KernelOK
  <2>2. SpentBy(q)' = SpentBy(q)
    BY <2>1 DEF SpentBy, Running
  <2> QED
    BY <2>2, SpentIsNumber
<1> QED
  BY <1>1 DEF Charges

(* The shared tail of the create calls.                                    *)
LEMMA PublishCreates ==
  ASSUME KernelOK, NEW p \in ProcessIds, Running(p),
         NEW kind \in ObjectKinds, NEW payload, WellFormedPayload(kind, payload),
         Fresh(kind, payload), kind = "ChannelEndpoint" => payload.peer = None,
         NEW rights \in SUBSET HandleRights,
         Publish(p, kind, payload, rights), UNCHANGED generations
  PROVE  Buys(p)
<1> DEFINE id == First(FreeIds)
           r == ReserveObject(processes[p].remaining)
<1>1. id \in ObjectIds /\ objects[id] = None
  BY FreeEntry DEF Publish
<1>2. Handles(p) \in Tables /\ r \in Nat
  BY RunningProcess DEF Publish, ReserveObject
<1>3. \A i \in Slots : Handles(p).entry[i] = At(p, i)
  BY DEF At
<1>4. /\ FreeSlots(Handles(p)) # {}
      /\ objects' = [objects EXCEPT ![id] = AddHandle(NewObject(kind, payload))]
      /\ processes' = [processes EXCEPT ![p] =
           [handles |-> PutEntry(Handles(p), NewEntry(RefTo(id), kind, rights)), remaining |-> r]]
  BY DEF Publish, Handles
<1> HIDE DEF id, r
<1>5. Creates(p, {id})
  BY <1>1, <1>2, <1>3, <1>4, OneCreated
<1>6. Charges(p, {id})
  <2>1. processes'[p].remaining = r
    BY <1>4 DEF KernelOK
  <2>2. r = processes[p].remaining - 1 /\ processes[p].remaining \in Nat
    BY RunningProcess DEF r, ReserveObject
  <2>3. Running(p)'
    BY <1>5 DEF Creates
  <2>4. SpentBy(p)' = SpentBy(p) + 1
    BY <2>1, <2>2, <2>3, KernelAssumption DEF SpentBy
  <2> QED
    BY <1>4, <2>4, PaysFor, FS_Singleton
<1> QED
  BY <1>1, <1>5, <1>6 DEF Buys

(* create_bootstrap.                                                       *)
LEMMA BootstrapCreates ==
  ASSUME KernelOK, NEW p \in ProcessIds, CreateBootstrapProcess(p)
  PROVE  Buys(p)
<1> DEFINE id == First(FreeIds)
           r == ReserveObject(ObjectQuota)
<1>1. id \in ObjectIds /\ objects[id] = None
  BY FreeEntry DEF CreateBootstrapProcess
<1>2. r \in Nat
  BY KernelAssumption DEF CreateBootstrapProcess, ReserveObject
<1>3. /\ EmptyTable \in Tables /\ FreeSlots(EmptyTable) # {}
      /\ \A i \in Slots : EmptyTable.entry[i] = At(p, i)
  <2>1. 0 \in Slots
    BY HandleTableAssumption DEF CreateBootstrapProcess, Slots
  <2> QED
    BY <2>1, EmptyTableType DEF EmptyTable, FreeSlots, Occupied, At, CreateBootstrapProcess
<1>4. /\ objects' = [objects EXCEPT ![id] = AddHandle(NewObject("Process", "Initial"))]
      /\ processes' = [processes EXCEPT ![p] =
           [ handles   |-> PutEntry(EmptyTable, NewEntry(RefTo(id), "Process", {"READ", "MANAGE"})),
             remaining |-> r ]]
      /\ UNCHANGED generations
  BY DEF CreateBootstrapProcess
<1>5. /\ WellFormedPayload("Process", "Initial") /\ "Process" \in ObjectKinds
      /\ {"READ", "MANAGE"} \in SUBSET HandleRights
  BY PayloadKinds DEF ObjectKinds, HandleRights
<1> HIDE DEF id, r
<1>6. Fresh("Process", "Initial")
  BY DEF Fresh
<1>7. Creates(p, {id})
  BY <1>1, <1>2, <1>3, <1>4, <1>5, <1>6, OneCreated
<1>8. Charges(p, {id})
  <2>1. processes'[p].remaining = ObjectQuota - 1 /\ ~Running(p)
    BY <1>4 DEF KernelOK, r, ReserveObject, CreateBootstrapProcess
  <2>2. Running(p)'
    BY <1>7 DEF Creates
  <2>3. SpentBy(p)' = SpentBy(p) + 1
    BY <2>1, <2>2, KernelAssumption DEF SpentBy
  <2> QED
    BY <1>4, <2>3, PaysFor, FS_Singleton
<1> QED
  BY <1>1, <1>7, <1>8 DEF Buys

(* CreateObject and CreateAddressSpace.                                    *)
LEMMA CreateObjectCreates ==
  ASSUME KernelOK, NEW p \in ProcessIds, Running(p),
         NEW kind \in CreatableKinds, NEW rights \in RightsChoices,
         CreateObject(p, kind, rights)
  PROVE  Buys(p)
<1>1. kind \in ObjectKinds \ {"MemoryObject"} /\ rights \in SUBSET HandleRights
  BY KernelAssumption
<1>2. WellFormedPayload(kind, NewPayload(kind))
  BY <1>1, NewPayloadWellFormed
<1>3. /\ kind = "ChannelEndpoint" => NewPayload(kind).peer = None
      /\ Fresh(kind, NewPayload(kind))
  BY <1>1 DEF NewPayload, NewEndpoint, Fresh
<1>4. Publish(p, kind, NewPayload(kind), rights) /\ UNCHANGED generations
  BY DEF CreateObject
<1> QED
  BY <1>1, <1>2, <1>3, <1>4, PublishCreates

(* CreateMemoryObject.                                                     *)
LEMMA CreateMemoryCreates ==
  ASSUME KernelOK, NEW p \in ProcessIds, Running(p),
         NEW size \in MemorySizes, NEW rights \in RightsChoices,
         CreateMemoryObject(p, size, rights)
  PROVE  Buys(p)
<1> DEFINE range == FreeRun(frames, size)
<1>1. rights \in SUBSET HandleRights /\ size \in Nat /\ RunStarts(frames, size) # {}
  BY KernelAssumption DEF CreateMemoryObject
<1>2. range \in FrameRanges
  BY <1>1, FreeRunIsFree DEF KernelOK
<1>3. Publish(p, "MemoryObject", NewMemoryObject(range), rights) /\ UNCHANGED generations
  BY DEF CreateMemoryObject
<1> HIDE DEF range
<1>4. WellFormedPayload("MemoryObject", NewMemoryObject(range))
  BY <1>2, PayloadKinds DEF NewMemoryObject, MemoryObjects, FrameRanges
<1>5. Fresh("MemoryObject", NewMemoryObject(range))
  BY DEF Fresh, NewMemoryObject
<1> QED
  BY <1>1, <1>3, <1>4, <1>5, PublishCreates DEF ObjectKinds

(* The first two entries or slots of a free set.                           *)
LEMMA FirstTwo ==
  ASSUME NEW S \in SUBSET Nat, IsFiniteSet(S), Cardinality(S) >= 2
  PROVE  /\ First(S) \in S
         /\ First(S \ {First(S)}) \in S /\ First(S \ {First(S)}) # First(S)
<1>1. S # {}
  BY FS_EmptySet
<1>2. First(S) \in S
  BY <1>1, FirstIsLeast
<1>3. Cardinality(S \ {First(S)}) = Cardinality(S) - 1 /\ Cardinality(S) \in Nat
  BY <1>2, FS_RemoveElement, FS_CardinalityType
<1>4. S \ {First(S)} # {}
  BY <1>3, FS_EmptySet
<1>5. First(S \ {First(S)}) \in S \ {First(S)}
  BY <1>4, FirstIsLeast
<1> QED
  BY <1>2, <1>5

(* An end of a new pair.                                                   *)
PairEnd(max, peer) ==
  AddHandle(NewObject("ChannelEndpoint", Linked(NewEndpoint(max), RefTo(peer))))

(* create_channel_pair leaves each end with one handle, an empty queue and *)
(* an open peer, which is the other end.                                   *)
LEMMA PairEndParts ==
  ASSUME KernelOK, NEW max \in 0 .. MaxChannelMessages, NEW peer \in ObjectIds
  PROVE  /\ PairEnd(max, peer) \in WellFormedObjects /\ PairEnd(max, peer) # None
         /\ PairEnd(max, peer).kind = "ChannelEndpoint"
         /\ PairEnd(max, peer).handleCount = 1
         /\ PairEnd(max, peer).payload.peer = RefTo(peer)
         /\ PairEnd(max, peer).payload.peerClosed # TRUE
         /\ \A m \in MessageSlots : PairEnd(max, peer).payload.messages[m] = None
<1> DEFINE payload == Linked(NewEndpoint(max), RefTo(peer))
<1>1. WellFormedEndpoint(NewEndpoint(max)) /\ RefTo(peer) \in ObjectRefs
  BY RefType, NewEndpointWellFormed
<1>2. WellFormedEndpoint(payload)
  BY <1>1, PeerChangeWellFormed DEF Linked
<1>3. /\ payload.peer = RefTo(peer) /\ payload.peerClosed # TRUE
      /\ \A m \in MessageSlots : payload.messages[m] = None
  BY <1>1 DEF Linked, NewEndpoint, WellFormedEndpoint, Endpoints
<1> HIDE DEF payload
<1>4. NewObject("ChannelEndpoint", payload) \in WellFormedObjects
  BY <1>2, PayloadKinds, MakeObject DEF NewObject, ObjectKinds
<1>5. AddHandle(NewObject("ChannelEndpoint", payload)) \in WellFormedObjects
  BY <1>4, AddHandleWellFormed
<1>6. PairEnd(max, peer) = AddHandle(NewObject("ChannelEndpoint", payload))
  BY DEF PairEnd, payload
<1>7. PairEnd(max, peer).payload = payload
  BY <1>6, NewObjectParts
<1>8. PairEnd(max, peer).payload.peerClosed # TRUE
  BY <1>3, <1>7
<1>9. /\ PairEnd(max, peer) \in WellFormedObjects /\ PairEnd(max, peer) # None
      /\ PairEnd(max, peer).kind = "ChannelEndpoint"
      /\ PairEnd(max, peer).handleCount = 1
  BY <1>5, <1>6, NewObjectParts, ObjectParts
<1> QED
  BY <1>3, <1>7, <1>8, <1>9

(* CreateChannelPair, entry by entry and slot by slot.                     *)
PairMade(p, max, rights, one, two, s, t) ==
  /\ one # two /\ objects[one] = None /\ objects[two] = None
  /\ s # t /\ At(p, s) = None /\ At(p, t) = None
  /\ objects' = [objects EXCEPT ![one] = PairEnd(max, two), ![two] = PairEnd(max, one)]
  /\ \A q \in ProcessIds, i \in Slots :
       At(q, i)' = IF q = p /\ i = s
                   THEN NewEntry(RefTo(one), "ChannelEndpoint", rights)
                   ELSE IF q = p /\ i = t
                   THEN NewEntry(RefTo(two), "ChannelEndpoint", rights)
                   ELSE At(q, i)
  /\ Running(p)'

(* Every pair is made so.                                                  *)
LEMMA PairEffect ==
  ASSUME KernelOK, NEW p \in ProcessIds, Running(p),
         NEW max \in MessageLimits, NEW rights \in RightsChoices,
         CreateChannelPair(p, max, rights)
  PROVE  \E one, two \in ObjectIds, s, t \in Slots :
           PairMade(p, max, rights, one, two, s, t)
<1> DEFINE one == First(FreeIds)
           two == First(FreeIds \ {one})
           Entry(id) == NewEntry(RefTo(id), "ChannelEndpoint", rights)
           h == Handles(p)
           u == PutEntry(h, Entry(one))
           v == PutEntry(u, Entry(two))
           left == ReserveObject(ReserveObject(processes[p].remaining))
<1>1. /\ processes[p].remaining >= 2
      /\ Cardinality(FreeIds) >= 2 /\ Cardinality(FreeSlots(h)) >= 2
      /\ objects' = [objects EXCEPT ![one] = PairEnd(max, two), ![two] = PairEnd(max, one)]
      /\ processes' = [processes EXCEPT ![p] = [handles |-> v, remaining |-> left]]
  BY DEF CreateChannelPair, Handles, PairEnd
<1>2. FreeIds \in SUBSET Nat /\ IsFiniteSet(FreeIds) /\ FreeIds \in SUBSET ObjectIds
  <2>1. ObjectIds \in SUBSET Nat /\ IsFiniteSet(ObjectIds)
    BY KernelNamesAssumption, FS_Interval DEF ObjectIds
  <2>2. FreeIds \in SUBSET ObjectIds
    BY DEF FreeIds, FreeIn
  <2> QED
    BY <2>1, <2>2, FS_Subset
<1>3. one \in FreeIds /\ two \in FreeIds /\ one # two
  BY <1>1, <1>2, FirstTwo
<1> HIDE DEF one, two
<1>4. /\ one \in ObjectIds /\ two \in ObjectIds
      /\ objects[one] = None /\ objects[two] = None
  BY <1>2, <1>3 DEF FreeIds, FreeIn
<1>5. Entry(one) \in Entries /\ Entry(two) \in Entries
  BY <1>4, RefType, NewEntryType, KernelAssumption DEF ObjectKinds
<1>6. h \in Tables /\ left \in Nat
  BY <1>1, RunningProcess DEF ReserveObject
<1>7. FreeSlots(h) # {} /\ FreeSlots(u) # {}
  BY <1>1, <1>5, <1>6, RoomForTwo
<1> DEFINE s == First(FreeSlots(h))
           t == First(FreeSlots(u))
<1> HIDE DEF Entry, h, left
<1>8. /\ s \in Slots /\ h.entry[s] = None /\ u \in Tables
      /\ \A i \in Slots : u.entry[i] = IF i = s THEN Entry(one) ELSE h.entry[i]
  BY <1>5, <1>6, <1>7, PutEntrySlot, PutEntryType
<1> HIDE DEF s, u
<1>9. /\ t \in Slots /\ u.entry[t] = None /\ v \in Tables
      /\ \A i \in Slots : v.entry[i] = IF i = t THEN Entry(two) ELSE u.entry[i]
  BY <1>5, <1>7, <1>8, PutEntrySlot, PutEntryType
<1> HIDE DEF t, v
<1>10. s # t /\ h.entry[t] = None
  BY <1>5, <1>8, <1>9, EntryParts
<1>11. \A q \in ProcessIds, i \in Slots : At(q, i)' = IF q = p THEN v.entry[i] ELSE At(q, i)
  BY <1>1, <1>6, <1>9, SlotsAfterProcess
<1>12. \A i \in Slots : At(p, i) = h.entry[i]
  BY DEF At, h
<1>13. Running(p)'
  <2>1. [handles |-> v, remaining |-> left] \in Processes
    BY <1>6, <1>9 DEF Processes
  <2> QED
    BY <1>1, <2>1, NoneIsNothingElse DEF Running, KernelOK
<1>14. \A q \in ProcessIds, i \in Slots :
         At(q, i)' = IF q = p /\ i = s THEN Entry(one)
                     ELSE IF q = p /\ i = t THEN Entry(two) ELSE At(q, i)
  BY <1>8, <1>9, <1>10, <1>11, <1>12
<1>15. \A q \in ProcessIds, i \in Slots :
         At(q, i)' = IF q = p /\ i = s
                     THEN NewEntry(RefTo(one), "ChannelEndpoint", rights)
                     ELSE IF q = p /\ i = t
                     THEN NewEntry(RefTo(two), "ChannelEndpoint", rights)
                     ELSE At(q, i)
  BY <1>14 DEF Entry
<1>16. At(p, s) = None /\ At(p, t) = None
  BY <1>8, <1>9, <1>10, <1>12
<1>17. objects' = [objects EXCEPT ![one] = PairEnd(max, two), ![two] = PairEnd(max, one)]
  BY <1>1
<1>18. PairMade(p, max, rights, one, two, s, t)
  BY <1>3, <1>4, <1>10, <1>13, <1>15, <1>16, <1>17 DEF PairMade
<1> QED
  BY <1>4, <1>8, <1>9, <1>18

(* CreateChannelPair.                                                      *)
LEMMA PairCreates ==
  ASSUME KernelOK, NEW p \in ProcessIds, Running(p),
         NEW max \in MessageLimits, NEW rights \in RightsChoices,
         CreateChannelPair(p, max, rights)
  PROVE  Buys(p)
<1>1. PICK one, two \in ObjectIds, s, t \in Slots : PairMade(p, max, rights, one, two, s, t)
  BY PairEffect
<1> DEFINE c == NewEntry(RefTo(one), "ChannelEndpoint", rights)
           d == NewEntry(RefTo(two), "ChannelEndpoint", rights)
           N == {one, two}
<1>2. max \in 0 .. MaxChannelMessages /\ UNCHANGED generations
  BY KernelAssumption, ChannelAssumption DEF CreateChannelPair
<1>3. /\ objects'[one] = PairEnd(max, two) /\ objects'[two] = PairEnd(max, one)
      /\ \A id \in ObjectIds \ N : objects'[id] = objects[id]
  BY <1>1 DEF PairMade, KernelOK, ObjectTables
<1>4. /\ c \in Entries /\ c.object = RefTo(one) /\ c.kind = "ChannelEndpoint" /\ c.parent = None
      /\ d \in Entries /\ d.object = RefTo(two) /\ d.kind = "ChannelEndpoint" /\ d.parent = None
      /\ rights \in SUBSET HandleRights /\ c.rights = rights /\ d.rights = rights
  BY RefType, NewEntryType, NewEntryParts, KernelAssumption DEF ObjectKinds
<1>5. RefTo(one) # RefTo(two)
  BY <1>1 DEF PairMade, RefTo
<1> DEFINE X == PairEnd(max, two)
           Y == PairEnd(max, one)
<1>6. /\ X.payload.peerClosed # TRUE /\ Y.payload.peerClosed # TRUE
      /\ X # None /\ X.kind = "ChannelEndpoint" /\ X.handleCount = 1
      /\ X.payload.peer = RefTo(two) /\ \A m \in MessageSlots : X.payload.messages[m] = None
      /\ Y # None /\ Y.kind = "ChannelEndpoint" /\ Y.handleCount = 1
      /\ Y.payload.peer = RefTo(one) /\ \A m \in MessageSlots : Y.payload.messages[m] = None
  BY <1>2, PairEndParts
<1>7. c # None /\ d # None
  BY <1>4, EntryParts
<1> HIDE DEF c, d, X, Y
<1>8. \A q \in ProcessIds, i \in Slots :
        At(q, i)' = IF q = p /\ i = s THEN c ELSE IF q = p /\ i = t THEN d ELSE At(q, i)
  BY <1>1 DEF PairMade, c, d
<1>9. objects'[one] = X /\ objects'[two] = Y
  BY <1>3 DEF X, Y
<1>10. \A id \in N : /\ objects[id] = None /\ objects'[id] # None
                     /\ Fresh(objects'[id].kind, objects'[id].payload)
                     /\ objects'[id].handleCount = 1
  BY <1>1, <1>6, <1>9 DEF PairMade, Fresh
<1>11. /\ \A j \in Slots : At(p, j)' # At(p, j) /\ At(p, j)'.object = RefTo(one) <=> j = s
       /\ \A j \in Slots : At(p, j)' # At(p, j) /\ At(p, j)'.object = RefTo(two) <=> j = t
  BY <1>1, <1>4, <1>5, <1>7, <1>8 DEF PairMade
<1>12. \A q \in ProcessIds, i \in Slots :
       \/ At(q, i)' = At(q, i)
       \/ /\ q = p /\ At(q, i) = None
          /\ At(q, i)' \in Entries /\ At(q, i)'.parent = None
          /\ \E id \in N : /\ At(q, i)'.object = RefTo(id)
                           /\ At(q, i)'.kind = objects'[id].kind
  BY <1>1, <1>4, <1>6, <1>8, <1>9 DEF PairMade
<1>13. ASSUME NEW id \in ObjectIds, NEW m \in MessageSlots
       PROVE  Queue(id, m)' = Queue(id, m)
  <2>1. CASE id = one
    BY <1>1, <1>6, <1>9, <2>1 DEF PairMade, Queue, IsEndpoint
  <2>2. CASE id = two
    BY <1>1, <1>6, <1>9, <2>2 DEF PairMade, Queue, IsEndpoint
  <2>3. CASE id \notin N
    BY <1>3, <2>3 DEF PairMade, Queue, IsEndpoint
  <2> QED
    BY <2>1, <2>2, <2>3
<1>14. ASSUME NEW id \in ObjectIds
       PROVE  \/ Peer(id)' = Peer(id)
              \/ /\ id \in N /\ ~Closed(id)'
                 /\ \E other \in N : Peer(id)' = RefTo(other) /\ Peer(other)' = RefTo(id)
  <2>1. /\ Peer(one)' = RefTo(two) /\ ~Closed(one)'
        /\ Peer(two)' = RefTo(one) /\ ~Closed(two)'
    BY <1>6, <1>9 DEF Peer, Closed, IsEndpoint
  <2>2. CASE id \notin N
    BY <1>3, <2>2 DEF Peer, IsEndpoint
  <2> QED
    BY <2>1, <2>2
<1>15. \A id \in N : \E i \in Slots : \A j \in Slots :
         At(p, j)' # At(p, j) /\ At(p, j)'.object = RefTo(id) <=> j = i
  BY <1>11
<1>16. \A i \in Slots : At(p, i)' = At(p, i) \/ At(p, i)'.rights = rights
  BY <1>4, <1>8
<1>17. Creates(p, N)
  BY <1>1, <1>2, <1>3, <1>4, <1>10, <1>12, <1>13, <1>14, <1>15, <1>16
     DEF PairMade, Creates, QueuesStay
<1>18. Charges(p, N)
  <2>1. Cardinality({one, two}) = 2
    <3>1. PICK A : A = {one}
      OBVIOUS
    <3>2. IsFiniteSet(A) /\ Cardinality(A) = 1 /\ two \notin A
      BY <1>1, <3>1, FS_Singleton DEF PairMade
    <3>3. IsFiniteSet(A \cup {two}) /\ Cardinality(A \cup {two}) = 1 + 1
      BY <3>2, FS_AddElement
    <3>4. {one, two} = A \cup {two}
      BY <3>1
    <3> QED
      BY <3>3, <3>4
  <2>2. \E after : processes' = [processes EXCEPT ![p] = after]
    BY DEF CreateChannelPair
  <2>3. processes'[p].remaining = ReserveObject(ReserveObject(processes[p].remaining))
    BY DEF CreateChannelPair, KernelOK
  <2>4. Running(p)'
    BY <1>17 DEF Creates
  <2>5. SpentBy(p)' = SpentBy(p) + 2
    BY <2>3, <2>4, RunningProcess, KernelAssumption DEF SpentBy, ReserveObject
  <2> QED
    BY <2>1, <2>2, <2>5, PaysFor
<1> QED
  BY <1>17, <1>18 DEF Buys

-----------------------------------------------------------------------------
(* Calls that make no object, view by view.                                *)

(* A slot with an entry.                                                   *)
LEMMA OccupiedSlot ==
  ASSUME KernelOK, NEW p \in ProcessIds, Running(p), NEW i \in Nameable(Handles(p))
  PROVE  /\ i \in Slots /\ At(p, i) = Handles(p).entry[i]
         /\ At(p, i) # None /\ At(p, i) \in Entries
         /\ At(p, i).object.id \in ObjectIds
         /\ Live(At(p, i).object) => At(p, i).object = RefTo(At(p, i).object.id)
<1>1. /\ i \in Slots /\ At(p, i) = Handles(p).entry[i]
      /\ At(p, i) \in Entries
  BY NameableEntry DEF At
<1>2. At(p, i).object \in ObjectRefs /\ At(p, i).object.id \in ObjectIds /\ At(p, i) # None
  BY <1>1, EntryParts
<1>3. Live(At(p, i).object) => At(p, i).object = RefTo(At(p, i).object.id)
  BY <1>2 DEF Live, RefTo, ObjectRefs
<1> QED
  BY <1>1, <1>2, <1>3

(* Duplicate: one more entry, derived from the one at source.              *)
Duplicates(p, source, rights, s) ==
  /\ AllAlike /\ GenerationsFree
  /\ source \in Nameable(Handles(p)) /\ CanDerive(Handles(p), source, rights)
  /\ DerivedEntry(Handles(p), source, rights) \in Entries
  /\ Live(At(p, source).object)
  /\ \A id \in ObjectIds : objects'[id] # None =>
       objects'[id].handleCount =
         objects[id].handleCount + (IF id = At(p, source).object.id THEN 1 ELSE 0)
  /\ At(p, s) = None
  /\ \A q \in ProcessIds, i \in Slots :
       At(q, i)' = IF q = p /\ i = s THEN DerivedEntry(Handles(p), source, rights) ELSE At(q, i)

(* Every duplicate is one.                                                 *)
LEMMA DuplicateEffect ==
  ASSUME KernelOK, NEW p \in ProcessIds, Running(p),
         NEW source \in Slots, NEW rights \in RightsChoices,
         DuplicateHandle(p, source, rights)
  PROVE  \E s \in Slots : Duplicates(p, source, rights, s)
<1> DEFINE table == Handles(p)
           id == table.entry[source].object.id
           e == DerivedEntry(table, source, rights)
           u == PutEntry(table, e)
           s == First(FreeSlots(table))
<1>1. /\ source \in Nameable(table) /\ FreeSlots(table) # {}
      /\ CanDerive(table, source, rights)
      /\ Valid(table.entry[source].object, table.entry[source].kind)
      /\ objects' = [objects EXCEPT ![id] = AddHandle(objects[id])]
      /\ processes' = [processes EXCEPT ![p].handles = u]
      /\ UNCHANGED generations
  BY DEF DuplicateHandle, Handles
<1>2. id \in ObjectIds /\ source \in Occupied(table) /\ table \in Tables
  BY <1>1, NameableEntry, RunningProcess
<1>3. objects[id] # None /\ objects[id] \in WellFormedObjects
  BY <1>1, <1>2, LiveObject DEF Valid, Live
<1>4. e \in Entries
  BY <1>1, <1>2, DerivedEntryType
<1> HIDE DEF e, id
<1>5. /\ AllAlike
      /\ \A o \in ObjectIds : objects'[o] # None =>
           objects'[o].handleCount = objects[o].handleCount + (IF o = id THEN 1 ELSE 0)
  <2>1. AddHandle(objects[id]).kind = objects[id].kind /\ AddHandle(objects[id]) # None
    BY <1>3, AddHandleWellFormed, ObjectParts
  <2>2. /\ AddHandle(objects[id]).payload = objects[id].payload
        /\ AddHandle(objects[id]).handleCount = objects[id].handleCount + 1
    <3>1. objects[id] = [ kind |-> objects[id].kind, handleCount |-> objects[id].handleCount,
                          payload |-> objects[id].payload ]
      BY <1>3, ObjectParts
    <3> QED
      BY <3>1 DEF AddHandle
  <2>3. \A o \in ObjectIds : objects'[o] = IF o = id THEN AddHandle(objects[id]) ELSE objects[o]
    BY <1>1 DEF KernelOK, ObjectTables
  <2>4. \A o \in ObjectIds : objects[o] # None => objects[o].handleCount \in Nat
    BY LiveObject, ObjectParts
  <2>5. AllAlike
    BY <1>3, <2>1, <2>2, <2>3 DEF AllAlike, Alike
  <2> QED
    BY <2>2, <2>3, <2>4, <2>5
<1>6. /\ s \in Slots /\ table.entry[s] = None /\ u \in Tables
      /\ \A i \in Slots : u.entry[i] = IF i = s THEN e ELSE table.entry[i]
  BY <1>1, <1>2, <1>4, PutEntrySlot, PutEntryType
<1> HIDE DEF s, u
<1>7. \A q \in ProcessIds, i \in Slots : At(q, i)' = IF q = p THEN u.entry[i] ELSE At(q, i)
  BY <1>1, <1>6, SlotsAfterTable
<1>8. \A i \in Slots : At(p, i) = table.entry[i]
  BY DEF At
<1>9. Live(At(p, source).object) /\ id = At(p, source).object.id
  BY <1>1, <1>8 DEF Valid, id
<1> HIDE DEF table
<1>10. Duplicates(p, source, rights, s)
  BY <1>1, <1>4, <1>5, <1>6, <1>7, <1>8, <1>9 DEF Duplicates, GenerationsFree, e, table
<1> QED
  BY <1>6, <1>10

(* What is closed last: a handle the caller keeps stays behind, or there   *)
(* is one handle to close and ensure_handle_can_close lets it go.          *)
LetsGo(p, S, ref) ==
  \/ \E i \in Slots \ S : At(p, i) # None /\ At(p, i).object = ref
  \/ Cardinality(S) = 1 /\ CanCloseAfter(objects[ref.id], 0)

(* Close and revoke: the slots of S are emptied, and a memory object that  *)
(* nothing refers to any more goes.                                        *)
Closes(p, S, ref) ==
  /\ AllAlike /\ GenerationsFree
  /\ Live(ref) /\ CanRemove(Handles(p), S)
  /\ \A i \in S : At(p, i) # None /\ At(p, i).object = ref
  /\ \A q \in ProcessIds, i \in Slots :
       At(q, i)' = IF q = p /\ i \in S THEN None ELSE At(q, i)
  /\ \A id \in ObjectIds : objects'[id] # None =>
       objects'[id].handleCount =
         IF id # ref.id THEN objects[id].handleCount
         ELSE IF objects[id].handleCount < Cardinality(S) THEN 0
         ELSE objects[id].handleCount - Cardinality(S)
  /\ LetsGo(p, S, ref)
  /\ objects'[ref.id] # None =>
       /\ objects'[ref.id].payload = objects[ref.id].payload
       /\ ~Unreferenced(objects'[ref.id])
  /\ \A id \in ObjectIds : objects[id] # None /\ objects'[id] = None =>
       id = ref.id /\ objects[id].handleCount <= Cardinality(S)

(* Every close and every revocation is one.                                *)
LEMMA CloseEffect ==
  ASSUME KernelOK, NEW p \in ProcessIds, Running(p), NEW S \in SUBSET Slots,
         NEW ref \in ObjectRefs, Live(ref), CloseSlots(p, S, ref),
         \A i \in S : At(p, i) # None /\ At(p, i).object = ref,
         LetsGo(p, S, ref)
  PROVE  Closes(p, S, ref)
<1> DEFINE n == Cardinality(S)
           o == RemoveHandles(objects[ref.id], n)
           objs == [objects EXCEPT ![ref.id] = o]
           u == RemoveEntries(Handles(p), S)
<1>1. n \in Nat
  <2>1. IsFiniteSet(S)
    BY SlotsFinite, FS_Subset
  <2> QED
    BY <2>1, FS_CardinalityType
<1>2. ref.id \in ObjectIds /\ objects[ref.id] # None
  BY DEF ObjectRefs, Live
<1>3. objects[ref.id] \in WellFormedObjects
  BY <1>2, LiveObject
<1>4. /\ CanRemove(Handles(p), S)
      /\ processes' = [processes EXCEPT ![p].handles = u]
      /\ Reclaim(objs, ref.id)
  BY DEF CloseSlots, Handles
<1> HIDE DEF n
<1>5. /\ o \in WellFormedObjects /\ o # None /\ o.kind = objects[ref.id].kind
      /\ o.payload = objects[ref.id].payload
      /\ o.handleCount = IF objects[ref.id].handleCount < n THEN 0
                         ELSE objects[ref.id].handleCount - n
  <2>1. o \in WellFormedObjects /\ o.kind = objects[ref.id].kind
    BY <1>1, <1>3, RemoveHandlesWellFormed
  <2>2. objects[ref.id] = [ kind |-> objects[ref.id].kind,
                            handleCount |-> objects[ref.id].handleCount,
                            payload |-> objects[ref.id].payload ]
    BY <1>3, ObjectParts
  <2>3. /\ o.payload = objects[ref.id].payload
        /\ o.handleCount = IF objects[ref.id].handleCount < n THEN 0
                           ELSE objects[ref.id].handleCount - n
    BY <2>2 DEF RemoveHandles
  <2> QED
    BY <2>1, <2>3, ObjectParts
<1> HIDE DEF o
<1>6. objs \in ObjectsAfter
  BY <1>2, <1>5, ObjectsAfterItself, ObjectUpdate
<1>7. \A id \in ObjectIds : objs[id] = IF id = ref.id THEN o ELSE objects[id]
  BY DEF KernelOK, ObjectTables
<1> HIDE DEF objs
<1>8. AllAlike /\ GenerationsFree
  BY <1>2, <1>4, <1>5, <1>6, <1>7, ReclaimAlike
<1>9. /\ u \in Tables
      /\ \A i \in Slots : u.entry[i] = IF i \in S THEN None ELSE Handles(p).entry[i]
  BY <1>4, RunningProcess, RemoveEntriesType DEF RemoveEntries
<1> HIDE DEF u
<1>10. \A q \in ProcessIds, i \in Slots : At(q, i)' = IF q = p THEN u.entry[i] ELSE At(q, i)
  BY <1>4, <1>9, SlotsAfterTable
<1>11. \A id \in ObjectIds : objects'[id] # None => objects'[id] = objs[id]
  BY <1>2, <1>4, <1>6, ReclaimEffect
<1>12. \A id \in ObjectIds : objects'[id] # None =>
         objects'[id].handleCount =
           IF id # ref.id THEN objects[id].handleCount
           ELSE IF objects[id].handleCount < n THEN 0
           ELSE objects[id].handleCount - n
  BY <1>5, <1>7, <1>11
<1>13. \A q \in ProcessIds, i \in Slots :
         At(q, i)' = IF q = p /\ i \in S THEN None ELSE At(q, i)
  BY <1>9, <1>10 DEF At
<1>14. objects'[ref.id] # None =>
         /\ objects'[ref.id].payload = objects[ref.id].payload
         /\ ~Unreferenced(objects'[ref.id])
  <2>1. Unreferenced(objs[ref.id]) => objects'[ref.id] = None
    BY <1>2, <1>4, <1>6 DEF Reclaim, ObjectsAfter, ObjectTables
  <2> QED
    BY <1>2, <1>5, <1>7, <1>11, <2>1
<1>15. ASSUME NEW id \in ObjectIds, objects[id] # None, objects'[id] = None
       PROVE  id = ref.id /\ objects[id].handleCount <= n
  <2>1. id = ref.id /\ Unreferenced(objs[id])
    BY <1>2, <1>4, <1>5, <1>6, <1>7, <1>15, ReclaimEffect
  <2>2. o.handleCount = 0
    BY <1>7, <2>1 DEF Unreferenced
  <2>3. objects[ref.id].handleCount \in Nat
    BY <1>3, ObjectParts
  <2> QED
    BY <1>1, <1>5, <2>1, <2>2, <2>3
<1> QED
  BY <1>4, <1>8, <1>12, <1>13, <1>14, <1>15 DEF Closes, n

(* Send: the entries of the slots in moved, in that order, to the message  *)
(* slot m of endpoint id, whose peer the channel handle names.             *)
Sends(p, channel, moved, id, m) ==
  /\ At(p, channel) # None
  /\ IsEndpoint(At(p, channel).object.id)
  /\ At(p, channel).object = RefTo(At(p, channel).object.id)
  /\ Peer(At(p, channel).object.id) = RefTo(id)
  /\ IsEndpoint(id) /\ Queue(id, m) = None
  /\ \A k \in DOMAIN moved : moved[k] \in Slots /\ At(p, moved[k]) \in Entries
  /\ [k \in DOMAIN moved |-> At(p, moved[k])] \in Messages
  /\ \A o \in ObjectIds, n \in MessageSlots :
       Queue(o, n)' = IF o = id /\ n = m THEN [k \in DOMAIN moved |-> At(p, moved[k])]
                      ELSE Queue(o, n)
  /\ \A q \in ProcessIds, i \in Slots :
       At(q, i)' = IF q = p /\ \E k \in DOMAIN moved : moved[k] = i THEN None ELSE At(q, i)
  /\ PeersStay /\ ClosedStay /\ CountsStay /\ NothingNew /\ GenerationsFree

(* A new queue for the endpoint id, and nothing else.                      *)
LEMMA QueueChange ==
  ASSUME KernelOK, NEW id \in ObjectIds, IsEndpoint(id), NEW payload,
         payload.peer = objects[id].payload.peer, WellFormedEndpoint(payload),
         payload.peerClosed = objects[id].payload.peerClosed,
         objects' = [objects EXCEPT ![id].payload = payload],
         UNCHANGED generations
  PROVE  /\ \A o \in ObjectIds, n \in MessageSlots :
              Queue(o, n)' = IF o = id THEN payload.messages[n] ELSE Queue(o, n)
         /\ PeersStay /\ ClosedStay /\ CountsStay /\ NothingNew /\ GenerationsFree
<1>1. objects[id] \in WellFormedObjects /\ objects[id] # None /\ objects[id].kind = "ChannelEndpoint"
  BY LiveObject DEF IsEndpoint
<1> DEFINE o1 == [objects[id] EXCEPT !.payload = payload]
<1>2. o1 = [ kind |-> objects[id].kind, handleCount |-> objects[id].handleCount,
             payload |-> payload ]
  BY <1>1, ObjectParts
<1>3. o1.kind = "ChannelEndpoint" /\ o1.payload = payload
  BY <1>1, <1>2
<1>4. o1 # None
  <2>1. o1 \in WellFormedObjects
    BY <1>1, <1>2, MakeObject, ObjectParts, PayloadKinds
  <2> QED
    BY <2>1, ObjectParts
<1>5. objects' = [objects EXCEPT ![id] = o1]
  OBVIOUS
<1> HIDE DEF o1
<1>6. \A o \in ObjectIds : objects'[o] = IF o = id THEN o1 ELSE objects[o]
  BY <1>5 DEF KernelOK, ObjectTables
<1>7. ASSUME NEW o \in ObjectIds
      PROVE  /\ IsEndpoint(o)' <=> IsEndpoint(o)
             /\ IsEndpoint(o) => objects'[o].payload =
                  IF o = id THEN payload ELSE objects[o].payload
             /\ objects'[o] # None => objects[o] # None
             /\ objects'[o].handleCount = objects[o].handleCount
  BY <1>1, <1>2, <1>3, <1>4, <1>6 DEF IsEndpoint
<1>8. ASSUME NEW o \in ObjectIds, NEW n \in MessageSlots
      PROVE  Queue(o, n)' = IF o = id THEN payload.messages[n] ELSE Queue(o, n)
  <2>1. CASE IsEndpoint(o)
    BY <1>7, <2>1 DEF Queue
  <2>2. CASE ~IsEndpoint(o)
    BY <1>7, <2>2 DEF Queue
  <2> QED
    BY <2>1, <2>2
<1>9. ASSUME NEW o \in ObjectIds
      PROVE  Peer(o)' = Peer(o)
  <2>1. CASE IsEndpoint(o)
    BY <1>7, <2>1 DEF Peer
  <2>2. CASE ~IsEndpoint(o)
    BY <1>7, <2>2 DEF Peer
  <2> QED
    BY <2>1, <2>2
<1>10. ASSUME NEW o \in ObjectIds
       PROVE  Closed(o)' <=> Closed(o)
  <2>1. CASE IsEndpoint(o)
    BY <1>7, <2>1 DEF Closed
  <2>2. CASE ~IsEndpoint(o)
    BY <1>7, <2>2 DEF Closed
  <2> QED
    BY <2>1, <2>2
<1> QED
  BY <1>7, <1>8, <1>9, <1>10 DEF PeersStay, ClosedStay, CountsStay, NothingNew, GenerationsFree

(* send_channel_message does so.                                           *)
LEMMA SendEffect ==
  ASSUME KernelOK, NEW p \in ProcessIds, Running(p),
         NEW channel \in Slots, NEW moved \in HandleLists, ChannelSend(p, channel, moved)
  PROVE  \E id \in ObjectIds, m \in MessageSlots : Sends(p, channel, moved, id, m)
<1> DEFINE table == Handles(p)
           c == ObjectOf(p, channel)
           peer == objects[c].payload.peer
           message == [k \in DOMAIN moved |-> At(p, moved[k])]
           slots == {moved[k] : k \in DOMAIN moved}
           q == objects[peer.id].payload
           m == First(FreeIn(q.messages, MessageSlots))
           queue == Enqueue(q, message)
<1>1. \A i \in Slots : At(p, i) = table.entry[i]
  BY DEF At
<1>2. PICK n \in 0 .. MaxMessageHandles : moved \in [1 .. n -> Slots]
  BY DEF HandleLists
<1>3. message = [k \in DOMAIN moved |-> table.entry[moved[k]]]
  BY <1>1, <1>2
<1>4. /\ Lookup(p, channel, "ChannelEndpoint", {"WRITE"})
      /\ peer # None
      /\ Valid(peer, "ChannelEndpoint")
      /\ CanEnqueue(q)
      /\ \A k \in DOMAIN moved : Lookup(p, moved[k], table.entry[moved[k]].kind, {"TRANSFER"})
      /\ CanRemove(table, slots)
      /\ processes' = [processes EXCEPT ![p].handles = RemoveEntries(Handles(p), slots)]
      /\ UNCHANGED generations
  BY DEF ChannelSend, Handles
<1>5. objects' = [objects EXCEPT ![peer.id].payload = queue]
  BY <1>3 DEF ChannelSend
<1>6. /\ At(p, channel) # None /\ At(p, channel).object.id = c /\ c \in ObjectIds
      /\ At(p, channel).object = RefTo(c) /\ IsEndpoint(c)
  <2>1. channel \in Nameable(table) /\ Valid(table.entry[channel].object, "ChannelEndpoint")
    BY <1>4 DEF Lookup
  <2>2. c = At(p, channel).object.id
    BY <1>1 DEF ObjectOf
  <2> QED
    BY <1>1, <2>1, <2>2, OccupiedSlot DEF Valid, Live, IsEndpoint
<1>7. peer \in ObjectRefs /\ Peer(c) = peer
  <2>1. WellFormedEndpoint(objects[c].payload)
    BY <1>4, LookupObject, PayloadOf
  <2> QED
    BY <1>4, <1>6, <2>1 DEF WellFormedEndpoint, Endpoints, Peer
<1>8. /\ peer.id \in ObjectIds /\ objects[peer.id] \in WellFormedObjects
      /\ objects[peer.id].kind = "ChannelEndpoint" /\ IsEndpoint(peer.id)
  BY <1>4, <1>7, ValidObject DEF IsEndpoint
<1>9. peer = RefTo(peer.id)
  BY <1>4, <1>7 DEF Valid, Live, RefTo, ObjectRefs
<1>10. WellFormedEndpoint(q)
  BY <1>8, PayloadOf
<1>11. \A k \in DOMAIN moved : moved[k] \in Slots /\ At(p, moved[k]) \in Entries
  BY <1>1, <1>2, <1>4, LookupObject
<1>12. message \in Messages
  <2>1. n \in Nat /\ n <= MaxMessageHandles
    BY ChannelAssumption
  <2>2. message = [k \in 1 .. n |-> At(p, moved[k])] /\ \A k \in 1 .. n : At(p, moved[k]) \in Entries
    BY <1>2, <1>11
  <2> HIDE DEF message
  <2>3. message \in Seq(Entries) /\ Len(message) = n
    BY <2>1, <2>2
  <2> QED
    BY <2>1, <2>3 DEF Messages
<1>13. m \in MessageSlots /\ q.messages[m] = None
  BY <1>4, FirstFree, ChannelAssumption DEF CanEnqueue, MessageSlots
<1> HIDE DEF message
<1>14. WellFormedEndpoint(queue)
  BY <1>4, <1>10, <1>12, EnqueueWellFormed
<1>15. /\ queue.peer = q.peer /\ queue.peerClosed = q.peerClosed
       /\ \A o \in MessageSlots : queue.messages[o] = IF o = m THEN message ELSE q.messages[o]
  <2>1. queue = [q EXCEPT !.messages[m] = message, !.queued = @ + 1]
    BY DEF Enqueue
  <2> HIDE DEF m, queue, q
  <2> QED
    BY <1>10, <1>13, <2>1 DEF WellFormedEndpoint, Endpoints
<1> HIDE DEF m, queue
<1>16. /\ \A o \in ObjectIds, k \in MessageSlots :
            Queue(o, k)' = IF o = peer.id THEN queue.messages[k] ELSE Queue(o, k)
       /\ PeersStay /\ ClosedStay /\ CountsStay /\ NothingNew /\ GenerationsFree
  BY <1>4, <1>5, <1>8, <1>14, <1>15, QueueChange
<1>17. \A k \in MessageSlots : Queue(peer.id, k) = q.messages[k]
  BY <1>8 DEF Queue
<1> HIDE DEF q, peer, c, table
<1>18. \A o \in ObjectIds, k \in MessageSlots :
         Queue(o, k)' = IF o = peer.id /\ k = m THEN message ELSE Queue(o, k)
  BY <1>8, <1>15, <1>16, <1>17
<1>19. \A o \in ProcessIds, i \in Slots :
         At(o, i)' = IF o = p /\ \E k \in DOMAIN moved : moved[k] = i THEN None ELSE At(o, i)
  <2> DEFINE u == RemoveEntries(Handles(p), slots)
  <2>1. /\ u \in Tables
        /\ \A i \in Slots : u.entry[i] = IF i \in slots THEN None ELSE Handles(p).entry[i]
    BY <1>4, RunningProcess, RemoveEntriesType DEF RemoveEntries, table
  <2> HIDE DEF u
  <2>2. \A o \in ProcessIds, i \in Slots : At(o, i)' = IF o = p THEN u.entry[i] ELSE At(o, i)
    BY <1>4, <2>1, SlotsAfterTable DEF u
  <2> QED
    BY <1>1, <2>1, <2>2 DEF table
<1>20. Queue(peer.id, m) = None
  BY <1>13, <1>17
<1>21. Sends(p, channel, moved, peer.id, m)
  BY <1>6, <1>7, <1>8, <1>9, <1>11, <1>12, <1>16, <1>18, <1>19, <1>20 DEF Sends, message
<1> QED
  BY <1>8, <1>13, <1>21

(* Recv: the message in slot m of the endpoint that the handle names goes  *)
(* to the first free slots.                                                *)
Receives(p, channel, id, m) ==
  /\ At(p, channel) # None
  /\ At(p, channel).object = RefTo(id)
  /\ IsEndpoint(id) /\ Queue(id, m) # None
  /\ Len(Queue(id, m)) <= Cardinality(FreeSlots(Handles(p)))
  /\ \A o \in ObjectIds, n \in MessageSlots :
       Queue(o, n)' = IF o = id /\ n = m THEN None ELSE Queue(o, n)
  /\ \A q \in ProcessIds, i \in Slots :
       At(q, i)' = IF /\ q = p /\ i \in FreeSlots(Handles(p))
                      /\ FreeRank(Handles(p), i) \in DOMAIN Queue(id, m)
                   THEN Queue(id, m)[FreeRank(Handles(p), i)]
                   ELSE At(q, i)
  /\ PeersStay /\ ClosedStay /\ CountsStay /\ NothingNew /\ GenerationsFree

(* recv_channel_message does so.                                           *)
LEMMA RecvEffect ==
  ASSUME KernelOK, NEW p \in ProcessIds, Running(p), NEW channel \in Slots,
         ChannelRecv(p, channel)
  PROVE  \E id \in ObjectIds, m \in MessageSlots : Receives(p, channel, id, m)
<1> DEFINE id == ObjectOf(p, channel)
           table == Handles(p)
           q == objects[id].payload
           m == First(Waiting(q))
           rest == Dequeue(q)
           es == NextMessage(q)
           u == PutEntries(table, es)
<1>1. /\ Lookup(p, channel, "ChannelEndpoint", {"READ"})
      /\ Waiting(q) # {}
      /\ Len(es) <= Cardinality(FreeSlots(Handles(p)))
      /\ objects' = [objects EXCEPT ![id].payload = rest]
      /\ processes' = [processes EXCEPT ![p].handles = u]
      /\ UNCHANGED generations
  BY DEF ChannelRecv, Handles
<1>2. \A i \in Slots : At(p, i) = table.entry[i]
  BY DEF At
<1>3. /\ At(p, channel) # None /\ id \in ObjectIds
      /\ At(p, channel).object = RefTo(id) /\ IsEndpoint(id)
  <2>1. channel \in Nameable(table) /\ Valid(table.entry[channel].object, "ChannelEndpoint")
    BY <1>1 DEF Lookup
  <2>2. id = At(p, channel).object.id
    BY <1>2 DEF ObjectOf
  <2> QED
    BY <1>2, <2>1, <2>2, OccupiedSlot DEF Valid, Live, IsEndpoint
<1>4. WellFormedEndpoint(q)
  BY <1>3, LiveObject, PayloadOf DEF IsEndpoint
<1>5. WellFormedEndpoint(rest) /\ es \in Messages
  BY <1>1, <1>4, DequeueWellFormed
<1>6. m \in Waiting(q) /\ m \in MessageSlots /\ q.messages[m] = es
  <2>1. Waiting(q) \in SUBSET Nat
    BY DEF Waiting, MessageSlots
  <2> QED
    BY <1>1, <2>1, FirstIsLeast DEF NextMessage, Waiting
<1>7. /\ rest.peer = q.peer /\ rest.peerClosed = q.peerClosed
      /\ \A o \in MessageSlots : rest.messages[o] = IF o = m THEN None ELSE q.messages[o]
  <2>1. rest = [q EXCEPT !.messages[m] = None, !.queued = @ - 1]
    BY DEF Dequeue
  <2> HIDE DEF m, rest, q
  <2> QED
    BY <1>4, <1>6, <2>1 DEF WellFormedEndpoint, Endpoints
<1> HIDE DEF m, rest, es
<1>8. /\ \A o \in ObjectIds, k \in MessageSlots :
           Queue(o, k)' = IF o = id THEN rest.messages[k] ELSE Queue(o, k)
      /\ PeersStay /\ ClosedStay /\ CountsStay /\ NothingNew /\ GenerationsFree
  BY <1>1, <1>3, <1>5, <1>7, QueueChange
<1>9. \A k \in MessageSlots : Queue(id, k) = q.messages[k]
  BY <1>3 DEF Queue
<1> HIDE DEF q, id
<1>10. \A o \in ObjectIds, k \in MessageSlots :
         Queue(o, k)' = IF o = id /\ k = m THEN None ELSE Queue(o, k)
  BY <1>3, <1>7, <1>8, <1>9
<1>11. Queue(id, m) = es /\ es # None /\ es \in Seq(Entries)
  BY <1>5, <1>6, <1>9, MessageEntries
<1>12. /\ u \in Tables
       /\ \A i \in Slots : u.entry[i] = IF i \in FreeSlots(table) /\ FreeRank(table, i) \in DOMAIN es
                                       THEN es[FreeRank(table, i)] ELSE table.entry[i]
  BY <1>11, RunningProcess, PutEntriesType, PutEntriesSlot
<1> HIDE DEF u
<1>13. \A o \in ProcessIds, i \in Slots : At(o, i)' = IF o = p THEN u.entry[i] ELSE At(o, i)
  BY <1>1, <1>12, SlotsAfterTable
<1>14. \A o \in ProcessIds, i \in Slots :
         At(o, i)' = IF /\ o = p /\ i \in FreeSlots(Handles(p))
                        /\ FreeRank(Handles(p), i) \in DOMAIN Queue(id, m)
                     THEN Queue(id, m)[FreeRank(Handles(p), i)]
                     ELSE At(o, i)
  BY <1>2, <1>11, <1>12, <1>13
<1>15. Receives(p, channel, id, m)
  BY <1>1, <1>3, <1>8, <1>10, <1>11, <1>14 DEF Receives
<1> QED
  BY <1>3, <1>6, <1>15

(* A table of objects that differs from the present one in the payloads of *)
(* objects that are no endpoints.                                          *)
OthersOnly(objs) ==
  \A o \in ObjectIds :
    /\ objs[o] = objects[o] \/ (objects[o] # None /\ objects[o].kind # "ChannelEndpoint")
    /\ objs[o].handleCount = objects[o].handleCount

(* A new payload for an object that is no endpoint.                        *)
LEMMA OtherPayload ==
  ASSUME KernelOK, NEW objs \in ObjectsAfter, NEW id \in ObjectIds, NEW payload,
         objects[id] # None, objects[id].kind # "ChannelEndpoint",
         WellFormedPayload(objects[id].kind, payload),
         OthersOnly(objs)
  PROVE  /\ [objs EXCEPT ![id].payload = payload] \in ObjectsAfter
         /\ OthersOnly([objs EXCEPT ![id].payload = payload])
<1>1. objs[id] # None /\ objs[id].kind = objects[id].kind /\ objs \in ObjectTables
  BY DEF ObjectsAfter
<1> DEFINE after == [objs EXCEPT ![id].payload = payload]
<1>2. after \in ObjectsAfter /\ \A o \in ObjectIds \ {id} : after[o] = objs[o]
  BY <1>1, PayloadUpdate
<1>3. after[id].handleCount = objs[id].handleCount
  <2>1. objs[id] \in WellFormedObjects
    BY <1>1 DEF ObjectTables
  <2>2. objs[id] = [ kind |-> objs[id].kind, handleCount |-> objs[id].handleCount,
                     payload |-> objs[id].payload ]
    BY <2>1, ObjectParts
  <2>3. after[id] = [objs[id] EXCEPT !.payload = payload]
    BY <1>1 DEF ObjectTables
  <2> HIDE DEF after
  <2> QED
    BY <2>2, <2>3
<1> HIDE DEF after
<1>4. OthersOnly(after)
  BY <1>2, <1>3 DEF OthersOnly
<1> QED
  BY <1>2, <1>4 DEF after

(* No change is one.                                                       *)
LEMMA OthersItself ==
  ASSUME KernelOK
  PROVE  objects \in ObjectsAfter /\ OthersOnly(objects)
BY ObjectsAfterItself DEF OthersOnly

(* Such a change moves no handle.                                          *)
LEMMA OthersAlike ==
  ASSUME KernelOK, objects' \in ObjectsAfter, UNCHANGED <<generations, processes>>,
         OthersOnly(objects')
  PROVE  Still
<1>1. ASSUME NEW o \in ObjectIds
      PROVE  Alike(o)
  <2>1. objects[o] # None => objects'[o] # None /\ objects'[o].kind = objects[o].kind
    BY DEF ObjectsAfter
  <2> QED
    BY <2>1 DEF Alike, OthersOnly
<1> QED
  BY <1>1, TablesStay DEF AllAlike, GenerationsFree, Still, CountsStay, OthersOnly

(* map_memory_object.                                                      *)
LEMMA MapEffect ==
  ASSUME KernelOK, NEW p \in ProcessIds, Running(p),
         NEW space \in Slots, NEW memory \in Slots, NEW request \in MapRequests,
         MapMemoryObject(p, space, memory, request)
  PROVE  Still
<1> DEFINE s == ObjectOf(p, space)
           m == ObjectOf(p, memory)
           mapping == MappingFor(p, memory, request)
           added == AddMapping(objects[m].payload)
           counted == [objects EXCEPT ![m].payload = added]
           mapped == CommitMap(objects[s].payload, mapping)
<1>1. /\ Lookup(p, space, "AddressSpace", {"MANAGE"})
      /\ Lookup(p, memory, "MemoryObject", request.rights)
      /\ CanMap(objects[s].payload, objects[m].payload, mapping)
      /\ objects' = [counted EXCEPT ![s].payload = CommitMap(counted[s].payload, mapping)]
      /\ UNCHANGED <<generations, processes>>
  BY DEF MapMemoryObject, MayMap
<1>2. /\ s \in ObjectIds /\ objects[s] \in WellFormedObjects /\ objects[s].kind = "AddressSpace"
      /\ m \in ObjectIds /\ objects[m] \in WellFormedObjects /\ objects[m].kind = "MemoryObject"
  BY <1>1, LookupObject
<1>3. objects[s] # None /\ objects[m] # None /\ s # m
  BY <1>2, ObjectParts
<1>4. mapping \in Mappings
  <2>1. RefTo(m) \in ObjectRefs
    BY <1>2, RefType
  <2>2. /\ request.base \in Nat /\ request.size \in Nat \ {0} /\ request.offset \in Nat
        /\ request.rights \in SUBSET MappingRights
    BY <1>1, KernelAssumption DEF CanMap, MappingFor
  <2> QED
    BY <2>1, <2>2 DEF MappingFor, Mappings
<1>5. WellFormedPayload(objects[m].kind, added)
  BY <1>2, PayloadOf, MappingCounts, PayloadKinds
<1>6. WellFormedPayload(objects[s].kind, mapped)
  BY <1>1, <1>2, <1>4, PayloadOf, CommitMapWellFormed, PayloadKinds
<1>7. counted[s] = objects[s]
  BY <1>2, <1>3 DEF KernelOK, ObjectTables
<1>8. objects' = [counted EXCEPT ![s].payload = mapped]
  BY <1>1, <1>7
<1> HIDE DEF s, m, mapping, added, mapped
<1>9. /\ counted \in ObjectsAfter
      /\ OthersOnly(counted)
  BY <1>2, <1>3, <1>5, OthersItself, OtherPayload
<1> HIDE DEF counted
<1>10. /\ objects' \in ObjectsAfter
       /\ OthersOnly(objects')
  BY <1>2, <1>3, <1>6, <1>8, <1>9, OtherPayload
<1> QED
  BY <1>1, <1>10, OthersAlike

(* unmap_address_range.                                                    *)
LEMMA UnmapEffect ==
  ASSUME KernelOK, NEW p \in ProcessIds, Running(p), NEW space \in Slots,
         NEW base, NEW size, UnmapAddressRange(p, space, base, size)
  PROVE  Still
<1> DEFINE s == ObjectOf(p, space)
           unmapped == CommitUnmap(objects[s].payload, base, size)
<1>1. /\ Lookup(p, space, "AddressSpace", {"MANAGE"})
      /\ CanUnmap(objects[s].payload, base, size)
      /\ objects[s].payload.nextSequence < MaxSequence
      /\ objects' = [objects EXCEPT ![s].payload = unmapped]
      /\ UNCHANGED <<generations, processes>>
  BY DEF UnmapAddressRange
<1>2. s \in ObjectIds /\ objects[s] \in WellFormedObjects /\ objects[s].kind = "AddressSpace"
  BY <1>1, LookupObject
<1>3. WellFormedPayload(objects[s].kind, unmapped) /\ objects[s] # None
  BY <1>1, <1>2, PayloadOf, CommitUnmapWellFormed, PayloadKinds, ObjectParts
<1> HIDE DEF s, unmapped
<1>4. /\ objects' \in ObjectsAfter
      /\ OthersOnly(objects')
  BY <1>1, <1>2, <1>3, OthersItself, OtherPayload
<1> QED
  BY <1>1, <1>4, OthersAlike

(* take_next_tlb_work.                                                     *)
LEMMA FlushEffect ==
  ASSUME KernelOK, NEW p \in ProcessIds, Running(p), NEW space \in Slots,
         FlushAddressSpaceTlb(p, space)
  PROVE  Still
<1> DEFINE s == ObjectOf(p, space)
           memory == objects[s].payload.work[NextWork(objects[s].payload)].memory
           less == TakeWork(objects[s].payload)
           taken == [objects EXCEPT ![s].payload = less]
           removed == RemoveMapping(objects[memory.id].payload)
           objs == [taken EXCEPT ![memory.id].payload = removed]
<1>1. /\ Lookup(p, space, "AddressSpace", {"MANAGE"})
      /\ Owed(objects[s].payload) # {}
      /\ Valid(memory, "MemoryObject")
      /\ objects[memory.id].payload.activeMappings > 0
      /\ Reclaim([taken EXCEPT ![memory.id].payload = RemoveMapping(taken[memory.id].payload)],
                 memory.id)
      /\ UNCHANGED processes
  BY DEF FlushAddressSpaceTlb
<1>2. /\ s \in ObjectIds /\ objects[s] \in WellFormedObjects /\ objects[s].kind = "AddressSpace"
      /\ objects[s] # None
  BY <1>1, LookupObject, ObjectParts
<1>3. WellFormedSpace(objects[s].payload)
  BY <1>2, PayloadOf
<1>4. /\ NextWork(objects[s].payload) \in Owed(objects[s].payload)
      /\ WellFormedPayload(objects[s].kind, less)
  BY <1>1, <1>2, <1>3, TakeWorkWellFormed, PayloadKinds
<1>5. memory \in ObjectRefs
  BY <1>3, <1>4, SpaceParts DEF Invalidations
<1>6. /\ memory.id \in ObjectIds /\ objects[memory.id] # None
      /\ objects[memory.id] \in WellFormedObjects /\ objects[memory.id].kind = "MemoryObject"
  BY <1>1, <1>5, ValidObject
<1>7. taken[memory.id] = objects[memory.id]
  BY <1>2, <1>6 DEF KernelOK, ObjectTables
<1>8. WellFormedPayload(objects[memory.id].kind, removed)
  BY <1>1, <1>6, PayloadOf, MappingCounts, PayloadKinds
<1>9. Reclaim(objs, memory.id)
  BY <1>1, <1>7
<1> HIDE DEF s, memory, less, removed
<1>10. /\ taken \in ObjectsAfter
       /\ OthersOnly(taken)
  BY <1>2, <1>4, OthersItself, OtherPayload
<1> HIDE DEF taken
<1>11. /\ objs \in ObjectsAfter
       /\ OthersOnly(objs)
  BY <1>6, <1>8, <1>10, OtherPayload
<1> HIDE DEF objs
<1>12. AllAlike /\ GenerationsFree
  BY <1>6, <1>9, <1>11, ReclaimAlike DEF OthersOnly
<1>13. CountsStay
  BY <1>6, <1>9, <1>11, ReclaimEffect DEF OthersOnly, CountsStay
<1> QED
  BY <1>1, <1>12, <1>13, TablesStay DEF Still

(* signal_event and clear_event.                                           *)
LEMMA EventEffect ==
  ASSUME KernelOK, NEW id \in ObjectIds, NEW state \in {"Unsignaled", "Signaled"},
         SetEvent(id, state)
  PROVE  Still
<1>1. /\ WellFormedPayload(objects[id].kind, state)
      /\ objects[id] # None /\ objects[id].kind # "ChannelEndpoint"
      /\ objects' = [objects EXCEPT ![id].payload = state]
      /\ UNCHANGED <<generations, processes>>
  BY PayloadKinds DEF SetEvent
<1>2. /\ objects' \in ObjectsAfter
      /\ OthersOnly(objects')
  BY <1>1, OthersItself, OtherPayload
<1> QED
  BY <1>1, <1>2, OthersAlike

(* destroy: one entry goes, with an empty queue if it is an endpoint, and  *)
(* an endpoint whose peer it was is told.                                  *)
Destroys(id) ==
  /\ objects[id] # None /\ objects'[id] = None /\ generations'[id] = generations[id] + 1
  /\ \A o \in ObjectIds \ {id} :
       /\ generations'[o] = generations[o]
       /\ ~LosesPeer(id, o) => objects'[o] = objects[o]
       /\ LosesPeer(id, o) =>
            /\ objects'[o].kind = objects[o].kind
            /\ objects'[o].handleCount = objects[o].handleCount
            /\ objects'[o].payload = [objects[o].payload EXCEPT !.peerClosed = TRUE]
            /\ objects[o] # None /\ objects'[o] # None /\ objects[o].kind = "ChannelEndpoint"
  /\ SlotsStay /\ QueuesStay
  /\ \A o \in ObjectIds : Peer(o)' = IF o = id THEN None ELSE Peer(o)
  /\ GenerationsFree /\ NothingNew

(* Every destruction is one.                                               *)
LEMMA DestroyEffect ==
  ASSUME KernelOK, NEW id \in ObjectIds, DestroyObject(id)
  PROVE  Destroys(id)
<1>1. /\ objects[id] # None /\ Destroyable(objects[id])
      /\ objects' = [o \in ObjectIds |->
           IF o = id THEN None
           ELSE IF LosesPeer(id, o) THEN [objects[o] EXCEPT !.payload.peerClosed = TRUE]
           ELSE objects[o]]
      /\ generations' = [generations EXCEPT ![id] = generations[id] + 1]
      /\ UNCHANGED processes
  BY DEF DestroyObject
<1>2. /\ generations'[id] = generations[id] + 1
      /\ \A o \in ObjectIds \ {id} : generations'[o] = generations[o]
  BY <1>1 DEF KernelOK
<1>3. objects'[id] = None
  BY <1>1
<1>4. ASSUME NEW o \in ObjectIds \ {id}, ~LosesPeer(id, o)
      PROVE  objects'[o] = objects[o]
  BY <1>1, <1>4
<1>5. ASSUME NEW o \in ObjectIds \ {id}, LosesPeer(id, o)
      PROVE  /\ objects'[o].kind = objects[o].kind
             /\ objects'[o].handleCount = objects[o].handleCount
             /\ objects'[o].payload = [objects[o].payload EXCEPT !.peerClosed = TRUE]
             /\ objects[o] # None /\ objects'[o] # None /\ objects[o].kind = "ChannelEndpoint"
             /\ WellFormedEndpoint(objects[o].payload)
  <2>1. WellFormedEndpoint(objects[id].payload)
    BY <1>1, <1>5, LiveObject, PayloadOf DEF LosesPeer
  <2>2. objects[id].payload.peer \in ObjectRefs
    BY <1>5, <2>1 DEF LosesPeer, WellFormedEndpoint, Endpoints
  <2>3. objects[o] \in WellFormedObjects /\ objects[o].kind = "ChannelEndpoint" /\ objects[o] # None
    BY <1>5, <2>2, ValidObject DEF LosesPeer
  <2> DEFINE alone == [objects[o].payload EXCEPT !.peerClosed = TRUE]
  <2>4. objects'[o] = [objects[o] EXCEPT !.payload = alone]
    BY <1>1, <1>5
  <2>5. WellFormedPayload(objects[o].kind, alone)
    BY <2>2, <2>3, PayloadOf, PeerChangeWellFormed, PayloadKinds
  <2> HIDE DEF alone
  <2>6. objects'[o] = [ kind |-> objects[o].kind, handleCount |-> objects[o].handleCount,
                        payload |-> alone ]
    <3>1. objects[o] = [ kind |-> objects[o].kind, handleCount |-> objects[o].handleCount,
                         payload |-> objects[o].payload ]
      BY <2>3, ObjectParts
    <3> QED
      BY <2>4, <3>1
  <2>7. objects'[o] # None
    BY <2>3, <2>5, <2>6, MakeObject, ObjectParts
  <2> QED
    BY <2>3, <2>6, <2>7, PayloadOf DEF alone
<1>6. ASSUME NEW o \in ObjectIds \ {id}
      PROVE  /\ IsEndpoint(o)' <=> IsEndpoint(o)
             /\ IsEndpoint(o) => /\ objects'[o].payload.messages = objects[o].payload.messages
                                 /\ objects'[o].payload.peer = objects[o].payload.peer
             /\ objects'[o] # None => objects[o] # None
  <2>1. CASE LosesPeer(id, o)
    BY <1>5, <2>1 DEF IsEndpoint, WellFormedEndpoint, Endpoints
  <2>2. CASE ~LosesPeer(id, o)
    BY <1>4, <2>2 DEF IsEndpoint
  <2> QED
    BY <2>1, <2>2
<1>7. ASSUME NEW m \in MessageSlots
      PROVE  Queue(id, m) = None
  <2>1. CASE IsEndpoint(id)
    <3>1. WellFormedEndpoint(objects[id].payload) /\ objects[id].payload.queued = 0
      BY <1>1, <2>1, LiveObject, PayloadOf DEF IsEndpoint, Destroyable
    <3>2. Waiting(objects[id].payload) \in SUBSET (1 .. MaxChannelMessages)
      BY DEF Waiting, MessageSlots
    <3>3. Cardinality(Waiting(objects[id].payload)) = 0
      BY <3>1 DEF WellFormedEndpoint, ConsistentQueue
    <3>4. Waiting(objects[id].payload) = {}
      <4> DEFINE W == Waiting(objects[id].payload)
      <4> HIDE DEF W
      <4>1. W # {} => Cardinality(W) > 0
        BY <3>2, SlotsCount, ChannelAssumption DEF W
      <4>2. Cardinality(W) = 0
        BY <3>3 DEF W
      <4>3. W = {}
        BY <4>1, <4>2
      <4> QED
        BY <4>3 DEF W
    <3> QED
      BY <2>1, <3>4 DEF Queue, Waiting
  <2>2. CASE ~IsEndpoint(id)
    BY <2>2 DEF Queue
  <2> QED
    BY <2>1, <2>2
<1>8. ASSUME NEW o \in ObjectIds, NEW m \in MessageSlots
      PROVE  Queue(o, m)' = Queue(o, m)
  <2>1. CASE o = id
    BY <1>3, <1>7, <2>1 DEF Queue, IsEndpoint
  <2>2. CASE o # id /\ IsEndpoint(o)
    BY <1>6, <2>2 DEF Queue
  <2>3. CASE o # id /\ ~IsEndpoint(o)
    BY <1>6, <2>3 DEF Queue
  <2> QED
    BY <2>1, <2>2, <2>3
<1>9. ASSUME NEW o \in ObjectIds
      PROVE  Peer(o)' = IF o = id THEN None ELSE Peer(o)
  <2>1. CASE o = id
    BY <1>3, <2>1 DEF Peer, IsEndpoint
  <2>2. CASE o # id /\ IsEndpoint(o)
    BY <1>6, <2>2 DEF Peer
  <2>3. CASE o # id /\ ~IsEndpoint(o)
    BY <1>6, <2>3 DEF Peer
  <2> QED
    BY <2>1, <2>2, <2>3
<1>10. SlotsStay
  BY <1>1, TablesStay
<1>11. GenerationsFree /\ NothingNew
  BY <1>2, <1>3, <1>6 DEF GenerationsFree, NothingNew
<1> QED
  BY <1>1, <1>2, <1>3, <1>4, <1>5, <1>8, <1>9, <1>10, <1>11 DEF Destroys, QueuesStay

-----------------------------------------------------------------------------
(* Every call keeps references truthful.                                   *)

(* Calls that leave the handles where they are.                            *)
LEMMA StillMoves ==
  ASSUME KernelOK, NEW owner, Still
  PROVE  Moves(owner)
<1>1. /\ QueuesStay /\ PeersStay /\ NothingNew
      /\ GenerationsFree /\ SlotsStay
  BY AlikeKeeps DEF Still
<1>2. \A q \in ProcessIds, i \in Slots : At(q, i)' \in {At(q, i), None}
  BY <1>1 DEF SlotsStay
<1>3. \A id \in ObjectIds : Peer(id)' \in {Peer(id), None}
  BY <1>1 DEF PeersStay
<1> QED
  BY <1>1, <1>2, <1>3, FewerMoves

(* Close and revoke.                                                       *)
LEMMA CloseMoves ==
  ASSUME KernelOK, NEW owner, NEW p \in ProcessIds, Running(p), NEW S \in SUBSET Slots,
         NEW ref, Closes(p, S, ref)
  PROVE  Moves(owner)
<1>1. /\ AllAlike /\ GenerationsFree
      /\ \A q \in ProcessIds, i \in Slots :
           At(q, i)' = IF q = p /\ i \in S THEN None ELSE At(q, i)
  BY DEF Closes
<1>2. QueuesStay /\ PeersStay /\ NothingNew
  BY <1>1, AlikeKeeps
<1>3. \A id \in ObjectIds : Peer(id)' \in {Peer(id), None}
  BY <1>2 DEF PeersStay
<1> QED
  BY <1>1, <1>2, <1>3, FewerMoves

(* Duplicate: the new entry stands beside its parent.                      *)
LEMMA DuplicateMoves ==
  ASSUME KernelOK, NEW owner, SoundRefs(owner), NEW p \in ProcessIds, Running(p),
         NEW source \in Slots, NEW rights, NEW s \in Slots, Duplicates(p, source, rights, s)
  PROVE  Moves(owner)
<1> DEFINE d == DerivedEntry(Handles(p), source, rights)
           e == At(p, source)
<1>2. AllAlike /\ GenerationsFree /\ d \in Entries
  BY DEF Duplicates
<1>3. QueuesStay /\ PeersStay /\ NothingNew
  BY <1>2, AlikeKeeps
<1>4. source \in Nameable(Handles(p)) /\ CanDerive(Handles(p), source, rights)
  BY DEF Duplicates
<1>5. e = Handles(p).entry[source] /\ e \in Entries /\ e # None
  BY <1>4, OccupiedSlot
<1>6. /\ d.object = e.object /\ d.kind = e.kind /\ d.rights = rights
      /\ d.parent = HandleOf(Handles(p), source)
  BY <1>5 DEF DerivedEntry, Entries
<1>7. /\ d.parent.index = source /\ d.parent.generation = Handles(p).generation[source]
      /\ "DUPLICATE" \in e.rights /\ rights \subseteq e.rights
  BY <1>4, <1>5, <1>6 DEF Nameable, ValidHandle, HandleOf, CanDerive
<1>8. Sound(owner, p, e)
  BY <1>5 DEF SoundRefs, Belongs
<1>9. Sound(owner, p, d)
  <2>1. Lineage(p, d)
    BY <1>5, <1>6, <1>7 DEF Lineage
  <2> QED
    BY <1>6, <1>8, <2>1 DEF Sound
<1> HIDE DEF d, e
<1>10. \A q \in ProcessIds, i \in Slots : At(q, i)' = IF q = p /\ i = s THEN d ELSE At(q, i)
  BY DEF Duplicates, d
<1>11. ASSUME NEW q \in ProcessIds, NEW f \in Entries, Belongs(owner, q, f)'
       PROVE  Belongs(owner, q, f) \/ (Running(q) /\ Sound(owner, q, f))
  <2>1. ASSUME NEW i \in Slots, At(q, i)' = f
        PROVE  Belongs(owner, q, f) \/ (Running(q) /\ Sound(owner, q, f))
    <3>1. CASE q = p /\ i = s
      BY <1>9, <1>10, <2>1, <3>1
    <3>2. CASE ~(q = p /\ i = s)
      BY <1>10, <2>1, <3>2 DEF Belongs
    <3> QED
      BY <3>1, <3>2
  <2>2. ASSUME NEW id \in ObjectIds, InQueue(id, f)', owner[RefTo(id)'] = q
        PROVE  Belongs(owner, q, f)
    <3>1. InQueue(id, f)
      BY <1>3, <2>2 DEF InQueue, QueuesStay
    <3>2. objects'[id] # None
      BY <2>2 DEF InQueue, Queue, IsEndpoint
    <3> QED
      BY <1>2, <2>2, <3>1, <3>2, RefsStay DEF Belongs
  <2> QED
    BY <1>11, <2>1, <2>2 DEF Belongs
<1> QED
  BY <1>2, <1>3, <1>11 DEF Moves, PeersStay

(* Send: what one process puts into a message, the peer's owner is to get, *)
(* and that is the same process.                                           *)
LEMMA SendMoves ==
  ASSUME KernelOK, NEW owner, SoundRefs(owner), NEW p \in ProcessIds, Running(p),
         NEW channel \in Slots, NEW moved, NEW id \in ObjectIds, NEW m \in MessageSlots,
         Sends(p, channel, moved, id, m)
  PROVE  Moves(owner)
<1>1. Sends(p, channel, moved, id, m)
  OBVIOUS
<1> DEFINE message == [k \in DOMAIN moved |-> At(p, moved[k])]
           c == At(p, channel).object.id
<1>2. At(p, channel) \in Entries
  BY <1>1, ViewTypes DEF Sends
<1>3. c \in ObjectIds /\ At(p, channel).object \in ObjectRefs
  BY <1>2, EntryParts
<1>4. owner[RefTo(id)] = p
  <2>1. owner[At(p, channel).object] = p
    BY <1>2 DEF SoundRefs, Belongs, Sound
  <2>2. RefTo(id) \in ObjectRefs /\ Peer(c) = RefTo(id) /\ At(p, channel).object = RefTo(c)
    BY <1>1, RefType DEF Sends
  <2>3. owner[RefTo(id)] = owner[RefTo(c)]
    BY <1>3, <2>2 DEF SoundRefs
  <2> QED
    BY <2>1, <2>2, <2>3
<1>5. ASSUME NEW q \in ProcessIds, NEW e \in Entries, Belongs(owner, q, e)'
      PROVE  Belongs(owner, q, e)
  <2>1. ASSUME NEW i \in Slots, At(q, i)' = e
        PROVE  Belongs(owner, q, e)
    <3>1. At(q, i) = e
      BY <1>1, <2>1, EntryParts DEF Sends
    <3> QED
      BY <3>1 DEF Belongs
  <2>2. ASSUME NEW o \in ObjectIds, InQueue(o, e)', owner[RefTo(o)'] = q
        PROVE  Belongs(owner, q, e)
    <3>1. PICK n \in MessageSlots :
            Queue(o, n)' # None /\ \E k \in DOMAIN Queue(o, n)' : Queue(o, n)'[k] = e
      BY <2>2 DEF InQueue
    <3>2. RefTo(o)' = RefTo(o)
      <4>1. objects'[o] # None
        BY <2>2 DEF InQueue, Queue, IsEndpoint
      <4> QED
        BY <1>1, <4>1, RefsStay DEF Sends
    <3>3. CASE o = id /\ n = m
      <4>1. Queue(o, n)' = message
        BY <1>1, <3>3 DEF Sends
      <4>2. PICK k \in DOMAIN moved : At(p, moved[k]) = e
        BY <3>1, <4>1
      <4>3. moved[k] \in Slots
        BY <1>1 DEF Sends
      <4> QED
        BY <1>4, <2>2, <3>2, <3>3, <4>2, <4>3 DEF Belongs
    <3>4. CASE ~(o = id /\ n = m)
      <4>1. Queue(o, n)' = Queue(o, n)
        BY <1>1, <3>4 DEF Sends
      <4>2. InQueue(o, e)
        BY <3>1, <4>1 DEF InQueue
      <4> QED
        BY <2>2, <3>2, <4>2 DEF Belongs
    <3> QED
      BY <3>3, <3>4
  <2> QED
    BY <1>5, <2>1, <2>2 DEF Belongs
<1> QED
  BY <1>1, <1>5 DEF Sends, Moves, PeersStay

(* Recv: whoever can name the endpoint is the one its messages are for.    *)
LEMMA RecvMoves ==
  ASSUME KernelOK, NEW owner, SoundRefs(owner), NEW p \in ProcessIds, Running(p),
         NEW channel \in Slots, NEW id \in ObjectIds, NEW m \in MessageSlots,
         Receives(p, channel, id, m)
  PROVE  Moves(owner)
<1>1. Receives(p, channel, id, m)
  OBVIOUS
<1>2. At(p, channel) \in Entries
  BY <1>1, ViewTypes DEF Receives
<1>3. owner[RefTo(id)] = p
  BY <1>1, <1>2 DEF SoundRefs, Belongs, Sound, Receives
<1>4. ASSUME NEW q \in ProcessIds, NEW e \in Entries, Belongs(owner, q, e)'
      PROVE  Belongs(owner, q, e)
  <2>1. ASSUME NEW i \in Slots, At(q, i)' = e
        PROVE  Belongs(owner, q, e)
    <3>1. CASE At(q, i) = e
      BY <3>1 DEF Belongs
    <3>2. CASE At(q, i) # e
      <4>1. /\ q = p
            /\ \E k \in DOMAIN Queue(id, m) : Queue(id, m)[k] = e
        BY <1>1, <2>1, <3>2 DEF Receives
      <4>2. InQueue(id, e)
        BY <1>1, <4>1 DEF InQueue, Receives
      <4> QED
        BY <1>3, <4>1, <4>2 DEF Belongs
    <3> QED
      BY <3>1, <3>2
  <2>2. ASSUME NEW o \in ObjectIds, InQueue(o, e)', owner[RefTo(o)'] = q
        PROVE  Belongs(owner, q, e)
    <3>1. PICK n \in MessageSlots :
            Queue(o, n)' # None /\ \E k \in DOMAIN Queue(o, n)' : Queue(o, n)'[k] = e
      BY <2>2 DEF InQueue
    <3>2. Queue(o, n)' = Queue(o, n)
      BY <1>1, <3>1 DEF Receives
    <3>3. InQueue(o, e)
      BY <3>1, <3>2 DEF InQueue
    <3>4. objects'[o] # None
      BY <2>2 DEF InQueue, Queue, IsEndpoint
    <3>5. RefTo(o)' = RefTo(o)
      BY <1>1, <3>4, RefsStay DEF Receives
    <3> QED
      BY <2>2, <3>3, <3>5 DEF Belongs
  <2> QED
    BY <1>4, <2>1, <2>2 DEF Belongs
<1> QED
  BY <1>1, <1>4 DEF Receives, Moves, PeersStay

(* Destroy.                                                                *)
LEMMA DestroyMoves ==
  ASSUME KernelOK, NEW owner, NEW id \in ObjectIds, Destroys(id)
  PROVE  Moves(owner)
<1>1. Destroys(id) /\ GenerationsFree /\ NothingNew
  BY DEF Destroys
<1>2. /\ \A q \in ProcessIds, i \in Slots : At(q, i)' \in {At(q, i), None}
      /\ \A o \in ObjectIds : Peer(o)' \in {Peer(o), None}
      /\ QueuesStay
  BY <1>1 DEF Destroys, SlotsStay
<1> QED
  BY <1>1, <1>2, FewerMoves

(* A handle that descends_from finds to be derived from another one has no *)
(* right that the other lacks, and leads to the same object.               *)
LEMMA ChildrenAgree ==
  ASSUME KernelOK, NEW owner, SoundRefs(owner)
  PROVE  DerivedRightsShrink
<1> SUFFICES ASSUME NEW p \in ProcessIds, Running(p),
                    NEW i \in Slots, NEW j \in Slots, Child(Handles(p), i, j)
             PROVE  LET parent == Handles(p).entry[i]
                        child == Handles(p).entry[j]
                    IN  /\ child.rights \subseteq parent.rights
                        /\ child.object = parent.object
                        /\ "DUPLICATE" \in parent.rights
  BY DEF DerivedRightsShrink
<1>1. At(p, j) = Handles(p).entry[j] /\ At(p, i) = Handles(p).entry[i] /\ At(p, j) # None
  BY DEF At, Child, Occupied
<1>2. At(p, j) \in Entries
  BY <1>1, ViewTypes
<1>3. Lineage(p, At(p, j))
  BY <1>2 DEF SoundRefs, Sound, Belongs
<1>4. /\ At(p, j).parent # None /\ At(p, j).parent.index = i
      /\ At(p, j).parent.generation = Handles(p).generation[i]
  BY <1>1 DEF Child
<1>5. Handles(p).generation[i] \in Nat
  BY RunningProcess, HandleTableAssumption DEF Tables
<1> QED
  BY <1>1, <1>3, <1>4, <1>5 DEF Lineage

(* Revocation collects handles to the object of the root alone.            *)
LEMMA DescendantsAgree ==
  ASSUME KernelOK, DerivedRightsShrink, NEW p \in ProcessIds, Running(p), NEW root \in Slots
  PROVE  \A j \in Descendants(Handles(p), root) :
           /\ j \in Slots /\ At(p, j) # None
           /\ At(p, j).object = Handles(p).entry[root].object
<1> DEFINE table == Handles(p)
           D == {j \in Occupied(table) : table.entry[j].object = table.entry[root].object}
<1>1. \A j \in Slots : Child(table, root, j) => j \in Occupied(table)
  BY DEF Child
<1>2. ASSUME NEW i \in D, NEW j \in Slots, Child(table, i, j)
      PROVE  j \in D
  <2>1. i \in Slots /\ j \in Occupied(table)
    BY <1>2 DEF Child, Occupied
  <2>2. table.entry[j].object = table.entry[i].object
    BY <1>2, <2>1 DEF DerivedRightsShrink
  <2> QED
    BY <2>1, <2>2
<1>3. Descendants(table, root) \subseteq D
  BY <1>1, <1>2, DescendantsLeast
<1> QED
  BY <1>3 DEF Occupied, At

(* What a step can be.                                                     *)
StepKinds ==
  \/ Still
  \/ \E p \in ProcessIds, N \in SUBSET ObjectIds : Creates(p, N)
  \/ \E id \in ObjectIds : Destroys(id)
  \/ \E p \in ProcessIds : Running(p) /\
       \/ \E source, s \in Slots, rights \in RightsChoices : Duplicates(p, source, rights, s)
       \/ \E S \in SUBSET Slots, ref \in ObjectRefs : Closes(p, S, ref)
       \/ \E channel \in Slots, moved \in HandleLists, id \in ObjectIds, m \in MessageSlots :
            Sends(p, channel, moved, id, m)
       \/ \E channel \in Slots, id \in ObjectIds, m \in MessageSlots :
            Receives(p, channel, id, m)

(* CloseHandle closes one handle.                                          *)
LEMMA CloseHandleCloses ==
  ASSUME KernelOK, NEW p \in ProcessIds, Running(p), NEW i \in Slots, CloseHandle(p, i)
  PROVE  \E S \in SUBSET Slots, ref \in ObjectRefs :
           /\ Closes(p, S, ref) /\ CloseSlots(p, S, ref)
           /\ S = {i} /\ ref = Handles(p).entry[i].object
<1>1. PICK ref \in ObjectRefs : ref = Handles(p).entry[i].object
  BY NameableEntry DEF CloseHandle
<1>2. CloseSlots(p, {i}, ref) /\ Live(ref)
  BY <1>1 DEF CloseHandle
<1>3. At(p, i) # None /\ At(p, i).object = ref
  BY <1>1, NameableEntry DEF CloseHandle, At, Occupied
<1>4. LetsGo(p, {i}, ref)
  BY <1>1, FS_Singleton DEF CloseHandle, LetsGo
<1>5. Closes(p, {i}, ref)
  BY <1>2, <1>3, <1>4, CloseEffect
<1> QED
  BY <1>1, <1>2, <1>5

(* RevokeDescendants closes handles to the object of the root, and the     *)
(* root stays.                                                             *)
LEMMA RevokeCloses ==
  ASSUME KernelOK, DerivedRightsShrink, NEW p \in ProcessIds, Running(p), NEW root \in Slots,
         RevokeDescendants(p, root)
  PROVE  \E S \in SUBSET Slots, ref \in ObjectRefs :
           /\ Closes(p, S, ref) /\ CloseSlots(p, S, ref)
           /\ S = ClosedByRevoke(p, root) /\ ref = Handles(p).entry[root].object
<1>1. PICK ref \in ObjectRefs : ref = Handles(p).entry[root].object
  BY NameableEntry DEF RevokeDescendants
<1>2. PICK S \in SUBSET Slots : S = ClosedByRevoke(p, root)
  BY DEF ClosedByRevoke, Revocable, Descendants
<1>3. CloseSlots(p, S, ref) /\ Live(ref)
  BY <1>1, <1>2 DEF RevokeDescendants
<1>4. \A i \in S : At(p, i) # None /\ At(p, i).object = ref
  BY <1>1, <1>2, DescendantsAgree DEF ClosedByRevoke, Revocable, RevokeDescendants
<1>5. LetsGo(p, S, ref)
  <2>1. At(p, root) # None /\ At(p, root).object = ref
    BY <1>1, NameableEntry DEF RevokeDescendants, At, Occupied
  <2>2. root \notin S
    BY <1>2 DEF ClosedByRevoke, Revocable
  <2> QED
    BY <2>1, <2>2 DEF LetsGo
<1>6. Closes(p, S, ref)
  BY <1>3, <1>4, <1>5, CloseEffect
<1> QED
  BY <1>1, <1>2, <1>3, <1>6

(* A call that undoes itself.                                              *)
LEMMA UndoneStill ==
  ASSUME UNCHANGED <<objects, processes>>, GenerationsFree
  PROVE  Still
<1>1. AllAlike
  BY DEF AllAlike, Alike
<1> QED
  BY <1>1, TablesStay DEF Still, CountsStay

(* A create call that fails.                                               *)
LEMMA FailureStill ==
  ASSUME KernelOK, NEW p \in ProcessIds, Running(p), CreateRolledBack(p) \/ SecondObjectRefused(p)
  PROVE  Still
<1>1. UNCHANGED vars
  BY CreateUndone
<1> QED
  BY <1>1, UndoneStill DEF vars, GenerationsFree

(* The calls on address spaces.                                            *)
LEMMA SpaceCallStill ==
  ASSUME KernelOK, NEW p \in ProcessIds, Running(p), SpaceCall(p)
  PROVE  Still
<1>1. ASSUME NEW space \in Slots, NEW memory \in Slots, NEW request \in MapRequests,
             MapRolledBack(p, space, memory, request)
      PROVE  Still
  <2>1. UNCHANGED vars
    BY <1>1, MapUndone
  <2> QED
    BY <2>1, UndoneStill DEF vars, GenerationsFree
<1> QED
  BY <1>1, MapEffect, UnmapEffect, FlushEffect DEF SpaceCall

(* Every step is one of these.                                             *)
LEMMA StepEffect ==
  ASSUME KernelOK, DerivedRightsShrink, [Next]_vars
  PROVE  StepKinds
<1>1. ASSUME NEW p \in ProcessIds, CreateBootstrapProcess(p)
      PROVE  StepKinds
  BY <1>1, BootstrapCreates DEF StepKinds, Buys
<1>2. ASSUME NEW p \in ProcessIds, Running(p), NEW i \in Slots, CloseHandle(p, i)
      PROVE  StepKinds
  BY <1>2, CloseHandleCloses DEF StepKinds
<1>3. ASSUME NEW p \in ProcessIds, Running(p), NEW root \in Slots, RevokeDescendants(p, root)
      PROVE  StepKinds
  BY <1>3, RevokeCloses DEF StepKinds
<1>4. ASSUME NEW p \in ProcessIds, Running(p), CreateRolledBack(p) \/ SecondObjectRefused(p)
      PROVE  StepKinds
  BY <1>4, FailureStill DEF StepKinds
<1>5. ASSUME NEW p \in ProcessIds, Running(p), NEW max \in MessageLimits,
             ChannelPairRolledBack(p, max)
      PROVE  StepKinds
  BY <1>5, PairUndone, UndoneStill DEF StepKinds
<1>6. ASSUME NEW p \in ProcessIds, Running(p), NEW source \in Slots, NEW rights \in RightsChoices,
             DuplicateHandle(p, source, rights)
      PROVE  StepKinds
  BY <1>6, DuplicateEffect DEF StepKinds
<1>7. ASSUME NEW p \in ProcessIds, Running(p), NEW channel \in Slots, NEW moved \in HandleLists,
             ChannelSend(p, channel, moved)
      PROVE  StepKinds
  BY <1>7, SendEffect DEF StepKinds
<1>8. ASSUME NEW p \in ProcessIds, Running(p), NEW channel \in Slots, ChannelRecv(p, channel)
      PROVE  StepKinds
  BY <1>8, RecvEffect DEF StepKinds
<1>9. ASSUME NEW p \in ProcessIds, Running(p), ObjectCall(p)
      PROVE  StepKinds
  <2>1. ASSUME NEW N \in SUBSET ObjectIds, Creates(p, N)
        PROVE  StepKinds
    BY <2>1 DEF StepKinds
  <2> QED
    BY <1>2, <1>3, <1>4, <1>6, <1>9, <2>1, CreateObjectCreates, CreateMemoryCreates
       DEF ObjectCall, Buys
<1>10. ASSUME NEW p \in ProcessIds, Running(p), ChannelCall(p)
       PROVE  StepKinds
  <2>1. ASSUME NEW N \in SUBSET ObjectIds, Creates(p, N)
        PROVE  StepKinds
    BY <2>1 DEF StepKinds
  <2> QED
    BY <1>4, <1>5, <1>7, <1>8, <1>10, <2>1, PairCreates DEF ChannelCall, Buys
<1>11. ASSUME NEW p \in ProcessIds, Running(p), SpaceCall(p)
       PROVE  StepKinds
  BY <1>11, SpaceCallStill DEF StepKinds
<1>12. ASSUME HostCall
       PROVE  StepKinds
  BY <1>12, DestroyEffect, EventEffect DEF HostCall, StepKinds
<1>13. CASE UNCHANGED vars
  <2>1. Still
    BY <1>13, UndoneStill DEF vars, GenerationsFree
  <2> QED
    BY <2>1 DEF StepKinds
<1> QED
  BY <1>1, <1>9, <1>10, <1>11, <1>12, <1>13 DEF Next, SystemCall

(* Every step moves entries or makes objects.                              *)
LEMMA MovesOrCreates ==
  ASSUME KernelOK, [Next]_vars, NEW owner, SoundRefs(owner)
  PROVE  \/ Moves(owner)
         \/ \E p \in ProcessIds, N \in SUBSET ObjectIds : Creates(p, N)
BY ChildrenAgree, StepEffect, StillMoves, DestroyMoves, DuplicateMoves, CloseMoves, SendMoves, RecvMoves
   DEF StepKinds

-----------------------------------------------------------------------------
(* Theorems.                                                               *)

(* Nothing refers to anything yet.                                         *)
LEMMA InitReferences == Init => ReferencesOK
<1> SUFFICES ASSUME Init PROVE ReferencesOK
  OBVIOUS
<1>1. KernelOK
  BY InitWellFormed
<1>2. PICK owner \in Owners : TRUE
  <2>1. 0 \in 0 .. ProcessCapacity
    BY KernelAssumption
  <2>2. [r \in ObjectRefs |-> 0] \in Owners
    BY <2>1 DEF Owners
  <2> QED
    BY <2>2
<1>3. \A id \in ObjectIds : objects[id] = None /\ ~IsEndpoint(id)
  BY DEF Init, IsEndpoint
<1>4. \A q \in ProcessIds, i \in Slots : At(q, i) = None
  BY DEF Init, At, Running
<1>5. \A q \in ProcessIds, e \in Entries : ~Belongs(owner, q, e)
  BY <1>3, <1>4, EntryParts DEF Belongs, InQueue, Queue
<1>6. \A id \in ObjectIds, r \in ObjectRefs : Peer(id) # r
  BY <1>3, NoneIsNoRef DEF Peer
<1>7. SoundRefs(owner)
  BY <1>3, <1>5, <1>6 DEF SoundRefs
<1> QED
  BY <1>1, <1>7 DEF ReferencesOK

(* No call makes a reference lie.                                          *)
LEMMA StepReferences == ReferencesOK /\ [Next]_vars => ReferencesOK'
<1> SUFFICES ASSUME ReferencesOK, [Next]_vars PROVE ReferencesOK'
  OBVIOUS
<1>1. KernelOK /\ StepOK /\ KernelOK'
  BY StepWellFormed DEF ReferencesOK, StepOK
<1>2. PICK owner \in Owners : SoundRefs(owner)
  BY DEF ReferencesOK
<1>3. CASE Moves(owner)
  BY <1>1, <1>2, <1>3, MovesSound DEF ReferencesOK
<1>4. ASSUME NEW p \in ProcessIds, NEW N \in SUBSET ObjectIds, Creates(p, N)
      PROVE  ReferencesOK'
  <2>1. \E after \in Owners : SoundRefs(after)'
    BY <1>1, <1>2, <1>4, CreatesSound
  <2> QED
    BY <1>1, <2>1 DEF ReferencesOK
<1> QED
  BY <1>1, <1>2, <1>3, <1>4, MovesOrCreates

(* References stay truthful through every sequence of calls.               *)
THEOREM ReferencesStayTrue == Spec => []ReferencesOK
BY InitReferences, StepReferences, PTL DEF Spec

(* Every entry, in a table or in a message, belongs to a process.          *)
LEMMA EntriesBelong ==
  ASSUME KernelOK, NEW owner, SoundRefs(owner)
  PROVE  /\ \A l \in TableSlots :
              /\ l[1] \in ProcessIds /\ l[2] \in Slots /\ Running(l[1])
              /\ EntryAt(l) = At(l[1], l[2]) /\ EntryAt(l) \in Entries
              /\ Belongs(owner, l[1], EntryAt(l))
         /\ \A l \in TransitSlots :
              /\ InTransit(l) \in Entries /\ InQueue(l[1], InTransit(l))
              /\ \E q \in ProcessIds : Belongs(owner, q, InTransit(l))
<1>1. ASSUME NEW l \in TableSlots
      PROVE  /\ l[1] \in ProcessIds /\ l[2] \in Slots /\ Running(l[1])
             /\ EntryAt(l) = At(l[1], l[2]) /\ EntryAt(l) \in Entries
             /\ Belongs(owner, l[1], EntryAt(l))
  <2>1. /\ l[1] \in ProcessIds /\ l[2] \in Slots /\ Running(l[1])
        /\ EntryAt(l) # None /\ EntryAt(l) = At(l[1], l[2])
    BY DEF TableSlots, Occupied, EntryAt, At
  <2> QED
    BY <2>1, ViewTypes DEF Belongs
<1>2. ASSUME NEW l \in TransitSlots
      PROVE  /\ InTransit(l) \in Entries /\ InQueue(l[1], InTransit(l))
             /\ \E q \in ProcessIds : Belongs(owner, q, InTransit(l))
  <2>1. /\ l[1] \in ObjectIds /\ l[2] \in MessageSlots /\ IsEndpoint(l[1])
        /\ Queue(l[1], l[2]) = objects[l[1]].payload.messages[l[2]]
        /\ Queue(l[1], l[2]) # None
        /\ l[3] \in DOMAIN Queue(l[1], l[2])
        /\ InTransit(l) = Queue(l[1], l[2])[l[3]]
    BY DEF TransitSlots, OfKind, LiveIds, Waiting, Queue, IsEndpoint, InTransit
  <2>2. InTransit(l) \in Entries
    BY <2>1, ViewTypes, MessageEntries
  <2>3. InQueue(l[1], InTransit(l))
    BY <2>1 DEF InQueue
  <2>4. owner[RefTo(l[1])] \in ProcessIds
    BY <2>1 DEF SoundRefs, IsEndpoint
  <2> QED
    BY <2>1, <2>2, <2>3, <2>4 DEF Belongs
<1> QED
  BY <1>1, <1>2

(* Even when the host destroys objects under their handles, a handle that  *)
(* passes the generation check of validate names an object of its kind.    *)
THEOREM KindsAreNotConfused == Spec => []NoKindConfusion
<1>1. ReferencesOK => NoKindConfusion
  <2> SUFFICES ASSUME ReferencesOK, NEW e \in AllEntries, Live(e.object)
               PROVE  objects[e.object.id].kind = e.kind
    BY DEF NoKindConfusion
  <2>1. PICK owner \in Owners : SoundRefs(owner)
    BY DEF ReferencesOK
  <2>2. PICK q \in ProcessIds : e \in Entries /\ Belongs(owner, q, e)
    BY <2>1, EntriesBelong DEF AllEntries, ReferencesOK
  <2> QED
    BY <2>1, <2>2 DEF SoundRefs, Sound
<1> QED
  BY <1>1, ReferencesStayTrue, PTL

(* No sequence of system calls, sends and receives included, carries a     *)
(* handle from one process to another.                                     *)
THEOREM HandlesAreConfined == Spec => []ProcessesConfined
<1>1. ReferencesOK => ProcessesConfined
  <2> SUFFICES ASSUME ReferencesOK, NEW l \in TableSlots, NEW m \in TableSlots,
                      EntryAt(l).object = EntryAt(m).object
               PROVE  l[1] = m[1]
    BY DEF ProcessesConfined
  <2>1. PICK owner \in Owners : SoundRefs(owner)
    BY DEF ReferencesOK
  <2>2. owner[EntryAt(l).object] = l[1] /\ owner[EntryAt(m).object] = m[1]
    BY <2>1, EntriesBelong DEF SoundRefs, Sound, ReferencesOK
  <2> QED
    BY <2>2
<1> QED
  BY <1>1, ReferencesStayTrue, PTL

(* A handle that descends_from finds to be derived from another one has no *)
(* right that the other lacks, whatever channels either went through.      *)
THEOREM DerivedHandlesLoseRights == Spec => []DerivedRightsShrink
<1>1. ReferencesOK => DerivedRightsShrink
  BY ChildrenAgree DEF ReferencesOK
<1> QED
  BY <1>1, ReferencesStayTrue, PTL

-----------------------------------------------------------------------------
(* The two ends of a channel.                                              *)

(* An end is closed exactly when the end it names is gone; as long as that *)
(* one lives it names this one.                                            *)
PeersLinked ==
  \A id \in ObjectIds, r \in ObjectRefs : Peer(id) = r =>
    /\ Closed(id) <=> ~Live(r)
    /\ Live(r) => Peer(r.id) = RefTo(id)

(* An endpoint is alive, and has one reference.                            *)
LEMMA PeerLives ==
  ASSUME NEW id \in ObjectIds, NEW r \in ObjectRefs, Peer(id) = r
  PROVE  IsEndpoint(id) /\ objects[id] # None /\ objects[id].payload.peer = r
BY NoneIsNoRef DEF Peer, IsEndpoint

(* Calls that touch no peer keep the ends linked: an end that is named by  *)
(* the other one has not gone.                                             *)
LEMMA LinkedStays ==
  ASSUME KernelOK, StepOK, NEW owner, SoundRefs(owner), PeersLinked,
         PeersStay, ClosedStay, GenerationsFree
  PROVE  PeersLinked'
<1> SUFFICES ASSUME NEW id \in ObjectIds, NEW r \in ObjectRefs, Peer(id)' = r
             PROVE  /\ Closed(id)' <=> ~Live(r)'
                    /\ Live(r)' => Peer(r.id)' = RefTo(id)'
  BY DEF PeersLinked
<1>1. Peer(id) = r /\ (Closed(id)' <=> Closed(id))
  BY DEF PeersStay, ClosedStay
<1>2. RefBehind(r) /\ (Closed(id) <=> ~Live(r)) /\ (Live(r) => Peer(r.id) = RefTo(id))
  BY <1>1 DEF SoundRefs, PeersLinked
<1>3. objects'[id] # None
  BY NoneIsNoRef DEF Peer, IsEndpoint
<1>4. RefTo(id)' = RefTo(id) /\ RefTo(id) \in ObjectRefs
  BY <1>3, RefsStay, RefType
<1>5. r.id \in ObjectIds
  BY DEF ObjectRefs
<1>6. Peer(r.id)' = Peer(r.id)
  BY <1>5 DEF PeersStay
<1>7. Live(r)' => Live(r)
  BY <1>2, BehindKept
<1>8. ASSUME Live(r)
      PROVE  Live(r)'
  <2>1. Peer(r.id)' = RefTo(id)
    BY <1>2, <1>6, <1>8
  <2>2. objects'[r.id] # None
    BY <1>4, <2>1, NoneIsNoRef DEF Peer, IsEndpoint
  <2>3. generations'[r.id] = generations[r.id]
    BY <1>5, <2>2 DEF GenerationsFree
  <2> QED
    BY <1>8, <2>2, <2>3 DEF Live
<1> QED
  BY <1>1, <1>2, <1>4, <1>6, <1>7, <1>8

(* New objects are named by nobody but each other.                         *)
LEMMA LinkedCreates ==
  ASSUME KernelOK, StepOK, NEW owner, SoundRefs(owner), PeersLinked,
         NEW p \in ProcessIds, NEW N \in SUBSET ObjectIds, Creates(p, N)
  PROVE  PeersLinked'
<1> SUFFICES ASSUME NEW id \in ObjectIds, NEW r \in ObjectRefs, Peer(id)' = r
             PROVE  /\ Closed(id)' <=> ~Live(r)'
                    /\ Live(r)' => Peer(r.id)' = RefTo(id)'
  BY DEF PeersLinked
<1>1. /\ generations' = generations
      /\ \A o \in N : objects[o] = None /\ objects'[o] # None
      /\ \A o \in ObjectIds \ N : objects'[o] = objects[o]
      /\ \A o \in ObjectIds : RefTo(o)' = RefTo(o)
  BY DEF Creates, RefTo
<1>2. r.id \in ObjectIds
  BY DEF ObjectRefs
<1>3. \A o \in ObjectIds \ N : Peer(o)' = Peer(o) /\ (Closed(o)' <=> Closed(o))
  BY <1>1 DEF Peer, Closed, IsEndpoint
<1>4. CASE Peer(id) = r
  <2>1. id \notin N
    BY <1>1, <1>4, PeerLives
  <2>2. RefBehind(r) /\ (Closed(id) <=> ~Live(r)) /\ (Live(r) => Peer(r.id) = RefTo(id))
    BY <1>4 DEF SoundRefs, PeersLinked
  <2>3. Live(r)' <=> Live(r)
    <3>1. CASE r.id \in N
      <4>1. r.generation < generations[r.id]
        BY <1>1, <2>2, <3>1 DEF RefBehind
      <4>2. r.generation # generations[r.id]
        BY <1>2, <4>1, KernelNamesAssumption DEF KernelOK, ObjectRefs
      <4> QED
        BY <1>1, <4>2 DEF Live
    <3>2. CASE r.id \notin N
      BY <1>1, <1>2, <3>2 DEF Live
    <3> QED
      BY <3>1, <3>2
  <2>4. Live(r) => r.id \notin N
    BY <1>1 DEF Live
  <2> QED
    BY <1>1, <1>2, <1>3, <2>1, <2>2, <2>3, <2>4
<1>5. CASE Peer(id) # r
  <2>1. PICK other \in N : r = RefTo(other)' /\ Peer(other)' = RefTo(id)' /\ ~Closed(id)'
    <3>1. PICK other \in N : Peer(id)' = RefTo(other) /\ Peer(other)' = RefTo(id) /\ ~Closed(id)'
      BY <1>5 DEF Creates
    <3>2. RefTo(other)' = RefTo(other) /\ RefTo(id)' = RefTo(id)
      BY <1>1
    <3> QED
      BY <3>1, <3>2
  <2>2. r.id = other /\ Live(r)'
    BY <1>1, <2>1 DEF RefTo, Live
  <2> QED
    BY <2>1, <2>2
<1> QED
  BY <1>4, <1>5

(* The end that the destroyed one names is told, and no other end names    *)
(* the destroyed one.                                                      *)
LEMMA LinkedDestroys ==
  ASSUME KernelOK, StepOK, NEW owner, SoundRefs(owner), PeersLinked,
         NEW gone \in ObjectIds, Destroys(gone)
  PROVE  PeersLinked'
<1> SUFFICES ASSUME NEW id \in ObjectIds, NEW r \in ObjectRefs, Peer(id)' = r
             PROVE  /\ Closed(id)' <=> ~Live(r)'
                    /\ Live(r)' => Peer(r.id)' = RefTo(id)'
  BY DEF PeersLinked
<1>1. /\ objects'[gone] = None
      /\ \A o \in ObjectIds \ {gone} :
           /\ generations'[o] = generations[o]
           /\ ~LosesPeer(gone, o) => objects'[o] = objects[o]
           /\ LosesPeer(gone, o) =>
                /\ objects'[o].kind = objects[o].kind
                /\ objects'[o].payload = [objects[o].payload EXCEPT !.peerClosed = TRUE]
                /\ objects[o] # None /\ objects'[o] # None /\ objects[o].kind = "ChannelEndpoint"
      /\ \A o \in ObjectIds : Peer(o)' = IF o = gone THEN None ELSE Peer(o)
  BY DEF Destroys
<1>2. id # gone /\ Peer(id) = r
  BY <1>1, NoneIsNoRef
<1>3. RefBehind(r) /\ (Closed(id) <=> ~Live(r)) /\ (Live(r) => Peer(r.id) = RefTo(id))
  BY <1>2 DEF SoundRefs, PeersLinked
<1>4. r.id \in ObjectIds /\ RefTo(id)' = RefTo(id) /\ RefTo(id) \in ObjectRefs
  <2>1. objects[id] # None
    BY <1>2, PeerLives
  <2> QED
    BY <1>1, <1>2, <2>1, RefType DEF ObjectRefs, RefTo
<1>5. CASE LosesPeer(gone, id)
  <2>1. Closed(id)'
    <3>1. objects[id].payload \in Endpoints
      BY <1>1, <1>2, <1>5, LiveObject, PayloadOf DEF WellFormedEndpoint
    <3>2. objects'[id].payload.peerClosed = TRUE
      BY <1>1, <1>2, <1>5, <3>1 DEF Endpoints
    <3> QED
      BY <1>1, <1>2, <1>5, <3>2 DEF Closed, IsEndpoint
  <2>2. ~Live(r)'
    <3>1. PICK s : s = objects[gone].payload.peer /\ s # None /\ s.id = id /\ Live(s)
                   /\ objects[gone].kind = "ChannelEndpoint"
      BY <1>5 DEF LosesPeer, Valid
    <3>2. objects[gone] # None
      BY DEF Destroys
    <3>3. Peer(gone) = s
      BY <3>1, <3>2 DEF Peer, IsEndpoint
    <3>4. s \in ObjectRefs
      BY <3>1, <3>3, ViewTypes
    <3>5. Peer(id) = RefTo(gone)
      BY <3>1, <3>3, <3>4 DEF PeersLinked
    <3>6. r.id = gone
      BY <1>2, <3>5 DEF RefTo
    <3> QED
      BY <1>1, <3>6 DEF Live
  <2> QED
    BY <2>1, <2>2
<1>6. CASE ~LosesPeer(gone, id)
  <2>1. Closed(id)' <=> Closed(id)
    BY <1>1, <1>2, <1>6 DEF Closed, IsEndpoint
  <2>2. CASE r.id = gone
    <3>1. ~Live(r)'
      BY <1>1, <2>2 DEF Live
    <3>2. ASSUME Live(r)
          PROVE  FALSE
      <4>1. Peer(gone) = RefTo(id)
        BY <1>3, <2>2, <3>2
      <4>2. IsEndpoint(gone) /\ objects[gone].payload.peer = RefTo(id)
        BY <1>4, <4>1, PeerLives
      <4>3. IsEndpoint(id)
        BY <1>2, PeerLives
      <4>4. RefTo(id).id = id /\ RefTo(id) # None /\ Valid(RefTo(id), "ChannelEndpoint")
        BY <1>4, <4>3, NoneIsNoRef DEF RefTo, Valid, Live, IsEndpoint
      <4>5. LosesPeer(gone, id)
        BY <4>2, <4>4 DEF LosesPeer, IsEndpoint
      <4> QED
        BY <1>6, <4>5
    <3> QED
      BY <1>3, <2>1, <3>1, <3>2
  <2>3. CASE r.id # gone
    <3>1. objects'[r.id] # None <=> objects[r.id] # None
      BY <1>1, <1>4, <2>3
    <3>2. Live(r)' <=> Live(r)
      BY <1>1, <1>4, <2>3, <3>1 DEF Live
    <3>3. Peer(r.id)' = Peer(r.id)
      BY <1>1, <1>4, <2>3
    <3> QED
      BY <1>3, <1>4, <2>1, <3>2, <3>3
  <2> QED
    BY <2>2, <2>3
<1> QED
  BY <1>5, <1>6

LinksOK == ReferencesOK /\ PeersLinked

(* No end names another one yet.                                           *)
LEMMA InitLinks == Init => LinksOK
<1> SUFFICES ASSUME Init PROVE LinksOK
  OBVIOUS
<1>1. \A id \in ObjectIds : Peer(id) = None
  BY DEF Init, Peer, IsEndpoint
<1> QED
  BY <1>1, InitReferences, NoneIsNoRef DEF LinksOK, PeersLinked

(* No call leaves an end that does not know whether it is alone.           *)
LEMMA StepLinks == LinksOK /\ [Next]_vars => LinksOK'
<1> SUFFICES ASSUME LinksOK, [Next]_vars PROVE LinksOK'
  OBVIOUS
<1>1. KernelOK /\ StepOK /\ ReferencesOK'
  BY StepWellFormed, StepReferences DEF LinksOK, ReferencesOK
<1>2. PICK owner : SoundRefs(owner)
  BY DEF LinksOK, ReferencesOK
<1>3. PeersLinked
  BY DEF LinksOK
<1>4. ASSUME PeersStay, ClosedStay, GenerationsFree
      PROVE  PeersLinked'
  BY <1>1, <1>2, <1>3, <1>4, LinkedStays
<1>5. ASSUME AllAlike, GenerationsFree
      PROVE  PeersLinked'
  BY <1>4, <1>5, AlikeKeeps
<1>6. StepKinds
  BY <1>1, <1>2, ChildrenAgree, StepEffect
<1>7. PeersLinked'
  <2>1. CASE Still
    BY <1>5, <2>1 DEF Still
  <2>2. ASSUME NEW p \in ProcessIds, NEW N \in SUBSET ObjectIds, Creates(p, N)
        PROVE  PeersLinked'
    BY <1>1, <1>2, <1>3, <2>2, LinkedCreates
  <2>3. ASSUME NEW id \in ObjectIds, Destroys(id)
        PROVE  PeersLinked'
    BY <1>1, <1>2, <1>3, <2>3, LinkedDestroys
  <2>4. ASSUME NEW p, NEW source, NEW s, NEW rights, Duplicates(p, source, rights, s)
        PROVE  PeersLinked'
    BY <1>5, <2>4 DEF Duplicates
  <2>5. ASSUME NEW p, NEW S, NEW ref, Closes(p, S, ref)
        PROVE  PeersLinked'
    BY <1>5, <2>5 DEF Closes
  <2>6. ASSUME NEW p, NEW channel, NEW moved, NEW id, NEW m, Sends(p, channel, moved, id, m)
        PROVE  PeersLinked'
    BY <1>4, <2>6 DEF Sends
  <2>7. ASSUME NEW p, NEW channel, NEW id, NEW m, Receives(p, channel, id, m)
        PROVE  PeersLinked'
    BY <1>4, <2>7 DEF Receives
  <2> QED
    BY <1>6, <2>1, <2>2, <2>3, <2>4, <2>5, <2>6, <2>7 DEF StepKinds
<1> QED
  BY <1>1, <1>7 DEF LinksOK

(* The two ends of a pair name each other, and an end is told that it is   *)
(* alone exactly when destroy has taken the other one.                     *)
THEOREM EndsAgree == Spec => []PeersAgree
<1>1. LinksOK => PeersAgree
  <2> SUFFICES ASSUME LinksOK, NEW id \in OfKind("ChannelEndpoint"),
                      objects[id].payload.peer # None
               PROVE  LET endpoint == objects[id].payload
                      IN  /\ endpoint.peerClosed <=> ~Live(endpoint.peer)
                          /\ Live(endpoint.peer) =>
                               /\ objects[endpoint.peer.id].kind = "ChannelEndpoint"
                               /\ objects[endpoint.peer.id].payload.peer = RefTo(id)
    BY DEF PeersAgree
  <2> DEFINE r == objects[id].payload.peer
  <2>1. id \in ObjectIds /\ IsEndpoint(id) /\ KernelOK
    BY DEF OfKind, LiveIds, IsEndpoint, LinksOK, ReferencesOK
  <2>2. objects[id].payload \in Endpoints
    BY <2>1, LiveObject, PayloadOf DEF IsEndpoint, WellFormedEndpoint
  <2>3. r \in ObjectRefs /\ Peer(id) = r
    BY <2>1, <2>2 DEF Endpoints, Peer
  <2>4. (Closed(id) <=> ~Live(r)) /\ (Live(r) => Peer(r.id) = RefTo(id))
    BY <2>1, <2>3 DEF LinksOK, PeersLinked
  <2>5. objects[id].payload.peerClosed \in BOOLEAN
    BY <2>2 DEF Endpoints
  <2>6. objects[id].payload.peerClosed <=> ~Live(r)
    BY <2>1, <2>4, <2>5, Zenon DEF Closed
  <2>7. Live(r) => IsEndpoint(r.id) /\ objects[r.id].payload.peer = RefTo(id)
    <3>1. r.id \in ObjectIds /\ RefTo(id) \in ObjectRefs \cup {None}
      BY <2>1, <2>3, RefType DEF ObjectRefs, LiveIds, IsEndpoint
    <3> QED
      BY <2>1, <2>3, <2>4, <3>1, RefType, PeerLives DEF IsEndpoint
  <2> QED
    BY <2>6, <2>7 DEF IsEndpoint
<1> QED
  BY <1>1, InitLinks, StepLinks, PTL DEF Spec

-----------------------------------------------------------------------------
(* Handles are counted.                                                    *)

(* Where the handles that lead to an object are: HeldIn and CarriedIn, by  *)
(* what a slot and a queue show.                                           *)
Held(ref) ==
  {l \in ProcessIds \X Slots : At(l[1], l[2]) # None /\ At(l[1], l[2]).object = ref}

Carried(ref) ==
  {l \in ObjectIds \X MessageSlots \X (1 .. MaxMessageHandles) :
     /\ Queue(l[1], l[2]) # None
     /\ l[3] \in DOMAIN Queue(l[1], l[2])
     /\ Queue(l[1], l[2])[l[3]].object = ref}

Count(ref) == Cardinality(Held(ref)) + Cardinality(Carried(ref))

(* The same for any class of entries.                                      *)
HeldOf(C) == {l \in ProcessIds \X Slots : At(l[1], l[2]) # None /\ At(l[1], l[2]) \in C}

CarriedOf(C) ==
  {l \in ObjectIds \X MessageSlots \X (1 .. MaxMessageHandles) :
     /\ Queue(l[1], l[2]) # None
     /\ l[3] \in DOMAIN Queue(l[1], l[2])
     /\ Queue(l[1], l[2])[l[3]] \in C}

CountOf(C) == Cardinality(HeldOf(C)) + Cardinality(CarriedOf(C))

Naming(ref) == {e \in Entries : e.object = ref}

(* The handle count of every live object is right.                         *)
CountsRight ==
  \A id \in ObjectIds : objects[id] # None => objects[id].handleCount = Count(RefTo(id))

(* There are finitely many places for a handle.                            *)
LEMMA PlacesFinite ==
  /\ IsFiniteSet(ProcessIds \X Slots)
  /\ IsFiniteSet(ObjectIds \X MessageSlots \X (1 .. MaxMessageHandles))
<1>1. IsFiniteSet(ProcessIds) /\ IsFiniteSet(ObjectIds)
  BY FS_Interval, KernelAssumption, KernelNamesAssumption DEF ProcessIds, ObjectIds
<1>2. IsFiniteSet(MessageSlots) /\ IsFiniteSet(1 .. MaxMessageHandles)
  BY FS_Interval, ChannelAssumption DEF MessageSlots
<1>3. IsFiniteSet((ObjectIds \X MessageSlots) \X (1 .. MaxMessageHandles))
  BY <1>1, <1>2, FS_Product
<1> DEFINE f == [x \in (ObjectIds \X MessageSlots) \X (1 .. MaxMessageHandles) |->
                   <<x[1][1], x[1][2], x[2]>>]
<1>4. f \in Surjection((ObjectIds \X MessageSlots) \X (1 .. MaxMessageHandles),
                       ObjectIds \X MessageSlots \X (1 .. MaxMessageHandles))
  <2>1. ASSUME NEW l \in ObjectIds \X MessageSlots \X (1 .. MaxMessageHandles)
        PROVE  \E x \in (ObjectIds \X MessageSlots) \X (1 .. MaxMessageHandles) : f[x] = l
    <3>1. <<<<l[1], l[2]>>, l[3]>> \in (ObjectIds \X MessageSlots) \X (1 .. MaxMessageHandles)
      OBVIOUS
    <3>2. f[<<<<l[1], l[2]>>, l[3]>>] = l
      BY <3>1
    <3> QED
      BY <3>1, <3>2
  <2> QED
    BY <2>1 DEF Surjection
<1>5. IsFiniteSet(ObjectIds \X MessageSlots \X (1 .. MaxMessageHandles))
  <2> HIDE DEF f
  <2> QED
    BY <1>3, <1>4, FS_Surjection
<1> QED
  BY <1>1, <1>5, SlotsFinite, FS_Product

(* The places of a class of entries are finitely many.                     *)
LEMMA ClassFinite ==
  ASSUME NEW C
  PROVE  /\ IsFiniteSet(HeldOf(C)) /\ IsFiniteSet(CarriedOf(C))
         /\ Cardinality(HeldOf(C)) \in Nat /\ Cardinality(CarriedOf(C)) \in Nat
         /\ CountOf(C) \in Nat
<1>1. IsFiniteSet(HeldOf(C)) /\ IsFiniteSet(CarriedOf(C))
  <2>1. HeldOf(C) \in SUBSET (ProcessIds \X Slots)
    BY DEF HeldOf
  <2>2. CarriedOf(C) \in SUBSET (ObjectIds \X MessageSlots \X (1 .. MaxMessageHandles))
    BY DEF CarriedOf
  <2> QED
    BY <2>1, <2>2, PlacesFinite, FS_Subset
<1>2. Cardinality(HeldOf(C)) \in Nat /\ Cardinality(CarriedOf(C)) \in Nat
  BY <1>1, FS_CardinalityType
<1> QED
  BY <1>1, <1>2 DEF CountOf

(* What leads to an object is the class of the entries that name it.       *)
ClassesCount ==
  \A ref : /\ Held(ref) = HeldOf(Naming(ref)) /\ Carried(ref) = CarriedOf(Naming(ref))
           /\ Count(ref) = CountOf(Naming(ref))

(* Entries have their types, so nothing is left out.                       *)
LEMMA CountIs == KernelOK => ClassesCount
<1> SUFFICES ASSUME KernelOK, NEW ref
             PROVE  /\ Held(ref) = HeldOf(Naming(ref)) /\ Carried(ref) = CarriedOf(Naming(ref))
                    /\ Count(ref) = CountOf(Naming(ref))
  BY DEF ClassesCount
<1>1. Held(ref) = HeldOf(Naming(ref))
  <2>1. \A q \in ProcessIds, i \in Slots : At(q, i) # None => At(q, i) \in Entries
    BY ViewTypes
  <2> QED
    BY <2>1 DEF Held, HeldOf, Naming
<1>2. Carried(ref) = CarriedOf(Naming(ref))
  <2>1. ASSUME NEW id \in ObjectIds, NEW m \in MessageSlots, Queue(id, m) # None,
               NEW k \in DOMAIN Queue(id, m)
        PROVE  Queue(id, m)[k] \in Entries
    <3>1. Queue(id, m) \in Messages
      BY <2>1, ViewTypes
    <3> QED
      BY <2>1, <3>1, MessageEntries
  <2> QED
    BY <2>1 DEF Carried, CarriedOf, Naming
<1> QED
  BY <1>1, <1>2 DEF Count, CountOf

(* So the places of one reference are finitely many.                       *)
LEMMA CountFinite ==
  ASSUME NEW ref
  PROVE  /\ IsFiniteSet(Held(ref)) /\ IsFiniteSet(Carried(ref))
         /\ Cardinality(Held(ref)) \in Nat /\ Cardinality(Carried(ref)) \in Nat
         /\ Count(ref) \in Nat
<1>1. IsFiniteSet(Held(ref)) /\ IsFiniteSet(Carried(ref))
  <2>1. Held(ref) \in SUBSET (ProcessIds \X Slots)
    BY DEF Held
  <2>2. Carried(ref) \in SUBSET (ObjectIds \X MessageSlots \X (1 .. MaxMessageHandles))
    BY DEF Carried
  <2> QED
    BY <2>1, <2>2, PlacesFinite, FS_Subset
<1>2. Cardinality(Held(ref)) \in Nat /\ Cardinality(Carried(ref)) \in Nat
  BY <1>1, FS_CardinalityType
<1> QED
  BY <1>1, <1>2 DEF Count

(* A move between two sets of places changes no count.                     *)
LEMMA MovedCount ==
  ASSUME NEW A, IsFiniteSet(A), NEW B, IsFiniteSet(B),
         NEW Out \in SUBSET A, NEW In, IsFiniteSet(In), In \cap B = {},
         Cardinality(Out) = Cardinality(In)
  PROVE  Cardinality(A \ Out) + Cardinality(B \cup In) = Cardinality(A) + Cardinality(B)
<1>1. IsFiniteSet(Out) /\ A \cap Out = Out /\ B \cap In = {}
  BY FS_Subset
<1>2. /\ Cardinality(A) \in Nat /\ Cardinality(B) \in Nat
      /\ Cardinality(In) \in Nat /\ Cardinality(Out) \in Nat
  BY <1>1, FS_CardinalityType
<1>3. Cardinality(A \ Out) = Cardinality(A) - Cardinality(Out)
  <2>1. Cardinality(A \ Out) = Cardinality(A) - Cardinality(A \cap Out)
    BY FS_Difference
  <2> QED
    BY <1>1, <2>1, Zenon
<1>4. Cardinality(B \cup In) = Cardinality(B) + Cardinality(In)
  <2>1. Cardinality(B \cup In) = Cardinality(B) + Cardinality(In) - Cardinality(B \cap In)
    BY FS_Union
  <2>2. Cardinality(B \cap In) = 0
    BY <1>1, FS_EmptySet
  <2> QED
    BY <1>2, <2>1, <2>2
<1> QED
  BY <1>2, <1>3, <1>4

(* Nothing moves.                                                          *)
LEMMA CountStays ==
  ASSUME SlotsStay, QueuesStay, NEW ref
  PROVE  Count(ref)' = Count(ref)
<1>1. Held(ref)' = Held(ref)
  BY DEF Held, SlotsStay
<1>2. Carried(ref)' = Carried(ref)
  BY DEF Carried, QueuesStay
<1> QED
  BY <1>1, <1>2 DEF Count

(* That goes for every class.                                              *)
LEMMA ClassStays ==
  ASSUME SlotsStay, QueuesStay, NEW C
  PROVE  CountOf(C)' = CountOf(C)
<1>1. HeldOf(C)' = HeldOf(C)
  BY DEF HeldOf, SlotsStay
<1>2. CarriedOf(C)' = CarriedOf(C)
  BY DEF CarriedOf, QueuesStay
<1> QED
  BY <1>1, <1>2 DEF CountOf

(* A duplicate is one more handle to the object of its source.             *)
LEMMA ClassDuplicates ==
  ASSUME KernelOK, NEW p \in ProcessIds, NEW source \in Slots, NEW rights, NEW s \in Slots,
         Running(p), Duplicates(p, source, rights, s), NEW C
  PROVE  CountOf(C)' = CountOf(C) + (IF DerivedEntry(Handles(p), source, rights) \in C THEN 1 ELSE 0)
<1> DEFINE d == DerivedEntry(Handles(p), source, rights)
<1>1. /\ AllAlike /\ At(p, s) = None /\ d \in Entries
      /\ \A q \in ProcessIds, i \in Slots :
           At(q, i)' = IF q = p /\ i = s THEN d ELSE At(q, i)
  BY DEF Duplicates
<1> HIDE DEF d
<1>2. d # None
  BY <1>1, EntryParts
<1>3. CarriedOf(C)' = CarriedOf(C)
  BY <1>1, AlikeKeeps DEF CarriedOf, QueuesStay
<1>4. /\ IsFiniteSet(HeldOf(C))
      /\ Cardinality(HeldOf(C)) \in Nat /\ Cardinality(CarriedOf(C)) \in Nat
  BY ClassFinite
<1>5. CASE d \in C
  <2>1. HeldOf(C)' = HeldOf(C) \cup {<<p, s>>}
    BY <1>1, <1>2, <1>5 DEF HeldOf
  <2>2. <<p, s>> \notin HeldOf(C)
    BY <1>1 DEF HeldOf
  <2>3. Cardinality(HeldOf(C)') = Cardinality(HeldOf(C)) + 1
    BY <1>4, <2>1, <2>2, FS_AddElement
  <2> QED
    BY <1>3, <1>4, <1>5, <2>3 DEF CountOf, d
<1>6. CASE d \notin C
  <2>1. HeldOf(C)' = HeldOf(C)
    BY <1>1, <1>2, <1>6 DEF HeldOf
  <2> QED
    BY <1>3, <1>4, <1>6, <2>1 DEF CountOf, d
<1> QED
  BY <1>5, <1>6

(* The same, by objects.                                                   *)
LEMMA CountDuplicates ==
  ASSUME KernelOK, KernelOK', NEW p \in ProcessIds, NEW source \in Slots, NEW rights, NEW s \in Slots,
         Running(p), Duplicates(p, source, rights, s), NEW ref
  PROVE  Count(ref)' = Count(ref) + (IF ref = At(p, source).object THEN 1 ELSE 0)
<1> DEFINE d == DerivedEntry(Handles(p), source, rights)
<1>1. d \in Entries /\ d.object = At(p, source).object
  <2>1. Handles(p).entry[source] \in Entries /\ At(p, source) = Handles(p).entry[source]
    BY NameableEntry DEF At, Duplicates
  <2> QED
    BY <2>1 DEF DerivedEntry, Entries, Duplicates
<1>2. d \in Naming(ref) <=> ref = At(p, source).object
  BY <1>1 DEF Naming
<1>3. CountOf(Naming(ref))' = CountOf(Naming(ref)) + (IF d \in Naming(ref) THEN 1 ELSE 0)
  BY ClassDuplicates
<1>4. Count(ref)' = CountOf(Naming(ref))' /\ Count(ref) = CountOf(Naming(ref))
  <2>1. ClassesCount /\ ClassesCount'
    BY CountIs, PTL
  <2> QED
    BY <2>1 DEF ClassesCount
<1> QED
  BY <1>2, <1>3, <1>4

(* Close and revoke take as many handles as they empty slots.              *)
LEMMA ClassCloses ==
  ASSUME KernelOK, NEW p \in ProcessIds, NEW S \in SUBSET Slots, NEW closed,
         Closes(p, S, closed), NEW C
  PROVE  /\ Cardinality({i \in S : At(p, i) \in C}) \in Nat
         /\ CountOf(C)' = CountOf(C) - Cardinality({i \in S : At(p, i) \in C})
<1>1. /\ AllAlike
      /\ \A i \in S : At(p, i) # None
      /\ \A q \in ProcessIds, i \in Slots :
           At(q, i)' = IF q = p /\ i \in S THEN None ELSE At(q, i)
  BY DEF Closes
<1>2. CarriedOf(C)' = CarriedOf(C)
  BY <1>1, AlikeKeeps DEF CarriedOf, QueuesStay
<1>3. /\ IsFiniteSet(HeldOf(C))
      /\ Cardinality(HeldOf(C)) \in Nat /\ Cardinality(CarriedOf(C)) \in Nat
  BY ClassFinite
<1> DEFINE T == {i \in S : At(p, i) \in C}
           Out == {p} \X T
<1>4. IsFiniteSet(T) /\ Cardinality(T) \in Nat
  <2>1. T \in SUBSET Slots
    OBVIOUS
  <2> HIDE DEF T
  <2> QED
    BY <2>1, SlotsFinite, FS_Subset, FS_CardinalityType
<1>5. HeldOf(C)' = HeldOf(C) \ Out /\ Out \in SUBSET HeldOf(C)
  BY <1>1 DEF HeldOf
<1> HIDE DEF T
<1>6. Cardinality(Out) = Cardinality(T)
  <2>1. IsFiniteSet({p}) /\ Cardinality({p}) = 1
    BY FS_Singleton
  <2>2. Cardinality(Out) = Cardinality({p}) * Cardinality(T)
    BY <1>4, <2>1, FS_Product
  <2> QED
    BY <1>4, <2>1, <2>2
<1>7. HeldOf(C) \cap Out = Out
  BY <1>5
<1> HIDE DEF Out
<1>8. Cardinality(HeldOf(C)') = Cardinality(HeldOf(C)) - Cardinality(T)
  <2>1. Cardinality(HeldOf(C) \ Out) = Cardinality(HeldOf(C)) - Cardinality(HeldOf(C) \cap Out)
    BY <1>3, FS_Difference
  <2>2. Cardinality(HeldOf(C) \ Out) = Cardinality(HeldOf(C)) - Cardinality(T)
    BY <1>6, <1>7, <2>1, Zenon
  <2> QED
    BY <1>5, <2>2
<1> QED
  BY <1>2, <1>3, <1>4, <1>8 DEF CountOf, T

(* The same, by objects: all that is closed names one.                     *)
LEMMA CountCloses ==
  ASSUME KernelOK, KernelOK', NEW p \in ProcessIds, NEW S \in SUBSET Slots, NEW closed,
         Closes(p, S, closed), NEW ref
  PROVE  /\ Cardinality(S) \in Nat
         /\ Count(ref)' = Count(ref) - (IF ref = closed THEN Cardinality(S) ELSE 0)
<1> DEFINE T == {i \in S : At(p, i) \in Naming(ref)}
<1>1. T = IF ref = closed THEN S ELSE {}
  <2>1. \A i \in S : At(p, i) \in Entries /\ At(p, i).object = closed
    BY ViewTypes DEF Closes
  <2> QED
    BY <2>1 DEF Naming
<1>2. Cardinality(S) \in Nat
  BY SlotsFinite, FS_Subset, FS_CardinalityType
<1>3. Cardinality(T) = IF ref = closed THEN Cardinality(S) ELSE 0
  BY <1>1, FS_EmptySet
<1>4. CountOf(Naming(ref))' = CountOf(Naming(ref)) - Cardinality(T)
  BY ClassCloses
<1>5. Count(ref)' = CountOf(Naming(ref))' /\ Count(ref) = CountOf(Naming(ref))
  <2>1. ClassesCount /\ ClassesCount'
    BY CountIs, PTL
  <2> QED
    BY <2>1 DEF ClassesCount
<1> HIDE DEF T
<1> QED
  BY <1>2, <1>3, <1>4, <1>5

(* Numbering a set by some of the numbers counts it.                       *)
LEMMA NumberedSet ==
  ASSUME NEW n \in Nat, NEW K \in SUBSET (1 .. n), NEW T, NEW f \in Bijection(K, T)
  PROVE  IsFiniteSet(T) /\ Cardinality(T) = Cardinality(K)
<1>1. IsFiniteSet(K)
  BY SlotsCount
<1>2. ExistsBijection(K, T)
  BY DEF ExistsBijection
<1> QED
  BY <1>1, <1>2, FS_Bijection

(* A send moves the handles it was given, each to the place of its number. *)
LEMMA ClassSends ==
  ASSUME KernelOK, NEW p \in ProcessIds, NEW channel, NEW moved \in HandleLists,
         NEW id \in ObjectIds, NEW m \in MessageSlots,
         Sends(p, channel, moved, id, m), NEW C
  PROVE  CountOf(C)' = CountOf(C)
<1> DEFINE message == [k \in DOMAIN moved |-> At(p, moved[k])]
<1>1. PICK n \in 0 .. MaxMessageHandles :
        /\ moved \in [1 .. n -> Slots]
        /\ \A j, k \in 1 .. n : moved[j] = moved[k] => j = k
  BY DEF HandleLists
<1>2. n \in Nat /\ DOMAIN moved = 1 .. n /\ \A k \in 1 .. n : k \in 1 .. MaxMessageHandles
  BY <1>1, ChannelAssumption
<1>3. /\ Queue(id, m) = None
      /\ \A k \in 1 .. n : At(p, moved[k]) \in Entries /\ At(p, moved[k]) # None
      /\ message \in Messages
      /\ \A o \in ObjectIds, l \in MessageSlots :
           Queue(o, l)' = IF o = id /\ l = m THEN message ELSE Queue(o, l)
      /\ \A q \in ProcessIds, i \in Slots :
           At(q, i)' = IF q = p /\ \E k \in 1 .. n : moved[k] = i THEN None ELSE At(q, i)
  BY <1>2, EntryParts DEF Sends
<1>4. message # None /\ DOMAIN message = 1 .. n /\ \A k \in 1 .. n : message[k] = At(p, moved[k])
  BY <1>2, <1>3, NoneIsNoMessage
<1> HIDE DEF message
<1> DEFINE K == {k \in 1 .. n : At(p, moved[k]) \in C}
           Out == {<<p, moved[k]>> : k \in K}
           In == {<<id, m, k>> : k \in K}
<1>5. HeldOf(C)' = HeldOf(C) \ Out
  <2>1. ASSUME NEW l \in ProcessIds \X Slots
        PROVE  l \in HeldOf(C)' <=> l \in HeldOf(C) /\ l \notin Out
    <3>1. PICK q \in ProcessIds, i \in Slots : l = <<q, i>>
      OBVIOUS
    <3>2. l \in Out <=> q = p /\ \E k \in 1 .. n : moved[k] = i /\ At(p, i) \in C
      BY <3>1
    <3>3. l \in HeldOf(C) <=> At(q, i) # None /\ At(q, i) \in C
      BY <3>1 DEF HeldOf
    <3>4. l \in HeldOf(C)' <=> At(q, i)' # None /\ At(q, i)' \in C
      BY <3>1 DEF HeldOf
    <3> QED
      BY <1>3, <3>2, <3>3, <3>4
  <2>2. HeldOf(C) \subseteq ProcessIds \X Slots /\ HeldOf(C)' \subseteq ProcessIds \X Slots
    BY DEF HeldOf
  <2> HIDE DEF Out
  <2> QED
    BY <2>1, <2>2
<1>6. CarriedOf(C)' = CarriedOf(C) \cup In /\ In \cap CarriedOf(C) = {}
  <2>1. ASSUME NEW l \in ObjectIds \X MessageSlots \X (1 .. MaxMessageHandles)
        PROVE  /\ l \in CarriedOf(C)' <=> l \in CarriedOf(C) \/ l \in In
               /\ l \in In => l \notin CarriedOf(C)
    <3>1. PICK o \in ObjectIds, s \in MessageSlots, k \in 1 .. MaxMessageHandles :
            l = <<o, s, k>>
      OBVIOUS
    <3>2. l \in In <=> o = id /\ s = m /\ k \in 1 .. n /\ At(p, moved[k]) \in C
      BY <3>1
    <3>3. l \in CarriedOf(C) <=>
            Queue(o, s) # None /\ k \in DOMAIN Queue(o, s) /\ Queue(o, s)[k] \in C
      BY <3>1 DEF CarriedOf
    <3>4. l \in CarriedOf(C)' <=>
            Queue(o, s)' # None /\ k \in DOMAIN Queue(o, s)' /\ Queue(o, s)'[k] \in C
      BY <3>1 DEF CarriedOf
    <3> QED
      BY <1>3, <1>4, <3>2, <3>3, <3>4
  <2>2. /\ CarriedOf(C) \subseteq ObjectIds \X MessageSlots \X (1 .. MaxMessageHandles)
        /\ CarriedOf(C)' \subseteq ObjectIds \X MessageSlots \X (1 .. MaxMessageHandles)
        /\ In \subseteq ObjectIds \X MessageSlots \X (1 .. MaxMessageHandles)
    BY <1>2 DEF CarriedOf
  <2> HIDE DEF In
  <2> QED
    BY <2>1, <2>2
<1>7. Out \in SUBSET HeldOf(C)
  BY <1>1, <1>3 DEF HeldOf
<1>8. Cardinality(Out) = Cardinality(K) /\ IsFiniteSet(In) /\ Cardinality(In) = Cardinality(K)
  <2> DEFINE f == [k \in K |-> <<p, moved[k]>>]
             g == [k \in K |-> <<id, m, k>>]
  <2>1. f \in Bijection(K, Out)
    <3>1. f \in [K -> Out] /\ \A y \in Out : \E k \in K : f[k] = y
      OBVIOUS
    <3>2. \A j, k \in K : f[j] = f[k] => j = k
      BY <1>1
    <3> HIDE DEF f, K, Out
    <3> QED
      BY <3>1, <3>2 DEF Bijection, Injection, Surjection, IsInjective
  <2>2. g \in Bijection(K, In)
    <3>1. g \in [K -> In] /\ \A y \in In : \E k \in K : g[k] = y
      OBVIOUS
    <3>2. \A j, k \in K : g[j] = g[k] => j = k
      OBVIOUS
    <3> HIDE DEF g, K, In
    <3> QED
      BY <3>1, <3>2 DEF Bijection, Injection, Surjection, IsInjective
  <2>3. K \in SUBSET (1 .. n)
    OBVIOUS
  <2> HIDE DEF K, Out, In, f, g
  <2> QED
    BY <1>2, <2>1, <2>2, <2>3, NumberedSet
<1> HIDE DEF Out, In
<1>9. Cardinality(HeldOf(C)') + Cardinality(CarriedOf(C)') =
        Cardinality(HeldOf(C)) + Cardinality(CarriedOf(C))
  <2>1. Cardinality(HeldOf(C) \ Out) + Cardinality(CarriedOf(C) \cup In) =
          Cardinality(HeldOf(C)) + Cardinality(CarriedOf(C))
    BY <1>6, <1>7, <1>8, ClassFinite, MovedCount
  <2> QED
    BY <1>5, <1>6, <2>1, Zenon
<1> QED
  BY <1>9 DEF CountOf

(* A receive moves the handles of the message to as many free slots.       *)
LEMMA ClassReceives ==
  ASSUME KernelOK, NEW p \in ProcessIds, Running(p), NEW channel,
         NEW id \in ObjectIds, NEW m \in MessageSlots,
         Receives(p, channel, id, m), NEW C
  PROVE  CountOf(C)' = CountOf(C)
<1> DEFINE message == Queue(id, m)
           F == FreeSlots(Handles(p))
           n == Len(message)
<1>1. /\ message # None /\ n <= Cardinality(F)
      /\ \A o \in ObjectIds, l \in MessageSlots :
           Queue(o, l)' = IF o = id /\ l = m THEN None ELSE Queue(o, l)
      /\ \A q \in ProcessIds, i \in Slots :
           At(q, i)' = IF q = p /\ i \in F /\ FreeRank(Handles(p), i) \in DOMAIN message
                       THEN message[FreeRank(Handles(p), i)] ELSE At(q, i)
  BY DEF Receives
<1>2. /\ n \in Nat /\ n <= MaxMessageHandles /\ DOMAIN message = 1 .. n
      /\ \A k \in 1 .. n : message[k] \in Entries /\ message[k] # None
  <2>1. message \in Messages
    BY <1>1, ViewTypes
  <2> HIDE DEF message
  <2> QED
    BY <2>1, MessageEntries, EntryParts
<1>3. F \subseteq Slots /\ \A i \in F : At(p, i) = None
  BY DEF FreeSlots, Occupied, At
<1> DEFINE rank == [i \in F |-> FreeRank(Handles(p), i)]
<1>4. rank \in Bijection(F, 1 .. Cardinality(F)) /\ Cardinality(F) \in Nat
  BY RunningProcess, FreeRanks
<1>5. /\ \A i, j \in F : rank[i] = rank[j] => i = j
      /\ \A k \in 1 .. n : \E i \in F : rank[i] = k
  <2>1. \A k \in 1 .. n : k \in 1 .. Cardinality(F)
    BY <1>1, <1>2, <1>4
  <2> HIDE DEF rank, F, n
  <2> QED
    BY <1>4, <2>1 DEF Bijection, Injection, Surjection, IsInjective
<1>6. \A i \in F : rank[i] = FreeRank(Handles(p), i)
  OBVIOUS
<1> HIDE DEF message, F, n, rank
<1> DEFINE K == {k \in 1 .. n : message[k] \in C}
           Out == {<<id, m, k>> : k \in K}
           In == {l \in {p} \X F : rank[l[2]] \in K}
<1>7. HeldOf(C)' = HeldOf(C) \cup In /\ In \cap HeldOf(C) = {}
  <2>1. ASSUME NEW l \in ProcessIds \X Slots
        PROVE  /\ l \in HeldOf(C)' <=> l \in HeldOf(C) \/ l \in In
               /\ l \in In => l \notin HeldOf(C)
    <3>1. PICK q \in ProcessIds, i \in Slots : l = <<q, i>>
      OBVIOUS
    <3>2. l \in In <=> q = p /\ i \in F /\ rank[i] \in 1 .. n /\ message[rank[i]] \in C
      BY <3>1
    <3>3. l \in HeldOf(C) <=> At(q, i) # None /\ At(q, i) \in C
      BY <3>1 DEF HeldOf
    <3>4. l \in HeldOf(C)' <=> At(q, i)' # None /\ At(q, i)' \in C
      BY <3>1 DEF HeldOf
    <3> QED
      BY <1>1, <1>2, <1>3, <1>6, <3>2, <3>3, <3>4
  <2>2. /\ HeldOf(C) \subseteq ProcessIds \X Slots /\ HeldOf(C)' \subseteq ProcessIds \X Slots
        /\ In \subseteq ProcessIds \X Slots
    BY <1>3 DEF HeldOf
  <2> HIDE DEF In
  <2> QED
    BY <2>1, <2>2
<1>8. CarriedOf(C)' = CarriedOf(C) \ Out
  <2>1. ASSUME NEW l \in ObjectIds \X MessageSlots \X (1 .. MaxMessageHandles)
        PROVE  l \in CarriedOf(C)' <=> l \in CarriedOf(C) /\ l \notin Out
    <3>1. PICK o \in ObjectIds, s \in MessageSlots, k \in 1 .. MaxMessageHandles :
            l = <<o, s, k>>
      OBVIOUS
    <3>2. l \in Out <=> o = id /\ s = m /\ k \in 1 .. n /\ message[k] \in C
      BY <3>1
    <3>3. l \in CarriedOf(C) <=>
            Queue(o, s) # None /\ k \in DOMAIN Queue(o, s) /\ Queue(o, s)[k] \in C
      BY <3>1 DEF CarriedOf
    <3>4. l \in CarriedOf(C)' <=>
            Queue(o, s)' # None /\ k \in DOMAIN Queue(o, s)' /\ Queue(o, s)'[k] \in C
      BY <3>1 DEF CarriedOf
    <3> QED
      BY <1>1, <1>2, <3>2, <3>3, <3>4 DEF message
  <2>2. /\ CarriedOf(C) \subseteq ObjectIds \X MessageSlots \X (1 .. MaxMessageHandles)
        /\ CarriedOf(C)' \subseteq ObjectIds \X MessageSlots \X (1 .. MaxMessageHandles)
    BY DEF CarriedOf
  <2> HIDE DEF Out
  <2> QED
    BY <2>1, <2>2
<1>9. Out \in SUBSET CarriedOf(C)
  <2>1. \A k \in 1 .. n : k \in 1 .. MaxMessageHandles
    BY <1>2, ChannelAssumption
  <2> QED
    BY <1>1, <1>2, <2>1 DEF CarriedOf, message
<1>10. Cardinality(Out) = Cardinality(K) /\ IsFiniteSet(In) /\ Cardinality(In) = Cardinality(K)
  <2>1. \A k \in K : \E i \in F : rank[i] = k
    BY <1>5
  <2> DEFINE f == [k \in K |-> <<id, m, k>>]
             g == [k \in K |-> <<p, CHOOSE i \in F : rank[i] = k>>]
  <2>2. f \in Bijection(K, Out)
    <3>1. f \in [K -> Out] /\ \A y \in Out : \E k \in K : f[k] = y
      OBVIOUS
    <3>2. \A j, k \in K : f[j] = f[k] => j = k
      OBVIOUS
    <3> HIDE DEF f, K, Out
    <3> QED
      BY <3>1, <3>2 DEF Bijection, Injection, Surjection, IsInjective
  <2>3. g \in Bijection(K, In)
    <3>1. ASSUME NEW k \in K
          PROVE  \E i \in F : rank[i] = k /\ g[k] = <<p, i>>
      BY <2>1
    <3>2. ASSUME NEW l \in In
          PROVE  \E k \in K : g[k] = l
      <4>1. PICK i \in F : l = <<p, i>> /\ rank[i] \in K
        OBVIOUS
      <4>2. PICK j \in F : rank[j] = rank[i] /\ g[rank[i]] = <<p, j>>
        BY <3>1, <4>1
      <4>3. i = j
        BY <1>5, <4>2
      <4> QED
        BY <4>1, <4>2, <4>3
    <3> HIDE DEF g, K
    <3>3. \A j, k \in K : g[j] = g[k] => j = k
      BY <3>1
    <3>4. \A k \in K : g[k] \in In
      BY <3>1
    <3>5. g = [k \in K |-> g[k]]
      BY DEF g
    <3> HIDE DEF In
    <3>6. g \in [K -> In]
      BY <3>4, <3>5
    <3> QED
      BY <3>2, <3>3, <3>6 DEF Bijection, Injection, Surjection, IsInjective
  <2>4. K \in SUBSET (1 .. n)
    OBVIOUS
  <2> HIDE DEF K, Out, In, f, g
  <2> QED
    BY <1>2, <2>2, <2>3, <2>4, NumberedSet
<1> HIDE DEF Out, In
<1>11. Cardinality(CarriedOf(C)') + Cardinality(HeldOf(C)') =
         Cardinality(CarriedOf(C)) + Cardinality(HeldOf(C))
  <2>1. Cardinality(CarriedOf(C) \ Out) + Cardinality(HeldOf(C) \cup In) =
          Cardinality(CarriedOf(C)) + Cardinality(HeldOf(C))
    BY <1>7, <1>9, <1>10, ClassFinite, MovedCount
  <2> QED
    BY <1>7, <1>8, <2>1, Zenon
<1>12. /\ Cardinality(HeldOf(C)) \in Nat /\ Cardinality(CarriedOf(C)) \in Nat
  BY ClassFinite
<1>13. Cardinality(HeldOf(C)') \in Nat /\ Cardinality(CarriedOf(C)') \in Nat
  <2>1. IsFiniteSet(HeldOf(C)') /\ IsFiniteSet(CarriedOf(C)')
    BY <1>7, <1>8, <1>10, ClassFinite, FS_Union, FS_Difference
  <2> QED
    BY <2>1, FS_CardinalityType
<1> QED
  BY <1>11, <1>12, <1>13 DEF CountOf

(* So no transfer changes the number of handles to an object.              *)
LEMMA CountTransfers ==
  ASSUME KernelOK, KernelOK', NEW p \in ProcessIds, NEW channel,
         NEW id \in ObjectIds, NEW m \in MessageSlots,
         \/ \E moved \in HandleLists : Sends(p, channel, moved, id, m)
         \/ Running(p) /\ Receives(p, channel, id, m),
         NEW ref
  PROVE  Count(ref)' = Count(ref)
<1>1. CountOf(Naming(ref))' = CountOf(Naming(ref))
  BY ClassSends, ClassReceives
<1>2. Count(ref)' = CountOf(Naming(ref))' /\ Count(ref) = CountOf(Naming(ref))
  <2>1. ClassesCount /\ ClassesCount'
    BY CountIs, PTL
  <2> QED
    BY <2>1 DEF ClassesCount
<1> QED
  BY <1>1, <1>2

(* A create call gives nobody a handle to anything but what it makes.      *)
LEMMA CountUncreated ==
  ASSUME NEW p \in ProcessIds, NEW N \in SUBSET ObjectIds, Creates(p, N),
         NEW ref, \A id \in N : RefTo(id) # ref
  PROVE  Count(ref)' = Count(ref)
<1>1. \A q \in ProcessIds, i \in Slots :
        \/ At(q, i)' = At(q, i)
        \/ /\ At(q, i) = None /\ At(q, i)' # None
           /\ \E o \in N : At(q, i)'.object = RefTo(o)
  BY EntryParts DEF Creates
<1>2. Held(ref)' = Held(ref)
  BY <1>1 DEF Held
<1>3. Carried(ref)' = Carried(ref)
  BY DEF Carried, QueuesStay, Creates
<1> QED
  BY <1>2, <1>3 DEF Count

(* That goes for every class.                                              *)
LEMMA ClassUncreated ==
  ASSUME NEW p \in ProcessIds, NEW N \in SUBSET ObjectIds, Creates(p, N),
         NEW C, \A id \in N, e \in C : e.object # RefTo(id)
  PROVE  CountOf(C)' = CountOf(C)
<1>1. \A q \in ProcessIds, i \in Slots :
        \/ At(q, i)' = At(q, i)
        \/ /\ At(q, i) = None /\ At(q, i)' # None
           /\ \E o \in N : At(q, i)'.object = RefTo(o)
  BY EntryParts DEF Creates
<1>2. HeldOf(C)' = HeldOf(C)
  BY <1>1 DEF HeldOf
<1>3. CarriedOf(C)' = CarriedOf(C)
  BY DEF CarriedOf, QueuesStay, Creates
<1> QED
  BY <1>2, <1>3 DEF CountOf

(* What is to be created is named by nothing yet, and afterwards by the    *)
(* one handle the call returns.                                            *)
LEMMA CreatedPlace ==
  ASSUME KernelOK, NEW owner, SoundRefs(owner),
         NEW p \in ProcessIds, NEW N \in SUBSET ObjectIds, Creates(p, N),
         NEW id \in N, NEW ref, ref = RefTo(id)
  PROVE  /\ Held(ref) = {} /\ Carried(ref) = {} /\ Carried(ref)' = {}
         /\ \E i \in Slots : Held(ref)' = {<<p, i>>} /\ At(p, i)' # At(p, i)
<1>1. /\ QueuesStay
      /\ \A o \in N : objects[o] = None
      /\ \A q \in ProcessIds, i \in Slots :
           \/ At(q, i)' = At(q, i)
           \/ /\ q = p /\ At(q, i) = None /\ At(q, i)' # None
              /\ \E o \in N : At(q, i)'.object = RefTo(o)
  BY EntryParts DEF Creates
<1>2. Carried(ref)' = Carried(ref)
  BY <1>1 DEF Carried, QueuesStay
<1>3. ~RefBehind(ref)
  <2>1. ref.id = id /\ ref.generation = generations[id] /\ objects[id] = None
    BY <1>1 DEF RefTo
  <2>2. generations[id] \in Nat
    BY KernelNamesAssumption DEF KernelOK
  <2> QED
    BY <2>1, <2>2 DEF RefBehind
<1>4. \A q \in ProcessIds, e \in Entries : Belongs(owner, q, e) => e.object # ref
  BY <1>3 DEF SoundRefs, Sound
<1>5. ASSUME NEW q \in ProcessIds, NEW i \in Slots, At(q, i) # None
      PROVE  At(q, i).object # ref
  <2>1. At(q, i) \in Entries
    BY <1>5, ViewTypes
  <2> QED
    BY <1>4, <2>1 DEF Belongs
<1>6. ASSUME NEW o \in ObjectIds, NEW m \in MessageSlots, Queue(o, m) # None,
             NEW k \in DOMAIN Queue(o, m)
      PROVE  Queue(o, m)[k].object # ref
  <2>1. Queue(o, m)[k] \in Entries /\ InQueue(o, Queue(o, m)[k])
    <3>1. Queue(o, m) \in Messages
      BY <1>6, ViewTypes
    <3> QED
      BY <1>6, <3>1, MessageEntries DEF InQueue
  <2>2. objects[o] # None
    BY <1>6 DEF Queue, IsEndpoint
  <2>3. owner[RefTo(o)] \in ProcessIds
    BY <2>2 DEF SoundRefs
  <2> QED
    BY <1>4, <2>1, <2>3 DEF Belongs
<1>7. Held(ref) = {} /\ Carried(ref) = {}
  BY <1>5, <1>6 DEF Held, Carried
<1>8. PICK i \in Slots : \A j \in Slots :
        At(p, j)' # At(p, j) /\ At(p, j)'.object = ref <=> j = i
  BY DEF Creates
<1>9. Held(ref)' = {<<p, i>>}
  <2>1. ASSUME NEW q \in ProcessIds, NEW j \in Slots
        PROVE  At(q, j)' # None /\ At(q, j)'.object = ref <=> q = p /\ j = i
    <3>1. CASE At(q, j)' = At(q, j)
      BY <1>5, <1>8, <3>1
    <3>2. CASE At(q, j)' # At(q, j)
      BY <1>1, <1>8, <3>2
    <3> QED
      BY <3>1, <3>2
  <2> QED
    BY <2>1 DEF Held
<1> QED
  BY <1>2, <1>7, <1>8, <1>9

(* A new object has one handle; the others have those they had.            *)
LEMMA CountCreates ==
  ASSUME KernelOK, NEW owner, SoundRefs(owner),
         NEW p \in ProcessIds, NEW N \in SUBSET ObjectIds, Creates(p, N),
         NEW id \in ObjectIds, NEW ref, ref = RefTo(id)
  PROVE  Count(ref)' = IF id \in N THEN 1 ELSE Count(ref)
<1>1. CASE id \notin N
  <2>1. \A o \in N : RefTo(o) # ref
    BY <1>1 DEF RefTo
  <2> QED
    BY <1>1, <2>1, CountUncreated
<1>2. CASE id \in N
  <2>1. Carried(ref)' = {} /\ \E i \in Slots : Held(ref)' = {<<p, i>>}
    BY <1>2, CreatedPlace
  <2>2. Cardinality(Held(ref)') = 1 /\ Cardinality(Carried(ref)') = 0
    BY <2>1, FS_Singleton, FS_EmptySet
  <2> QED
    BY <1>2, <2>2 DEF Count
<1> QED
  BY <1>1, <1>2

(* Every kind of step keeps the handle counts right.                       *)
LEMMA StepCounts ==
  ASSUME KernelOK, KernelOK', NEW owner, SoundRefs(owner), CountsRight, StepKinds
  PROVE  CountsRight'
<1> SUFFICES ASSUME NEW id \in ObjectIds, objects'[id] # None
             PROVE  objects'[id].handleCount = Count(RefTo(id))'
  BY DEF CountsRight
<1>1. PICK ref : ref = RefTo(id)
  OBVIOUS
<1>2. objects[id] # None => objects[id].handleCount = Count(ref)
  BY <1>1 DEF CountsRight
<1>3. ASSUME GenerationsFree, objects'[id].handleCount = Count(ref)'
      PROVE  objects'[id].handleCount = Count(RefTo(id))'
  <2>1. RefTo(id)' = ref
    BY <1>1, <1>3, RefsStay
  <2> QED
    BY <1>3, <2>1 DEF Count, Held, Carried
<1>4. ASSUME GenerationsFree, NothingNew, CountsStay, Count(ref)' = Count(ref)
      PROVE  objects'[id].handleCount = Count(RefTo(id))'
  <2>1. objects[id] # None
    BY <1>4 DEF NothingNew
  <2> QED
    BY <1>2, <1>3, <1>4, <2>1 DEF CountsStay
<1>5. CASE Still
  <2>1. /\ QueuesStay /\ NothingNew /\ GenerationsFree /\ CountsStay
        /\ Count(ref)' = Count(ref)
    BY <1>5, AlikeKeeps, CountStays DEF Still
  <2> QED
    BY <1>4, <2>1
<1>6. ASSUME NEW p \in ProcessIds, NEW N \in SUBSET ObjectIds, Creates(p, N)
      PROVE  objects'[id].handleCount = Count(RefTo(id))'
  <2>1. GenerationsFree
    BY <1>6 DEF Creates, GenerationsFree
  <2>2. Count(ref)' = IF id \in N THEN 1 ELSE Count(ref)
    BY <1>1, <1>6, CountCreates
  <2>3. IF id \in N THEN objects'[id].handleCount = 1 ELSE objects'[id] = objects[id]
    BY <1>6 DEF Creates
  <2> QED
    BY <1>2, <1>3, <2>1, <2>2, <2>3
<1>7. ASSUME NEW gone \in ObjectIds, Destroys(gone)
      PROVE  objects'[id].handleCount = Count(RefTo(id))'
  <2>1. /\ NothingNew /\ GenerationsFree
        /\ Count(ref)' = Count(ref)
    BY <1>7, CountStays DEF Destroys
  <2>2. id # gone
    BY <1>7 DEF Destroys
  <2>3. objects[id] # None /\ objects'[id].handleCount = objects[id].handleCount
    BY <1>7, <2>1, <2>2 DEF Destroys, NothingNew
  <2> QED
    BY <1>2, <1>3, <2>1, <2>3
<1>8. ASSUME NEW p \in ProcessIds, Running(p), NEW source \in Slots, NEW s \in Slots, NEW rights,
             Duplicates(p, source, rights, s)
      PROVE  objects'[id].handleCount = Count(RefTo(id))'
  <2>1. NothingNew /\ GenerationsFree
    BY <1>8, AlikeKeeps DEF Duplicates
  <2>2. objects[id] # None
    BY <2>1 DEF NothingNew
  <2>3. ref = At(p, source).object <=> id = At(p, source).object.id
    <3>1. Live(At(p, source).object) /\ At(p, source).object \in ObjectRefs
      <4>1. At(p, source) \in Entries
        BY <1>8, NameableEntry DEF Duplicates, At
      <4> QED
        BY <1>8, <4>1, EntryParts DEF Duplicates
    <3> QED
      BY <1>1, <3>1 DEF RefTo, Live, ObjectRefs
  <2>4. Count(ref)' = Count(ref) + (IF ref = At(p, source).object THEN 1 ELSE 0)
    BY <1>8, CountDuplicates
  <2>5. objects'[id].handleCount =
          objects[id].handleCount + (IF id = At(p, source).object.id THEN 1 ELSE 0)
    BY <1>8 DEF Duplicates
  <2> QED
    BY <1>2, <1>3, <2>1, <2>2, <2>3, <2>4, <2>5
<1>9. ASSUME NEW p \in ProcessIds, Running(p), NEW S \in SUBSET Slots, NEW closed \in ObjectRefs,
             Closes(p, S, closed)
      PROVE  objects'[id].handleCount = Count(RefTo(id))'
  <2>1. NothingNew /\ GenerationsFree
    BY <1>9, AlikeKeeps DEF Closes
  <2>2. objects[id] # None /\ objects[id].handleCount \in Nat
    BY <2>1, LiveObject, ObjectParts DEF NothingNew
  <2>3. ref = closed <=> id = closed.id
    BY <1>1, <1>9 DEF Closes, RefTo, Live, ObjectRefs
  <2>4. /\ Cardinality(S) \in Nat
        /\ Count(ref)' = Count(ref) - (IF ref = closed THEN Cardinality(S) ELSE 0)
    BY <1>9, CountCloses
  <2>5. objects'[id].handleCount =
          IF id # closed.id THEN objects[id].handleCount
          ELSE IF objects[id].handleCount < Cardinality(S) THEN 0
          ELSE objects[id].handleCount - Cardinality(S)
    BY <1>9 DEF Closes
  <2>6. ref = closed => Cardinality(S) <= Count(ref)
    <3> SUFFICES ASSUME ref = closed PROVE Cardinality(S) <= Count(ref)
      OBVIOUS
    <3>1. {p} \X S \in SUBSET Held(ref)
      BY <1>9 DEF Closes, Held
    <3>2. IsFiniteSet(S) /\ IsFiniteSet({p}) /\ Cardinality({p}) = 1
      BY SlotsFinite, FS_Subset, FS_Singleton
    <3>3. Cardinality({p} \X S) = Cardinality({p}) * Cardinality(S)
      BY <3>2, FS_Product
    <3>4. Cardinality({p} \X S) <= Cardinality(Held(ref))
      BY <3>1, CountFinite, FS_Subset
    <3>5. /\ Cardinality(Held(ref)) \in Nat /\ Cardinality(Carried(ref)) \in Nat
      BY CountFinite
    <3> QED
      BY <2>4, <3>2, <3>3, <3>4, <3>5 DEF Count
  <2>7. Count(ref) \in Nat
    BY CountFinite
  <2> QED
    BY <1>2, <1>3, <2>1, <2>2, <2>3, <2>4, <2>5, <2>6, <2>7
<1>10. ASSUME NEW p \in ProcessIds, NEW channel, NEW moved \in HandleLists,
              NEW other \in ObjectIds, NEW m \in MessageSlots, Sends(p, channel, moved, other, m)
       PROVE  objects'[id].handleCount = Count(RefTo(id))'
  <2>1. Count(ref)' = Count(ref)
    BY <1>10, CountTransfers
  <2> QED
    BY <1>4, <1>10, <2>1 DEF Sends
<1>11. ASSUME NEW p \in ProcessIds, Running(p), NEW channel,
              NEW other \in ObjectIds, NEW m \in MessageSlots, Receives(p, channel, other, m)
       PROVE  objects'[id].handleCount = Count(RefTo(id))'
  BY <1>4, <1>11, CountTransfers DEF Receives
<1> QED
  BY <1>5, <1>6, <1>7, <1>8, <1>9, <1>10, <1>11 DEF StepKinds

AccountsOK == LinksOK /\ CountsRight

(* Nothing is counted before the first call, and every call counts.        *)
LEMMA InitAccounts == Init => AccountsOK
<1> SUFFICES ASSUME Init PROVE AccountsOK
  OBVIOUS
<1>1. LinksOK
  BY InitLinks
<1>2. CountsRight
  BY DEF CountsRight, Init
<1> QED
  BY <1>1, <1>2 DEF AccountsOK

(* The step of the same.                                                   *)
LEMMA StepAccounts == AccountsOK /\ [Next]_vars => AccountsOK'
<1> SUFFICES ASSUME AccountsOK, [Next]_vars PROVE AccountsOK'
  OBVIOUS
<1>1. LinksOK /\ KernelOK
  BY DEF AccountsOK, LinksOK, ReferencesOK
<1>2. PICK owner : SoundRefs(owner)
  BY <1>1 DEF LinksOK, ReferencesOK
<1>3. StepKinds
  BY <1>1, <1>2, ChildrenAgree, StepEffect
<1>4. CountsRight'
  <2>1. KernelOK'
    BY <1>1, StepWellFormed DEF StepOK
  <2> QED
    BY <1>1, <1>2, <1>3, <2>1, StepCounts DEF AccountsOK
<1> QED
  BY <1>1, <1>4, StepLinks DEF AccountsOK

(* What Held and Carried stand for.                                        *)
LEMMA PlacesOf ==
  ASSUME NEW ref
  PROVE  HeldIn(ref) = Held(ref) /\ CarriedIn(ref) = Carried(ref)
<1>1. HeldIn(ref) = Held(ref)
  BY DEF HeldIn, Held, TableSlots, EntryAt, Occupied, At
<1>2. CarriedIn(ref) = Carried(ref)
  BY DEF CarriedIn, Carried, TransitSlots, InTransit, OfKind, LiveIds, Waiting, Queue, IsEndpoint
<1> QED
  BY <1>1, <1>2

(* The agreement of all tables, in every reachable state.                  *)
THEOREM AccountsStayRight == Spec => []AccountsOK
BY InitAccounts, StepAccounts, PTL DEF Spec

(* handle_count, which decides whether a close is the last one, is the     *)
(* number of handles in tables and in queued messages, though neither send *)
(* nor recv touches it and remove_handle would hide an error.              *)
THEOREM HandlesAreCounted == Spec => []HandleCountAccurate
<1>1. AccountsOK => HandleCountAccurate
  BY PlacesOf DEF AccountsOK, CountsRight, HandleCountAccurate, LiveIds, Count
<1> QED
  BY <1>1, AccountsStayRight, PTL

-----------------------------------------------------------------------------
(* Derivation.                                                             *)

(* A number for every slot of every process, greater in a slot than in the *)
(* slot that its entry was derived from.                                   *)
Ranks == [ProcessIds -> [Slots -> Nat]]

Ranked(rank) ==
  \A q \in ProcessIds : Running(q) =>
    \A i, j \in Slots : Child(Handles(q), i, j) => rank[q][i] < rank[q][j]

(* The views after a step.                                                 *)
LEMMA StepTypes ==
  ASSUME StepOK
  PROVE  \A q \in ProcessIds, i \in Slots : At(q, i)' \in Entries \cup {None}
<1>1. KernelOK'
  BY DEF StepOK
<1> SUFFICES ASSUME NEW q \in ProcessIds, NEW i \in Slots
             PROVE  At(q, i)' \in Entries \cup {None}
  OBVIOUS
<1>2. Running(q)' => Handles(q)' \in Tables
  BY <1>1 DEF KernelOK, Running, Handles, Processes
<1> QED
  BY <1>2 DEF At, Tables

(* Whatever a call puts into a slot can be ranked above its parent: the    *)
(* slot was free, so nothing descends from it yet.                         *)
LEMMA StepRanked ==
  ASSUME KernelOK, StepOK, NEW owner, SoundRefs(owner), NEW rank \in Ranks, Ranked(rank),
         \/ Moves(owner)
         \/ \E p \in ProcessIds, N \in SUBSET ObjectIds : Creates(p, N)
  PROVE  \E after \in Ranks : Ranked(after)'
<1> DEFINE Over(q, j) ==
             IF At(q, j)' # At(q, j) /\ At(q, j)' # None /\ At(q, j)'.parent # None
             THEN rank[q][At(q, j)'.parent.index] + 1
             ELSE rank[q][j]
           after == [q \in ProcessIds |-> [j \in Slots |-> Over(q, j)]]
<1>1. ASSUME NEW q \in ProcessIds, NEW j \in Slots
      PROVE  At(q, j)' \in Entries \cup {None}
  BY StepTypes
<1>2. ASSUME NEW q \in ProcessIds, NEW j \in Slots
      PROVE  Over(q, j) \in Nat
  <2>1. \A i \in Slots : rank[q][i] \in Nat
    BY DEF Ranks
  <2> QED
    BY <1>1, <2>1, EntryParts DEF HandleValues
<1>3. after \in Ranks
  BY <1>2 DEF Ranks
<1>4. ASSUME NEW q \in ProcessIds, Running(q)', NEW i \in Slots, NEW j \in Slots,
             At(q, j)' # None, At(q, j)'.parent # None, At(q, j)'.parent.index = i,
             At(q, j)'.parent.generation = Handles(q)'.generation[i]
      PROVE  after[q][i] < after[q][j]
  <2>1. PICK e \in Entries : e = At(q, j)'
    BY <1>1, <1>4
  <2>2. Running(q) /\ Lineage(q, e)
    <3>1. CASE Moves(owner)
      <4>1. Belongs(owner, q, e)'
        BY <2>1 DEF Belongs
      <4> QED
        BY <3>1, <4>1, OwnerRuns DEF Moves, SoundRefs, Sound
    <3>2. CASE \E p \in ProcessIds, N \in SUBSET ObjectIds : Creates(p, N)
      <4>1. At(q, j) = e
        BY <1>4, <2>1, <3>2 DEF Creates
      <4>2. Belongs(owner, q, e)
        BY <4>1 DEF Belongs
      <4> QED
        BY <4>2, OwnerRuns DEF SoundRefs, Sound
    <3> QED
      BY <3>1, <3>2
  <2>3. /\ Handles(q).generation[i] \in Nat /\ Handles(q)'.generation[i] \in Nat
        /\ \/ Handles(q)'.generation[i] > Handles(q).generation[i]
           \/ /\ Handles(q)'.generation[i] = Handles(q).generation[i]
              /\ At(q, i)' = At(q, i) \/ At(q, i) = None
    BY <2>2, SlotsKept
  <2>4. e.parent.generation \in Nat
    BY <1>4, <2>1, EntryParts, HandleTableAssumption DEF HandleValues
  <2>5. At(q, i) # None /\ At(q, i)' = At(q, i)
        /\ e.parent.generation = Handles(q).generation[i]
    BY <1>4, <2>1, <2>2, <2>3, <2>4 DEF Lineage
  <2>6. after[q][i] = rank[q][i]
    BY <2>5
  <2>7. rank[q][i] \in Nat
    BY DEF Ranks
  <2>8. CASE At(q, j)' # At(q, j)
    BY <1>4, <2>6, <2>7, <2>8
  <2>9. CASE At(q, j)' = At(q, j)
    <3>1. Child(Handles(q), i, j)
      BY <1>4, <2>1, <2>2, <2>5, <2>9 DEF Child, Occupied, At
    <3>2. rank[q][i] < rank[q][j]
      BY <2>2, <3>1 DEF Ranked
    <3> QED
      BY <2>6, <2>9, <3>2
  <2> QED
    BY <2>8, <2>9
<1>5. PICK above \in Ranks : above = after
  BY <1>3
<1> HIDE DEF after
<1>6. Ranked(above)'
  <2> SUFFICES ASSUME NEW q \in ProcessIds, Running(q)', NEW i \in Slots, NEW j \in Slots,
                      Child(Handles(q), i, j)'
               PROVE  above[q][i] < above[q][j]
    BY DEF Ranked
  <2>1. /\ At(q, j)' # None /\ At(q, j)'.parent # None /\ At(q, j)'.parent.index = i
        /\ At(q, j)'.parent.generation = Handles(q)'.generation[i]
    BY DEF Child, Occupied, At
  <2> QED
    BY <1>4, <1>5, <2>1
<1> QED
  BY <1>6

RanksOK == ReferencesOK /\ \E rank \in Ranks : Ranked(rank)

(* No table has a derived handle yet.                                      *)
LEMMA InitRanks == Init => RanksOK
<1> SUFFICES ASSUME Init PROVE RanksOK
  OBVIOUS
<1>1. [q \in ProcessIds |-> [i \in Slots |-> 0]] \in Ranks
  BY DEF Ranks
<1>2. \A rank : Ranked(rank)
  BY DEF Ranked, Init, Running
<1> QED
  BY <1>1, <1>2, InitReferences DEF RanksOK

(* Every call can be ranked.                                               *)
LEMMA StepRanks == RanksOK /\ [Next]_vars => RanksOK'
<1> SUFFICES ASSUME RanksOK, [Next]_vars PROVE RanksOK'
  OBVIOUS
<1>1. KernelOK /\ StepOK /\ ReferencesOK'
  BY StepWellFormed, StepReferences DEF RanksOK, ReferencesOK
<1>2. PICK owner : SoundRefs(owner)
  BY DEF RanksOK, ReferencesOK
<1>3. PICK rank \in Ranks : Ranked(rank)
  BY DEF RanksOK
<1>4. \E after \in Ranks : Ranked(after)'
  BY <1>1, <1>2, <1>3, MovesOrCreates, StepRanked
<1> QED
  BY <1>1, <1>4 DEF RanksOK

(* No handle descends from itself, whatever was duplicated, sent, received *)
(* and closed: the walk of descends_from along the parents ends.           *)
THEOREM LineagesEnd == Spec => []LineageAcyclic
<1>1. RanksOK => LineageAcyclic
  <2> SUFFICES ASSUME RanksOK, NEW p \in ProcessIds, Running(p),
                      NEW i \in Occupied(Handles(p))
               PROVE  i \notin Descendants(Handles(p), i)
    BY DEF LineageAcyclic
  <2>1. PICK rank \in Ranks : Ranked(rank)
    BY DEF RanksOK
  <2> DEFINE D == {j \in Slots : rank[p][i] < rank[p][j]}
  <2>2. i \in Slots /\ \A j \in Slots : rank[p][j] \in Nat
    BY DEF Occupied, Ranks
  <2>3. \A k, j \in Slots : Child(Handles(p), k, j) => rank[p][k] < rank[p][j]
    BY <2>1 DEF Ranked
  <2>4. Descendants(Handles(p), i) \subseteq D
    <3>1. \A j \in Slots : Child(Handles(p), i, j) => j \in D
      BY <2>2, <2>3
    <3>2. \A k \in D, j \in Slots : Child(Handles(p), k, j) => j \in D
      BY <2>2, <2>3
    <3> QED
      BY <3>1, <3>2, DescendantsLeast
  <2>5. i \notin D
    BY <2>2
  <2> QED
    BY <2>4, <2>5
<1> QED
  BY <1>1, InitRanks, StepRanks, PTL DEF Spec

(* The root keeps its own handle to the object, so none of the handles to  *)
(* be closed is the last one of a busy address space.                      *)
LEMMA RevokesAll ==
  ASSUME AccountsOK, EveryEntryNameable
  PROVE  RevokeIsComplete
<1> SUFFICES ASSUME NEW p \in ProcessIds, Running(p),
                    NEW root \in Nameable(Handles(p)), Live(Handles(p).entry[root].object)
             PROVE  ClosedByRevoke(p, root) = Revocable(p, root)
  BY DEF RevokeIsComplete
<1> DEFINE ref == Handles(p).entry[root].object
           collected == Revocable(p, root)
           Before(j) == {k \in collected : k < j}
<1>1. KernelOK /\ DerivedRightsShrink /\ CountsRight
  BY ChildrenAgree DEF AccountsOK, LinksOK, ReferencesOK
<1>2. root \in Slots /\ ref \in ObjectRefs /\ At(p, root) # None /\ At(p, root).object = ref
  BY <1>1, NameableEntry DEF At, Occupied
<1>3. \A j \in collected : /\ j \in Slots /\ j # root /\ At(p, j) # None
                           /\ At(p, j).object = ref
  BY <1>1, <1>2, DescendantsAgree DEF Revocable
<1> HIDE DEF ref, collected
<1>4. objects[ref.id].handleCount = Count(ref) /\ ref = RefTo(ref.id)
  BY <1>1, <1>2 DEF CountsRight, Live, RefTo, ObjectRefs, ref
<1>5. ASSUME NEW j \in collected
      PROVE  /\ ValidHandle(Handles(p), HandleOf(Handles(p), j))
             /\ CanCloseAfter(objects[ref.id], Cardinality(Before(j)))
  <2>1. j \in Nameable(Handles(p))
    BY <1>3, <1>5 DEF EveryEntryNameable, Occupied, At
  <2> DEFINE S == Before(j) \cup {j}
             T == S \cup {root}
  <2>2. T \in SUBSET Slots /\ j \notin Before(j) /\ root \notin S
    <3>1. \A k \in collected : k \in Nat /\ k \in Slots /\ k # root
      BY <1>3, SlotsFinite
    <3> QED
      BY <1>2, <1>5, <3>1
  <2>3. {p} \X T \in SUBSET Held(ref)
    BY <1>2, <1>3 DEF Held
  <2> HIDE DEF T
  <2>4. IsFiniteSet(T) /\ Cardinality({p} \X T) <= Cardinality(Held(ref))
    BY <2>2, <2>3, SlotsFinite, CountFinite, FS_Subset
  <2>5. Cardinality({p} \X T) = Cardinality({p}) * Cardinality(T)
    BY <2>4, FS_Product, FS_Singleton
  <2>6. Cardinality({p}) = 1 /\ Cardinality(T) \in Nat
    BY <2>4, FS_Singleton, FS_CardinalityType
  <2>7. Cardinality(T) <= Cardinality(Held(ref))
    BY <2>4, <2>5, <2>6
  <2>8. /\ IsFiniteSet(Before(j)) /\ Cardinality(Before(j)) \in Nat
        /\ Cardinality(T) = Cardinality(Before(j)) + 2
    <3>1. IsFiniteSet(Before(j))
      BY <2>2, <2>4, FS_Subset DEF T
    <3>2. IsFiniteSet(S) /\ Cardinality(S) = Cardinality(Before(j)) + 1
      BY <2>2, <3>1, FS_AddElement
    <3>3. Cardinality(T) = Cardinality(S) + 1
      <4> HIDE DEF S
      <4> QED
        BY <2>2, <3>2, FS_AddElement DEF T
    <3> QED
      BY <3>1, <3>2, <3>3, FS_CardinalityType
  <2>9. Cardinality(Held(ref)) \in Nat /\ Cardinality(Carried(ref)) \in Nat
    BY CountFinite
  <2>10. objects[ref.id].handleCount - Cardinality(Before(j)) >= 2
    BY <1>4, <2>7, <2>8, <2>9 DEF Count
  <2>11. objects[ref.id].handleCount \in Nat
    BY <1>4, CountFinite
  <2>12. ~(objects[ref.id].handleCount - Cardinality(Before(j)) <= 1)
    BY <2>8, <2>10, <2>11
  <2> QED
    BY <2>1, <2>12 DEF Nameable, CanCloseAfter
<1>6. ClosedByRevoke(p, root) =
        {j \in collected : \A k \in collected : k <= j =>
           /\ ValidHandle(Handles(p), HandleOf(Handles(p), k))
           /\ CanCloseAfter(objects[ref.id], Cardinality(Before(k)))}
  BY DEF ClosedByRevoke, ref, collected
<1> HIDE DEF Before
<1>7. ClosedByRevoke(p, root) = collected
  BY <1>5, <1>6
<1> QED
  BY <1>7 DEF collected

(* Revocation is never held up half way while every handle value names its *)
(* entry (a generation beyond 2^32 is cut off by HandleValue): the root    *)
(* keeps its own handle to the object, so none of the handles to be closed *)
(* is the last one of a busy address space.                                *)
THEOREM RevocationCompletes == Spec => [](EveryEntryNameable => RevokeIsComplete)
<1>1. AccountsOK => (EveryEntryNameable => RevokeIsComplete)
  BY RevokesAll
<1> QED
  BY <1>1, AccountsStayRight, PTL

-----------------------------------------------------------------------------
(* Budgets.                                                                *)

SpentStays == \A q \in ProcessIds : SpentBy(q)' = SpentBy(q)

(* What leaves the budgets alone costs nothing, whatever it does to a      *)
(* handle table.                                                           *)
LEMMA SpendsNothing ==
  ASSUME KernelOK, StepOK,
         \/ UNCHANGED processes
         \/ \E p \in ProcessIds : \E t : Running(p) /\ processes' = [processes EXCEPT ![p].handles = t]
  PROVE  SpentStays
<1> SUFFICES ASSUME NEW q \in ProcessIds PROVE SpentBy(q)' = SpentBy(q)
  BY DEF SpentStays
<1>1. CASE UNCHANGED processes
  BY <1>1 DEF SpentBy, Running
<1>2. ASSUME NEW p \in ProcessIds, NEW t, Running(p),
             processes' = [processes EXCEPT ![p].handles = t]
      PROVE  SpentBy(q)' = SpentBy(q)
  <2>1. PICK h \in Tables, r \in Nat : processes[p] = [handles |-> h, remaining |-> r]
    BY <1>2, RunningProcess DEF Processes
  <2>2. processes'[p] = [handles |-> t, remaining |-> r]
    <3>1. processes'[p] = [processes[p] EXCEPT !.handles = t]
      BY <1>2 DEF KernelOK
    <3> QED
      BY <2>1, <3>1
  <2>3. CASE q = p
    <3>1. Running(p)'
      BY <1>2, SlotsKept
    <3> QED
      BY <1>2, <2>1, <2>2, <2>3, <3>1 DEF SpentBy
  <2>4. CASE q # p
    BY <1>2, <2>4 DEF SpentBy, Running, KernelOK
  <2> QED
    BY <2>3, <2>4
<1> QED
  BY <1>1, <1>2

(* Whoever makes objects pays for them, and no other call costs anything.  *)
LEMMA StepCharges ==
  ASSUME KernelOK, StepOK, DerivedRightsShrink, [Next]_vars
  PROVE  (NothingNew /\ SpentStays) \/ \E p \in ProcessIds : Buys(p)
<1>1. ASSUME NothingNew, UNCHANGED processes
      PROVE  NothingNew /\ SpentStays
  BY <1>1, SpendsNothing
<1>2. ASSUME NothingNew, NEW p \in ProcessIds, Running(p), NEW t,
             processes' = [processes EXCEPT ![p].handles = t]
      PROVE  NothingNew /\ SpentStays
  BY <1>2, SpendsNothing
<1>3. ASSUME NEW p \in ProcessIds, Running(p), ObjectCall(p)
      PROVE  (NothingNew /\ SpentStays) \/ Buys(p)
  <2>1. ASSUME CreateRolledBack(p)
        PROVE  NothingNew /\ SpentStays
    <3>1. UNCHANGED vars
      BY <1>3, <2>1, CreateUndone
    <3> QED
      BY <1>1, <3>1 DEF vars, NothingNew
  <2>2. ASSUME NEW source \in Slots, NEW rights \in RightsChoices, DuplicateHandle(p, source, rights)
        PROVE  NothingNew /\ SpentStays
    <3>1. NothingNew
      BY <1>3, <2>2, DuplicateEffect, AlikeKeeps DEF Duplicates
    <3>2. \E t : processes' = [processes EXCEPT ![p].handles = t]
      BY <2>2 DEF DuplicateHandle
    <3> QED
      BY <1>2, <1>3, <3>1, <3>2
  <2>3. ASSUME NEW S, NEW ref, Closes(p, S, ref), CloseSlots(p, S, ref)
        PROVE  NothingNew /\ SpentStays
    <3>1. NothingNew
      BY <2>3, AlikeKeeps DEF Closes
    <3>2. \E t : processes' = [processes EXCEPT ![p].handles = t]
      BY <2>3 DEF CloseSlots
    <3> QED
      BY <1>2, <1>3, <3>1, <3>2
  <2>4. ASSUME NEW i \in Slots, CloseHandle(p, i)
        PROVE  NothingNew /\ SpentStays
    BY <1>3, <2>3, <2>4, CloseHandleCloses
  <2>5. ASSUME NEW i \in Slots, RevokeDescendants(p, i)
        PROVE  NothingNew /\ SpentStays
    BY <1>3, <2>3, <2>5, RevokeCloses
  <2> QED
    BY <1>3, <2>1, <2>2, <2>4, <2>5, CreateObjectCreates, CreateMemoryCreates DEF ObjectCall
<1>4. ASSUME NEW p \in ProcessIds, Running(p), ChannelCall(p)
      PROVE  (NothingNew /\ SpentStays) \/ Buys(p)
  <2>1. ASSUME SecondObjectRefused(p)
        PROVE  NothingNew /\ SpentStays
    <3>1. UNCHANGED vars
      BY <1>4, <2>1, CreateUndone
    <3> QED
      BY <1>1, <3>1 DEF vars, NothingNew
  <2>2. ASSUME NEW max \in MessageLimits, ChannelPairRolledBack(p, max)
        PROVE  NothingNew /\ SpentStays
    <3>1. UNCHANGED <<objects, processes>>
      BY <1>4, <2>2, PairUndone
    <3> QED
      BY <1>1, <3>1 DEF NothingNew
  <2>3. ASSUME NEW channel \in Slots, NEW moved \in HandleLists, ChannelSend(p, channel, moved)
        PROVE  NothingNew /\ SpentStays
    <3>1. NothingNew
      BY <1>4, <2>3, SendEffect DEF Sends
    <3>2. \E t : processes' = [processes EXCEPT ![p].handles = t]
      BY <2>3 DEF ChannelSend
    <3> QED
      BY <1>2, <1>4, <3>1, <3>2
  <2>4. ASSUME NEW channel \in Slots, ChannelRecv(p, channel)
        PROVE  NothingNew /\ SpentStays
    <3>1. NothingNew
      BY <1>4, <2>4, RecvEffect DEF Receives
    <3>2. \E t : processes' = [processes EXCEPT ![p].handles = t]
      BY <2>4 DEF ChannelRecv
    <3> QED
      BY <1>2, <1>4, <3>1, <3>2
  <2> QED
    BY <1>4, <2>1, <2>2, <2>3, <2>4, PairCreates DEF ChannelCall
<1>5. ASSUME NEW p \in ProcessIds, Running(p), SpaceCall(p)
      PROVE  NothingNew /\ UNCHANGED processes
  <2>1. ASSUME NEW space \in Slots, NEW memory \in Slots, NEW request \in MapRequests,
               MapRolledBack(p, space, memory, request)
        PROVE  NothingNew /\ UNCHANGED processes
    BY <1>5, <2>1, MapUndone DEF vars, NothingNew
  <2>2. ASSUME NEW space \in Slots, NEW memory \in Slots, NEW request \in MapRequests,
               MapMemoryObject(p, space, memory, request)
        PROVE  NothingNew /\ UNCHANGED processes
    BY <1>5, <2>2, MapEffect, AlikeKeeps DEF Still, MapMemoryObject
  <2>3. ASSUME NEW space \in Slots, NEW request \in MapRequests,
               UnmapAddressRange(p, space, request.base, request.size)
        PROVE  NothingNew /\ UNCHANGED processes
    BY <1>5, <2>3, UnmapEffect, AlikeKeeps DEF Still, UnmapAddressRange
  <2>4. ASSUME NEW space \in Slots, FlushAddressSpaceTlb(p, space)
        PROVE  NothingNew /\ UNCHANGED processes
    BY <1>5, <2>4, FlushEffect, AlikeKeeps DEF Still, FlushAddressSpaceTlb
  <2> QED
    BY <1>5, <2>1, <2>2, <2>3, <2>4 DEF SpaceCall
<1>6. ASSUME HostCall
      PROVE  NothingNew /\ UNCHANGED processes
  <2>1. ASSUME NEW id \in ObjectIds, DestroyObject(id)
        PROVE  NothingNew /\ UNCHANGED processes
    BY <2>1, DestroyEffect DEF Destroys, DestroyObject
  <2>2. ASSUME NEW id \in ObjectIds, NEW state \in {"Unsignaled", "Signaled"}, SetEvent(id, state)
        PROVE  NothingNew /\ UNCHANGED processes
    BY <2>2, EventEffect, AlikeKeeps DEF Still, SetEvent
  <2> QED
    BY <1>6, <2>1, <2>2 DEF HostCall
<1>7. CASE UNCHANGED vars
  BY <1>1, <1>7 DEF vars, NothingNew
<1> QED
  BY <1>1, <1>3, <1>4, <1>5, <1>6, <1>7, BootstrapCreates DEF Next, SystemCall

(* The objects of a process: those that owner says it made.                *)
Owned(owner, q) == {id \in LiveIds : owner[RefTo(id)] = q}

PaidFor(owner) == \A q \in ProcessIds : Cardinality(Owned(owner, q)) <= SpentBy(q)

ChargedOK == KernelOK /\ \E owner \in Owners : SoundRefs(owner) /\ PaidFor(owner)

(* Sets of object ids are finite.                                          *)
LEMMA IdsFinite ==
  ASSUME NEW S \in SUBSET ObjectIds
  PROVE  IsFiniteSet(S) /\ Cardinality(S) \in Nat
<1>1. IsFiniteSet(ObjectIds)
  BY FS_Interval, KernelNamesAssumption DEF ObjectIds
<1>2. IsFiniteSet(S)
  BY <1>1, FS_Subset
<1> QED
  BY <1>2, FS_CardinalityType

(* A call that only moves what there is makes nothing anyone's.            *)
LEMMA MovesArePaid ==
  ASSUME KernelOK, KernelOK', NEW owner, PaidFor(owner), Moves(owner), SpentStays
  PROVE  PaidFor(owner)'
<1> SUFFICES ASSUME NEW q \in ProcessIds
             PROVE  Cardinality(Owned(owner, q))' <= SpentBy(q)'
  BY DEF PaidFor
<1>1. PICK was, is : was = Owned(owner, q) /\ is = Owned(owner, q)'
  OBVIOUS
<1>2. is \subseteq was /\ was \in SUBSET ObjectIds
  <2>1. ASSUME NEW id \in is
        PROVE  id \in was
    <3>1. id \in ObjectIds /\ objects'[id] # None /\ owner[RefTo(id)'] = q
      BY <1>1, <2>1 DEF Owned, LiveIds
    <3>2. objects[id] # None /\ RefTo(id)' = RefTo(id)
      BY <3>1, RefsStay DEF Moves, NothingNew
    <3> QED
      BY <1>1, <3>1, <3>2 DEF Owned, LiveIds
  <2> QED
    BY <1>1, <2>1 DEF Owned, LiveIds
<1>3. Cardinality(was) \in Nat /\ Cardinality(is) \in Nat /\ Cardinality(is) <= Cardinality(was)
  BY <1>2, IdsFinite, FS_Subset
<1>4. Cardinality(was) <= SpentBy(q) /\ SpentBy(q)' = SpentBy(q) /\ SpentBy(q) \in Int
  BY <1>1, SpentIsNumber DEF PaidFor, SpentStays
<1> QED
  BY <1>1, <1>3, <1>4

(* New objects are the maker's, which pays for them.                       *)
LEMMA CreatesArePaid ==
  ASSUME KernelOK, KernelOK', NEW owner, PaidFor(owner), NEW after,
         NEW p \in ProcessIds, NEW N \in SUBSET ObjectIds, Creates(p, N), Charges(p, N),
         \A id \in ObjectIds : after[RefTo(id)'] = IF id \in N THEN p ELSE owner[RefTo(id)]
  PROVE  PaidFor(after)'
<1> SUFFICES ASSUME NEW q \in ProcessIds
             PROVE  Cardinality(Owned(after, q))' <= SpentBy(q)'
  BY DEF PaidFor
<1>1. PICK was, is : was = Owned(owner, q) /\ is = Owned(after, q)'
  OBVIOUS
<1>2. PICK made : made = IF q = p THEN N ELSE {}
  OBVIOUS
<1>3. is \subseteq was \cup made /\ was \in SUBSET ObjectIds /\ made \in SUBSET ObjectIds
  <2>1. ASSUME NEW id \in is
        PROVE  id \in was \cup made
    <3>1. id \in ObjectIds /\ objects'[id] # None /\ after[RefTo(id)'] = q
      BY <1>1, <2>1 DEF Owned, LiveIds
    <3>2. CASE id \in N
      BY <1>2, <3>1, <3>2
    <3>3. CASE id \notin N
      <4>1. objects'[id] = objects[id] /\ owner[RefTo(id)] = q
        BY <3>1, <3>3 DEF Creates
      <4> QED
        BY <1>1, <3>1, <4>1 DEF Owned, LiveIds
    <3> QED
      BY <3>2, <3>3
  <2> QED
    BY <1>1, <1>2, <2>1 DEF Owned, LiveIds
<1>4. /\ IsFiniteSet(was) /\ Cardinality(was) \in Nat
      /\ IsFiniteSet(made) /\ Cardinality(made) \in Nat
      /\ Cardinality(was \cap made) \in Nat
  BY <1>3, IdsFinite
<1>5. /\ IsFiniteSet(was \cup made)
      /\ Cardinality(was \cup made) = Cardinality(was) + Cardinality(made) - Cardinality(was \cap made)
  BY <1>4, FS_Union
<1>6. Cardinality(is) \in Nat /\ Cardinality(is) <= Cardinality(was \cup made)
  BY <1>3, <1>5, FS_Subset, FS_CardinalityType
<1>7. SpentBy(q)' = SpentBy(q) + Cardinality(made)
  BY <1>2, FS_EmptySet DEF Charges
<1>8. Cardinality(was) <= SpentBy(q) /\ SpentBy(q) \in Int
  BY <1>1, SpentIsNumber DEF PaidFor
<1> QED
  BY <1>1, <1>4, <1>5, <1>6, <1>7, <1>8

(* A call moves what there is and costs nothing, or its caller pays.       *)
LEMMA MovesOrBuys ==
  ASSUME KernelOK, StepOK, [Next]_vars, NEW owner, SoundRefs(owner)
  PROVE  (Moves(owner) /\ SpentStays) \/ \E p \in ProcessIds : Buys(p)
<1>1. (NothingNew /\ SpentStays) \/ \E p \in ProcessIds : Buys(p)
  BY ChildrenAgree, StepCharges
<1>2. ASSUME NothingNew, SpentStays, NEW p \in ProcessIds, NEW N \in SUBSET ObjectIds, Creates(p, N)
      PROVE  Buys(p)
  <2>1. N = {}
    BY <1>2 DEF Creates, NothingNew
  <2>2. \A q \in ProcessIds : SpentBy(q)' = SpentBy(q) + 0
    BY <1>2, SpentIsNumber DEF SpentStays
  <2>3. Charges(p, N)
    BY <2>1, <2>2, FS_EmptySet DEF Charges
  <2> QED
    BY <1>2, <2>3 DEF Buys
<1> QED
  BY <1>1, <1>2, MovesOrCreates

(* Every object stays paid for by the process it belongs to.               *)
LEMMA StepCharged == ChargedOK /\ [Next]_vars => ChargedOK'
<1> SUFFICES ASSUME ChargedOK, [Next]_vars PROVE ChargedOK'
  OBVIOUS
<1>1. KernelOK /\ StepOK /\ KernelOK'
  BY StepWellFormed DEF ChargedOK, StepOK
<1>2. PICK owner \in Owners : SoundRefs(owner) /\ PaidFor(owner)
  BY DEF ChargedOK
<1>3. ASSUME Moves(owner), SpentStays
      PROVE  ChargedOK'
  <2>1. SoundRefs(owner)'
    BY <1>1, <1>2, <1>3, MovesSound
  <2>2. PaidFor(owner)'
    BY <1>1, <1>2, <1>3, MovesArePaid
  <2> QED
    BY <1>1, <2>1, <2>2 DEF ChargedOK
<1>4. ASSUME NEW p \in ProcessIds, NEW N \in SUBSET ObjectIds, Creates(p, N), Charges(p, N)
      PROVE  ChargedOK'
  <2>1. PICK after \in Owners :
          /\ SoundRefs(after)'
          /\ \A id \in ObjectIds : after[RefTo(id)'] = IF id \in N THEN p ELSE owner[RefTo(id)]
    BY <1>1, <1>2, <1>4, CreatesSound
  <2>2. PaidFor(after)'
    BY <1>1, <1>2, <1>4, <2>1, CreatesArePaid
  <2> QED
    BY <1>1, <2>1, <2>2 DEF ChargedOK
<1> QED
  BY <1>1, <1>2, <1>3, <1>4, MovesOrBuys DEF Buys

(* A process gets at no more objects than it has paid for, each process    *)
(* for itself: what its handles name, and what waits for it in messages of *)
(* messages, are objects that create calls charged to its own budget.      *)
THEOREM ReachCostsItsOwner == Spec => []ReachIsCharged
<1>1. Init => ChargedOK
  <2> SUFFICES ASSUME Init PROVE ChargedOK
    OBVIOUS
  <2>1. KernelOK
    BY InitWellFormed
  <2>2. PICK owner \in Owners : SoundRefs(owner)
    BY InitReferences DEF ReferencesOK
  <2>3. ASSUME NEW q \in ProcessIds
        PROVE  Cardinality(Owned(owner, q)) <= SpentBy(q)
    <3>1. Owned(owner, q) = {}
      BY DEF Owned, LiveIds, Init
    <3>2. SpentBy(q) = 0
      BY DEF Init, SpentBy, Running
    <3> QED
      BY <3>1, <3>2, FS_EmptySet
  <2> QED
    BY <2>1, <2>2, <2>3 DEF ChargedOK, PaidFor
<1>2. ChargedOK => ReachIsCharged
  <2> SUFFICES ASSUME ChargedOK, NEW p \in ProcessIds, Running(p)
               PROVE  Cardinality(Reach(p)) <= SpentBy(p)
    BY DEF ReachIsCharged
  <2>1. PICK owner \in Owners : SoundRefs(owner) /\ PaidFor(owner)
    BY DEF ChargedOK
  <2>2. PICK S \in SUBSET LiveIds : S = Owned(owner, p)
    BY DEF Owned
  <2>3. ASSUME NEW e \in Entries, Belongs(owner, p, e), Live(e.object)
        PROVE  e.object.id \in S
    <3>1. owner[e.object] = p /\ e.object \in ObjectRefs
      BY <2>1, <2>3, EntryParts DEF SoundRefs, Sound
    <3>2. e.object = RefTo(e.object.id) /\ e.object.id \in LiveIds
      BY <2>3, <3>1 DEF Live, RefTo, ObjectRefs, LiveIds
    <3> QED
      BY <2>2, <3>1, <3>2 DEF Owned
  <2>4. ASSUME NEW i \in Occupied(Handles(p)), Live(Handles(p).entry[i].object)
        PROVE  Handles(p).entry[i].object.id \in S
    <3>1. /\ i \in Slots /\ At(p, i) = Handles(p).entry[i] /\ At(p, i) # None
      BY DEF Occupied, At
    <3>2. At(p, i) \in Entries
      BY <3>1, ViewTypes DEF ChargedOK
    <3>3. Belongs(owner, p, At(p, i))
      BY <3>1 DEF Belongs
    <3> QED
      BY <2>3, <2>4, <3>1, <3>2, <3>3
  <2>5. ASSUME NEW l \in TransitSlots, l[1] \in S, Live(InTransit(l).object)
        PROVE  InTransit(l).object.id \in S
    <3>1. InTransit(l) \in Entries /\ InQueue(l[1], InTransit(l))
      BY <2>1, EntriesBelong DEF ChargedOK
    <3>2. l[1] \in ObjectIds /\ owner[RefTo(l[1])] = p
      BY <2>2, <2>5 DEF Owned, LiveIds
    <3>3. Belongs(owner, p, InTransit(l))
      BY <3>1, <3>2 DEF Belongs
    <3> QED
      BY <2>3, <2>5, <3>1, <3>3
  <2>6. Encloses(p, S)
    BY <2>4, <2>5 DEF Encloses
  <2>7. Reach(p) \in SUBSET S /\ S \in SUBSET ObjectIds
    BY <2>6 DEF Reach, LiveIds
  <2>8. /\ Cardinality(Reach(p)) \in Nat /\ Cardinality(S) \in Nat
        /\ Cardinality(Reach(p)) <= Cardinality(S)
    BY <2>7, IdsFinite, FS_Subset
  <2>9. Cardinality(S) <= SpentBy(p) /\ SpentBy(p) \in Int
    BY <2>1, <2>2, SpentIsNumber DEF PaidFor, ChargedOK
  <2> QED
    BY <2>8, <2>9
<1> QED
  BY <1>1, <1>2, StepCharged, PTL DEF Spec

(* The units of budget that are gone.                                      *)
Units == {u \in ProcessIds \X (1 .. ObjectQuota) : u[2] <= SpentBy(u[1])}

(* There are finitely many units of budget.                                *)
LEMMA UnitsFinite == IsFiniteSet(Units) /\ Cardinality(Units) \in Nat
<1>1. IsFiniteSet(ProcessIds) /\ IsFiniteSet(1 .. ObjectQuota)
  BY FS_Interval, KernelAssumption DEF ProcessIds
<1>2. IsFiniteSet(ProcessIds \X (1 .. ObjectQuota))
  BY <1>1, FS_Product
<1> QED
  BY <1>2, FS_Subset, FS_CardinalityType DEF Units

(* There are finitely many object references.                              *)
LEMMA RefsFinite ==
  ASSUME NEW S \in SUBSET ObjectRefs
  PROVE  IsFiniteSet(S) /\ Cardinality(S) \in Nat
<1>1. IsFiniteSet(ObjectIds) /\ IsFiniteSet(1 .. MaxObjectGeneration)
  BY FS_Interval, KernelNamesAssumption DEF ObjectIds
<1>2. IsFiniteSet(ObjectIds \X (1 .. MaxObjectGeneration))
  BY <1>1, FS_Product
<1> DEFINE f == [r \in ObjectRefs |-> <<r.id, r.generation>>]
<1>3. f \in Injection(ObjectRefs, ObjectIds \X (1 .. MaxObjectGeneration))
  BY DEF Injection, IsInjective, ObjectRefs
<1>4. IsFiniteSet(ObjectRefs)
  BY <1>2, <1>3, FS_Injection
<1> QED
  BY <1>4, FS_Subset, FS_CardinalityType

(* A reference that was given out stays given out.                         *)
LEMMA BornGrows ==
  ASSUME KernelOK, StepOK
  PROVE  Born \subseteq Born'
<1> SUFFICES ASSUME NEW r \in Born PROVE r \in Born'
  OBVIOUS
<1>1. r \in ObjectRefs /\ r.id \in ObjectIds /\ r.generation \in Nat
  BY KernelNamesAssumption DEF Born, ObjectRefs
<1>2. generations[r.id] \in Nat /\ generations'[r.id] \in Nat
  BY <1>1, KernelNamesAssumption DEF KernelOK, StepOK
<1>3. r.generation < generations'[r.id] \/ Live(r)'
  BY <1>1, <1>2 DEF Born, Live, StepOK, ObjectsKept
<1> QED
  BY <1>1, <1>3 DEF Born, Live

(* Every object that is paid for is one more that was given out.           *)
LEMMA BuysAddToBorn ==
  ASSUME KernelOK, StepOK, NEW p \in ProcessIds, NEW N \in SUBSET ObjectIds,
         Creates(p, N), Charges(p, N), Cardinality(Units) <= Cardinality(Born)
  PROVE  Cardinality(Units)' <= Cardinality(Born)'
<1>1. PICK s \in Int : s = SpentBy(p)
  BY SpentIsNumber
<1>2. PICK n \in Nat : n = Cardinality(N) /\ IsFiniteSet(N)
  BY IdsFinite
<1> DEFINE paid == {p} \X (s + 1 .. s + n)
           M == {r \in ObjectRefs : r.id \in N /\ r = RefTo(r.id)}
<1>3. IsFiniteSet(paid) /\ Cardinality(paid) = n
  <2>1. IsFiniteSet(s + 1 .. s + n) /\ Cardinality(s + 1 .. s + n) = n
    BY FS_Interval
  <2>2. IsFiniteSet({p}) /\ Cardinality({p}) = 1
    BY FS_Singleton
  <2>3. IsFiniteSet(paid) /\ Cardinality(paid) = 1 * n
    BY <2>1, <2>2, FS_Product
  <2> QED
    BY <2>3
<1>4. Units' \subseteq Units \cup paid
  <2> SUFFICES ASSUME NEW q \in ProcessIds, NEW k \in 1 .. ObjectQuota, k <= SpentBy(q)'
               PROVE  <<q, k>> \in Units \cup paid
    BY DEF Units
  <2>1. CASE q # p
    <3>1. k <= SpentBy(q)
      BY <2>1, SpentIsNumber DEF Charges
    <3> QED
      BY <3>1 DEF Units
  <2>2. CASE q = p
    <3>1. k <= s + n
      BY <1>1, <1>2, <2>2 DEF Charges
    <3>2. CASE k <= s
      BY <1>1, <2>2, <3>2 DEF Units
    <3>3. CASE ~(k <= s)
      BY <2>2, <3>1, <3>3
    <3> QED
      BY <3>2, <3>3
  <2> QED
    BY <2>1, <2>2
<1>5. IsFiniteSet(M) /\ Cardinality(M) = n
  <2> DEFINE f == [id \in N |-> RefTo(id)]
  <2>1. \A id \in ObjectIds : RefTo(id) \in ObjectRefs /\ RefTo(id).id = id
    BY RefType DEF RefTo
  <2>2. f \in Bijection(N, M)
    BY <2>1 DEF Bijection, Injection, Surjection, IsInjective
  <2>3. ExistsBijection(N, M)
    BY <2>2 DEF ExistsBijection
  <2> QED
    BY <1>2, <2>3, FS_Bijection
<1>6. M \subseteq Born' /\ M \cap Born = {}
  <2> SUFFICES ASSUME NEW r \in M
               PROVE  r \in Born' /\ r \notin Born
    OBVIOUS
  <2>1. /\ r \in ObjectRefs /\ r.id \in N /\ r.generation = generations[r.id]
        /\ objects[r.id] = None /\ objects'[r.id] # None
        /\ generations'[r.id] = generations[r.id]
    BY DEF RefTo, Creates
  <2>2. generations[r.id] \in Nat
    BY <2>1, KernelNamesAssumption DEF KernelOK
  <2> QED
    BY <2>1, <2>2 DEF Born, Live
<1> HIDE DEF paid, M
<1>7. /\ IsFiniteSet(Units \cup paid) /\ Cardinality(Units \cup paid) \in Nat
      /\ Cardinality(Units \cap paid) \in Nat
      /\ Cardinality(Units \cup paid) = Cardinality(Units) + n - Cardinality(Units \cap paid)
  <2>1. IsFiniteSet(Units \cup paid) /\ IsFiniteSet(Units \cap paid)
    BY <1>3, UnitsFinite, FS_Union, FS_Intersection
  <2>2. Cardinality(Units \cup paid) = Cardinality(Units) + n - Cardinality(Units \cap paid)
    BY <1>3, UnitsFinite, FS_Union
  <2> QED
    BY <2>1, <2>2, FS_CardinalityType
<1>8. Cardinality(Units') <= Cardinality(Units \cup paid) /\ Cardinality(Units') \in Nat
  BY <1>4, <1>7, FS_Subset, FS_CardinalityType
<1>9. /\ IsFiniteSet(Born') /\ Cardinality(Born') \in Nat
      /\ IsFiniteSet(Born) /\ Cardinality(Born) \in Nat
  BY RefsFinite DEF Born
<1>10. /\ IsFiniteSet(Born \cup M) /\ Cardinality(Born \cup M) = Cardinality(Born) + n
  <2>1. Cardinality(Born \cap M) = 0
    <3>1. Born \cap M = {}
      BY <1>6
    <3> QED
      BY <3>1, FS_EmptySet
  <2>2. /\ IsFiniteSet(Born \cup M)
        /\ Cardinality(Born \cup M) = Cardinality(Born) + n - Cardinality(Born \cap M)
    BY <1>5, <1>9, FS_Union
  <2> QED
    BY <1>9, <2>1, <2>2
<1>11. Cardinality(Born \cup M) <= Cardinality(Born')
  BY <1>6, <1>9, BornGrows, FS_Subset
<1> QED
  BY <1>7, <1>8, <1>9, <1>10, <1>11, UnitsFinite

VainOK == ReferencesOK /\ NothingSpentInVain

(* No error branch keeps a unit of budget.                                 *)
LEMMA StepVain == VainOK /\ [Next]_vars => VainOK'
<1> SUFFICES ASSUME VainOK, [Next]_vars PROVE VainOK'
  OBVIOUS
<1>1. KernelOK /\ StepOK /\ ReferencesOK' /\ DerivedRightsShrink
  BY StepReferences, StepWellFormed, ChildrenAgree DEF VainOK, ReferencesOK
<1>2. Cardinality(Units) <= Cardinality(Born)
  BY DEF VainOK, NothingSpentInVain, Units
<1>3. ASSUME SpentStays
      PROVE  Cardinality(Units)' <= Cardinality(Born)'
  <2>1. Units' = Units
    BY <1>3 DEF SpentStays, Units
  <2>2. /\ IsFiniteSet(Born') /\ Cardinality(Born') \in Nat
        /\ Cardinality(Born) \in Nat
    BY RefsFinite DEF Born
  <2>3. Cardinality(Born) <= Cardinality(Born')
    BY <1>1, <2>2, BornGrows, FS_Subset
  <2> QED
    BY <1>2, <2>1, <2>2, <2>3, UnitsFinite
<1>4. Cardinality(Units)' <= Cardinality(Born)'
  BY <1>1, <1>2, <1>3, StepCharges, BuysAddToBorn DEF Buys
<1> QED
  BY <1>1, <1>4 DEF VainOK, NothingSpentInVain, Units

(* The units of budget that are gone are no more than the objects there    *)
(* are or were: whatever a create call had reserved when it failed has     *)
(* come back.                                                              *)
THEOREM FailuresCostNothing == Spec => []NothingSpentInVain
<1>1. Init => VainOK
  <2> SUFFICES ASSUME Init PROVE VainOK
    OBVIOUS
  <2>1. Units = {}
    BY DEF Units, SpentBy, Running, Init
  <2>2. Cardinality(Units) = 0
    BY <2>1, FS_EmptySet
  <2>3. Cardinality(Born) \in Nat
    BY RefsFinite DEF Born
  <2>4. Cardinality(Units) <= Cardinality(Born)
    BY <2>2, <2>3
  <2> QED
    BY <2>4, InitReferences DEF VainOK, NothingSpentInVain, Units
<1>2. VainOK => NothingSpentInVain
  BY DEF VainOK
<1> QED
  BY <1>1, <1>2, StepVain, PTL DEF Spec

=============================================================================
