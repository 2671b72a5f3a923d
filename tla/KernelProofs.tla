----------------------------- MODULE KernelProofs -----------------------------
(***************************************************************************)
(* Why the kernel's state stays well formed, for tables, queues and        *)
(* quotas of any size: what the operations on handle tables, channel       *)
(* endpoints and address spaces return, and that every call keeps the      *)
(* state so.                                                               *)
(*                                                                         *)
(* The type invariant is not inductive: the code subtracts one from        *)
(* queued_messages, mapping_count and pending_count without a check, so    *)
(* that they stay natural numbers only because each is the number of       *)
(* occupied slots it stands for.  KernelOK adds that to the types.         *)
(***************************************************************************)
EXTENDS KernelInvariants, FrameLemmas

-----------------------------------------------------------------------------
(* Handle tables.                                                          *)

(* The slots are a finite set of natural numbers.                          *)
LEMMA SlotsFinite == Slots \subseteq Nat /\ IsFiniteSet(Slots)
<1>1. HandleCapacity - 1 \in Int
  BY HandleTableAssumption
<1>2. IsFiniteSet(0 .. HandleCapacity - 1)
  BY <1>1, FS_Interval
<1> QED
  BY <1>2 DEF Slots

(* A new table is one.                                                     *)
LEMMA EmptyTableType == EmptyTable \in Tables
BY HandleTableAssumption DEF EmptyTable, Tables

(* The handle value of a slot is one, however many generations the slot    *)
(* has been through.                                                       *)
LEMMA HandleOfType ==
  ASSUME NEW t \in Tables, NEW i \in Slots
  PROVE  HandleOf(t, i) \in HandleValues
<1>1. t.generation[i] \in Nat
  BY HandleTableAssumption DEF Tables
<1>2. t.generation[i] % GenerationModulus \in 0 .. GenerationModulus - 1
  BY <1>1, HandleTableAssumption
<1> QED
  BY <1>2 DEF HandleOf, HandleValues

(* Putting an entry into a table.                                          *)
LEMMA PutEntryType ==
  ASSUME NEW t \in Tables, NEW e \in Entries
  PROVE  PutEntry(t, e) \in Tables
<1> DEFINE s == First(FreeSlots(t))
<1>1. PutEntry(t, e) = [t EXCEPT !.entry[s] = e]
  BY DEF PutEntry
<1> HIDE DEF s
<1> QED
  BY <1>1 DEF Tables

(* A slot that is put into was empty, and no slot changes its generation.  *)
LEMMA PutEntryKeeps ==
  ASSUME NEW t \in Tables, NEW e \in Entries, FreeSlots(t) # {}, NEW i \in Slots
  PROVE  /\ PutEntry(t, e).generation[i] = t.generation[i]
         /\ PutEntry(t, e).entry[i] = t.entry[i] \/ t.entry[i] = None
<1> DEFINE s == First(FreeSlots(t))
<1>1. s \in FreeSlots(t)
  <2>1. FreeSlots(t) \in SUBSET Nat
    BY SlotsFinite DEF FreeSlots
  <2> QED
    BY <2>1, FirstIsLeast
<1>2. PutEntry(t, e) = [t EXCEPT !.entry[s] = e]
  BY DEF PutEntry
<1>3. t.entry[s] = None
  BY <1>1 DEF FreeSlots, Occupied
<1> HIDE DEF s
<1> QED
  BY <1>2, <1>3 DEF Tables

(* The first free slot is the one that is put into.                        *)
LEMMA PutEntrySlot ==
  ASSUME NEW t \in Tables, NEW e \in Entries, FreeSlots(t) # {}
  PROVE  /\ First(FreeSlots(t)) \in Slots /\ t.entry[First(FreeSlots(t))] = None
         /\ \A i \in Slots :
              PutEntry(t, e).entry[i] = IF i = First(FreeSlots(t)) THEN e ELSE t.entry[i]
         /\ PutEntry(t, e).generation = t.generation
<1> DEFINE s == First(FreeSlots(t))
<1>1. s \in FreeSlots(t)
  <2>1. FreeSlots(t) \in SUBSET Nat
    BY SlotsFinite DEF FreeSlots
  <2> QED
    BY <2>1, FirstIsLeast
<1>2. PutEntry(t, e) = [t EXCEPT !.entry[s] = e]
  BY DEF PutEntry
<1> HIDE DEF s
<1>3. s \in Slots /\ t.entry[s] = None
  BY <1>1 DEF FreeSlots, Occupied
<1>4. /\ \A i \in Slots : PutEntry(t, e).entry[i] = IF i = s THEN e ELSE t.entry[i]
      /\ PutEntry(t, e).generation = t.generation
  BY <1>2, <1>3 DEF Tables
<1> QED
  BY <1>3, <1>4 DEF s

(* The rank of a free slot that the message reaches is one of its indices. *)
LEMMA FreeRankIndex ==
  ASSUME NEW t \in Tables, NEW i \in FreeSlots(t)
  PROVE  FreeRank(t, i) \in Nat /\ FreeRank(t, i) > 0
<1> DEFINE S == {j \in FreeSlots(t) : j <= i}
<1>1. FreeSlots(t) \subseteq Slots
  BY DEF FreeSlots
<1>2. IsFiniteSet(S)
  BY <1>1, SlotsFinite, FS_Subset
<1>3. i \in S
  <2>1. i \in Nat
    BY <1>1, SlotsFinite
  <2>2. i <= i
    BY <2>1
  <2> QED
    BY <2>2
<1>4. Cardinality(S) \in Nat /\ Cardinality(S) # 0
  BY <1>2, <1>3, FS_CardinalityType, FS_EmptySet
<1> QED
  BY <1>4 DEF FreeRank

(* The ranks of the free slots number them from one on.                    *)
LEMMA FreeRanks ==
  ASSUME NEW t \in Tables
  PROVE  /\ Cardinality(FreeSlots(t)) \in Nat
         /\ [i \in FreeSlots(t) |-> FreeRank(t, i)]
              \in Bijection(FreeSlots(t), 1 .. Cardinality(FreeSlots(t)))
<1> DEFINE F == FreeSlots(t)
           UpTo(i) == {j \in F : j <= i}
           f == [i \in F |-> FreeRank(t, i)]
<1>1. F \subseteq Nat /\ IsFiniteSet(F)
  <2>1. F \in SUBSET Slots
    BY DEF FreeSlots
  <2> QED
    BY <2>1, SlotsFinite, FS_Subset
<1>2. Cardinality(F) \in Nat
  BY <1>1, FS_CardinalityType
<1>3. ASSUME NEW i \in F
      PROVE  /\ IsFiniteSet(UpTo(i)) /\ i \in UpTo(i) /\ f[i] = Cardinality(UpTo(i))
             /\ f[i] \in 1 .. Cardinality(F)
  <2>1. IsFiniteSet(UpTo(i)) /\ Cardinality(UpTo(i)) <= Cardinality(F)
    <3>1. UpTo(i) \in SUBSET F
      OBVIOUS
    <3> HIDE DEF F, UpTo
    <3> QED
      BY <1>1, <3>1, FS_Subset
  <2>2. i \in UpTo(i)
    BY <1>1
  <2>3. f[i] = Cardinality(UpTo(i)) /\ f[i] = FreeRank(t, i)
    BY DEF FreeRank
  <2>4. FreeRank(t, i) \in Nat /\ FreeRank(t, i) > 0
    BY FreeRankIndex
  <2> QED
    BY <1>2, <2>1, <2>2, <2>3, <2>4
<1>4. ASSUME NEW i \in F, NEW j \in F, i < j
      PROVE  f[i] # f[j]
  <2>1. UpTo(i) \in SUBSET UpTo(j) /\ j \in UpTo(j) /\ j \notin UpTo(i)
    BY <1>1, <1>4
  <2>2. UpTo(i) # UpTo(j)
    BY <2>1
  <2>3. IsFiniteSet(UpTo(j))
    BY <1>3
  <2>4. Cardinality(UpTo(i)) # Cardinality(UpTo(j))
    <3> HIDE DEF UpTo
    <3> QED
      BY <2>1, <2>2, <2>3, FS_Subset
  <2> QED
    BY <1>3, <2>4
<1>5. f \in Injection(F, 1 .. Cardinality(F))
  <2>1. \A i, j \in F : f[i] = f[j] => i = j
    <3> SUFFICES ASSUME NEW i \in F, NEW j \in F, i # j PROVE f[i] # f[j]
      OBVIOUS
    <3>1. i < j \/ j < i
      BY <1>1
    <3> QED
      BY <1>4, <3>1
  <2>2. f \in [F -> 1 .. Cardinality(F)]
    BY <1>3
  <2> QED
    BY <2>1, <2>2 DEF Injection, IsInjective
<1>6. f \in Surjection(F, 1 .. Cardinality(F))
  <2>1. IsFiniteSet(1 .. Cardinality(F)) /\ Cardinality(1 .. Cardinality(F)) = Cardinality(F)
    BY <1>2, FS_Interval
  <2> HIDE DEF f, F
  <2> QED
    BY <1>5, <2>1, FS_Injection
<1> QED
  BY <1>2, <1>5, <1>6 DEF Bijection

(* The entries of a message go into a table.                               *)
LEMMA PutEntriesType ==
  ASSUME NEW t \in Tables, NEW es \in Seq(Entries)
  PROVE  PutEntries(t, es) \in Tables
<1>1. ASSUME NEW i \in FreeSlots(t), FreeRank(t, i) <= Len(es)
      PROVE  es[FreeRank(t, i)] \in Entries
  <2>1. FreeRank(t, i) \in 1 .. Len(es)
    BY <1>1, FreeRankIndex
  <2> QED
    BY <2>1
<1> DEFINE entry == [i \in Slots |->
                       IF i \in FreeSlots(t) /\ FreeRank(t, i) <= Len(es)
                       THEN es[FreeRank(t, i)]
                       ELSE t.entry[i]]
<1>2. entry \in [Slots -> Entries \cup {None}]
  BY <1>1 DEF Tables
<1>3. PutEntries(t, es) = [t EXCEPT !.entry = entry]
  BY DEF PutEntries
<1> HIDE DEF entry
<1> QED
  BY <1>2, <1>3 DEF Tables

(* They go into empty slots.                                               *)
LEMMA PutEntriesKeeps ==
  ASSUME NEW t \in Tables, NEW es, NEW i \in Slots
  PROVE  /\ PutEntries(t, es).generation[i] = t.generation[i]
         /\ PutEntries(t, es).entry[i] = t.entry[i] \/ t.entry[i] = None
<1> DEFINE entry == [j \in Slots |->
                       IF j \in FreeSlots(t) /\ FreeRank(t, j) <= Len(es)
                       THEN es[FreeRank(t, j)]
                       ELSE t.entry[j]]
<1>1. PutEntries(t, es) = [t EXCEPT !.entry = entry]
  BY DEF PutEntries
<1>2. PutEntries(t, es).generation = t.generation /\ PutEntries(t, es).entry = entry
  <2> HIDE DEF entry
  <2> QED
    BY <1>1 DEF Tables
<1>3. entry[i] = t.entry[i] \/ t.entry[i] = None
  BY DEF FreeSlots, Occupied
<1> QED
  BY <1>2, <1>3

(* What a slot holds after a message was received: what it held, or, if it *)
(* was empty, one of the entries of the message.                           *)
LEMMA PutEntriesSlot ==
  ASSUME NEW t \in Tables, NEW es \in Seq(Entries), NEW i \in Slots
  PROVE  PutEntries(t, es).entry[i] =
           IF i \in FreeSlots(t) /\ FreeRank(t, i) \in DOMAIN es
           THEN es[FreeRank(t, i)] ELSE t.entry[i]
<1> DEFINE entry == [j \in Slots |->
                       IF j \in FreeSlots(t) /\ FreeRank(t, j) <= Len(es)
                       THEN es[FreeRank(t, j)]
                       ELSE t.entry[j]]
<1>1. PutEntries(t, es) = [t EXCEPT !.entry = entry]
  BY DEF PutEntries
<1>2. PutEntries(t, es).entry = entry
  <2> HIDE DEF entry
  <2> QED
    BY <1>1 DEF Tables
<1>3. entry[i] = IF i \in FreeSlots(t) /\ FreeRank(t, i) \in DOMAIN es
                 THEN es[FreeRank(t, i)] ELSE t.entry[i]
  BY FreeRankIndex
<1> QED
  BY <1>2, <1>3

(* Taking entries out.                                                     *)
LEMMA RemoveEntriesType ==
  ASSUME NEW t \in Tables, NEW S, CanRemove(t, S)
  PROVE  RemoveEntries(t, S) \in Tables
<1>1. ASSUME NEW i \in Slots, i \in S
      PROVE  t.generation[i] + 1 \in 1 .. MaxHandleGeneration
  BY <1>1, HandleTableAssumption DEF CanRemove, Tables
<1> QED
  BY <1>1 DEF RemoveEntries, Tables

(* A slot either keeps its entry or starts a new generation.               *)
LEMMA RemoveEntriesKeeps ==
  ASSUME NEW t \in Tables, NEW S, NEW i \in Slots
  PROVE  \/ RemoveEntries(t, S).generation[i] > t.generation[i]
         \/ /\ RemoveEntries(t, S).generation[i] = t.generation[i]
            /\ RemoveEntries(t, S).entry[i] = t.entry[i]
<1>1. t.generation[i] \in Int
  BY DEF Tables
<1> QED
  BY <1>1 DEF RemoveEntries

(* The entry duplicate installs.                                           *)
LEMMA DerivedEntryType ==
  ASSUME NEW t \in Tables, NEW source \in Occupied(t), NEW rights,
         CanDerive(t, source, rights)
  PROVE  DerivedEntry(t, source, rights) \in Entries
<1>1. source \in Slots /\ t.entry[source] \in Entries
  BY DEF Occupied, Tables
<1>2. HandleOf(t, source) \in HandleValues
  BY <1>1, HandleOfType
<1>3. rights \subseteq HandleRights
  BY <1>1 DEF CanDerive, Entries
<1> QED
  BY <1>1, <1>2, <1>3 DEF DerivedEntry, Entries

(* revoke_descendants finds no more than what must be found: every set of  *)
(* slots that has the children of the root, and the children of its own    *)
(* slots, has all of them.                                                 *)
LEMMA DescendantsLeast ==
  ASSUME NEW t, NEW root, NEW D,
         \A j \in Slots :
           Child(t, root, j) /\ t.entry[j].object = t.entry[root].object => j \in D,
         \A i \in D, j \in Slots : Child(t, i, j) => j \in D
  PROVE  Descendants(t, root) \subseteq D
<1> DEFINE
      Start == {j \in Slots : Child(t, root, j) /\ t.entry[j].object = t.entry[root].object}
      Round(near) == near \cup {j \in Slots : \E i \in near : Child(t, i, j)}
      Value(f, n) == IF n = 0 THEN Start ELSE Round(f[n - 1])
      Within[n \in 0 .. HandleCapacity] ==
        IF n = 0
        THEN {j \in Slots : Child(t, root, j) /\ t.entry[j].object = t.entry[root].object}
        ELSE LET nearer == Within[n - 1]
             IN  nearer \cup {j \in Slots : \E i \in nearer : Child(t, i, j)}
<1>1. Within = CHOOSE f : f = [n \in 0 .. HandleCapacity |-> Value(f, n)]
  OBVIOUS
<1>2. Descendants(t, root) = {j \in Slots : j \in Within[HandleCapacity]}
  BY DEF Descendants
<1> HIDE DEF Within
<1>3. \E f : f = [n \in 0 .. HandleCapacity |-> Value(f, n)]
  <2> DEFINE Exists(k) == \E f : f = [n \in 0 .. k |-> Value(f, n)]
             Bad == {k \in Nat : ~Exists(k)}
  <2>1. Exists(0)
    <3>1. [n \in 0 .. 0 |-> Start] = [n \in 0 .. 0 |-> Value([m \in 0 .. 0 |-> Start], n)]
      OBVIOUS
    <3> QED
      BY <3>1
  <2>2. ASSUME NEW k \in Nat, Exists(k)
        PROVE  Exists(k + 1)
    <3>1. PICK f : f = [n \in 0 .. k |-> Value(f, n)]
      BY <2>2
    <3> HIDE DEF Start, Round
    <3> DEFINE g == [n \in 0 .. k + 1 |-> IF n <= k THEN f[n] ELSE Round(f[k])]
    <3>2. ASSUME NEW n \in 0 .. k + 1
          PROVE  g[n] = Value(g, n)
      <4>1. CASE n = 0
        BY <3>1, <4>1
      <4>2. CASE n # 0 /\ n <= k
        <5>1. n - 1 \in 0 .. k /\ n \in 0 .. k /\ n - 1 \in 0 .. k + 1
          BY <4>2
        <5>2. g[n - 1] = f[n - 1] /\ g[n] = f[n] /\ f[n] = Value(f, n)
          BY <3>1, <5>1, <4>2
        <5> QED
          BY <4>2, <5>2
      <4>3. CASE n = k + 1
        <5>1. g[k] = f[k] /\ g[n] = Round(f[k])
          BY <4>3
        <5> QED
          BY <4>3, <5>1
      <4> QED
        BY <4>1, <4>2, <4>3
    <3>3. g = [n \in 0 .. k + 1 |-> Value(g, n)]
      BY <3>2
    <3> QED
      BY <3>3
  <2> HIDE DEF Exists
  <2>3. Bad = {}
    <3> SUFFICES ASSUME Bad # {} PROVE FALSE
      OBVIOUS
    <3>1. PICK k \in Bad : \A m \in Bad : k <= m
      BY LeastExists
    <3>2. k # 0 /\ k - 1 \in Nat /\ k - 1 \notin Bad
      BY <2>1, <3>1
    <3> QED
      BY <2>2, <3>1, <3>2
  <2>4. Exists(HandleCapacity)
    BY <2>3, HandleTableAssumption
  <2> QED
    BY <2>4 DEF Exists
<1>4. Within = [n \in 0 .. HandleCapacity |-> Value(Within, n)]
  <2> HIDE DEF Value
  <2> QED
    BY <1>1, <1>3
<1>5. \A n \in 0 .. HandleCapacity : Within[n] \subseteq D
  <2> DEFINE Bad == {n \in 0 .. HandleCapacity : ~(Within[n] \subseteq D)}
  <2> SUFFICES ASSUME Bad # {} PROVE FALSE
    OBVIOUS
  <2>0. Bad \in SUBSET Nat
    BY HandleTableAssumption
  <2>1. PICK k \in Bad : \A m \in Bad : k <= m
    <3> HIDE DEF Bad
    <3> QED
      BY <2>0, LeastExists
  <2>2. CASE k = 0
    BY <1>4, <2>1, <2>2
  <2>3. CASE k # 0
    <3>1. k - 1 \in 0 .. HandleCapacity /\ k - 1 \notin Bad /\ k \in 0 .. HandleCapacity
      BY <2>1, <2>3, HandleTableAssumption
    <3>2. Within[k - 1] \subseteq D
      BY <3>1
    <3>3. Within[k] = Round(Within[k - 1])
      BY <1>4, <2>3, <3>1
    <3>4. Within[k] \subseteq D
      BY <3>2, <3>3
    <3> QED
      BY <2>1, <3>4
  <2> QED
    BY <2>2, <2>3
<1> QED
  BY <1>2, <1>5, HandleTableAssumption

-----------------------------------------------------------------------------
(* Counted slots.                                                          *)

WellFormedEndpoint(e) == e \in Endpoints /\ ConsistentQueue(e)

WellFormedSpace(s) == s \in AddressSpaces /\ ConsistentSpace(s)

(* The occupied slots of a table are counted by a natural number.          *)
LEMMA SlotsCount ==
  ASSUME NEW n \in Nat, NEW S \in SUBSET (1 .. n)
  PROVE  IsFiniteSet(S) /\ Cardinality(S) \in Nat /\ (S # {} => Cardinality(S) > 0)
<1>1. IsFiniteSet(1 .. n)
  BY FS_Interval
<1>2. IsFiniteSet(S)
  BY <1>1, FS_Subset
<1>3. Cardinality(S) \in Nat
  BY <1>2, FS_CardinalityType
<1>4. Cardinality(S) = 0 <=> S = {}
  BY <1>2, FS_EmptySet
<1>5. S # {} => Cardinality(S) # 0
  BY <1>4
<1> QED
  BY <1>2, <1>3, <1>5

(* The first free slot of a table is one of its free slots.                *)
LEMMA FirstFree ==
  ASSUME NEW n \in Nat, NEW slots, FreeIn(slots, 1 .. n) # {}
  PROVE  First(FreeIn(slots, 1 .. n)) \in 1 .. n /\ slots[First(FreeIn(slots, 1 .. n))] = None
<1>1. FreeIn(slots, 1 .. n) \in SUBSET Nat
  BY DEF FreeIn
<1>2. First(FreeIn(slots, 1 .. n)) \in FreeIn(slots, 1 .. n)
  BY <1>1, FirstIsLeast
<1> QED
  BY <1>2 DEF FreeIn

-----------------------------------------------------------------------------
(* Endpoints.                                                              *)

(* A new endpoint is well formed.                                          *)
LEMMA NewEndpointWellFormed ==
  ASSUME NEW max \in 0 .. MaxChannelMessages
  PROVE  WellFormedEndpoint(NewEndpoint(max))
<1>1. Waiting(NewEndpoint(max)) = {}
  BY DEF Waiting, NewEndpoint
<1>2. Cardinality(Waiting(NewEndpoint(max))) = 0
  BY <1>1, FS_EmptySet
<1>3. NewEndpoint(max) \in Endpoints
  BY DEF NewEndpoint, Endpoints
<1>4. NewEndpoint(max).queued = 0 /\ NewEndpoint(max).max = max
  BY DEF NewEndpoint
<1> QED
  BY <1>2, <1>3, <1>4, ChannelAssumption DEF WellFormedEndpoint, ConsistentQueue

(* Linking an endpoint to its peer, and telling it that the peer is gone,  *)
(* do not touch the queue.                                                 *)
LEMMA PeerChangeWellFormed ==
  ASSUME NEW e, WellFormedEndpoint(e), NEW peer \in ObjectRefs
  PROVE  /\ WellFormedEndpoint([e EXCEPT !.peer = peer])
         /\ WellFormedEndpoint([e EXCEPT !.peerClosed = TRUE])
<1>1. [e EXCEPT !.peer = peer] \in Endpoints
  BY DEF WellFormedEndpoint, Endpoints
<1>2. [e EXCEPT !.peerClosed = TRUE] \in Endpoints
  BY DEF WellFormedEndpoint, Endpoints
<1>3. ConsistentQueue([e EXCEPT !.peer = peer])
  BY DEF WellFormedEndpoint, ConsistentQueue, Waiting, Endpoints
<1>4. ConsistentQueue([e EXCEPT !.peerClosed = TRUE])
  BY DEF WellFormedEndpoint, ConsistentQueue, Waiting, Endpoints
<1> QED
  BY <1>1, <1>2, <1>3, <1>4 DEF WellFormedEndpoint

(* A message goes into an empty slot and is counted.                       *)
LEMMA EnqueueWellFormed ==
  ASSUME NEW e, WellFormedEndpoint(e), CanEnqueue(e), NEW message \in Messages
  PROVE  WellFormedEndpoint(Enqueue(e, message))
<1> DEFINE s == First(FreeIn(e.messages, MessageSlots))
           e2 == Enqueue(e, message)
<1>1. s \in MessageSlots /\ e.messages[s] = None
  BY FirstFree, ChannelAssumption DEF CanEnqueue, MessageSlots
<1>2. e2 = [e EXCEPT !.messages[s] = message, !.queued = @ + 1]
  BY DEF Enqueue
<1> HIDE DEF s, e2
<1>3. e \in Endpoints /\ e.queued \in Nat /\ e.max \in Nat
  BY ChannelAssumption DEF WellFormedEndpoint, Endpoints
<1>4. e2 \in Endpoints
  <2>1. e.queued + 1 \in Nat
    BY <1>3
  <2>2. [e.messages EXCEPT ![s] = message] \in [MessageSlots -> Messages \cup {None}]
    BY <1>1, <1>3 DEF Endpoints
  <2>3. e2 = [e EXCEPT !.messages = [e.messages EXCEPT ![s] = message],
                       !.queued = e.queued + 1]
    BY <1>2, <1>3 DEF Endpoints
  <2> QED
    BY <1>3, <2>1, <2>2, <2>3 DEF Endpoints
<1>5. e2.queued = e.queued + 1 /\ e2.max = e.max
  BY <1>2, <1>3 DEF Endpoints
<1>6. Waiting(e2) = Waiting(e) \cup {s} /\ s \notin Waiting(e)
  BY <1>1, <1>2, <1>3, NoneIsNoMessage DEF Waiting, Endpoints
<1>7. IsFiniteSet(Waiting(e))
  BY SlotsCount, ChannelAssumption DEF Waiting, MessageSlots
<1>8. Cardinality(Waiting(e2)) = Cardinality(Waiting(e)) + 1
  BY <1>6, <1>7, FS_AddElement
<1>9. e.queued = Cardinality(Waiting(e)) /\ e.queued <= e.max /\ e.queued # e.max
  BY DEF WellFormedEndpoint, ConsistentQueue, CanEnqueue
<1>10. e2.queued = Cardinality(Waiting(e2)) /\ e2.queued <= e2.max
  BY <1>3, <1>5, <1>8, <1>9
<1> QED
  BY <1>4, <1>10 DEF WellFormedEndpoint, ConsistentQueue, e2

(* A message that is taken leaves its slot and the count, and was one the  *)
(* type of the queue promises.                                             *)
LEMMA DequeueWellFormed ==
  ASSUME NEW e, WellFormedEndpoint(e), Waiting(e) # {}
  PROVE  WellFormedEndpoint(Dequeue(e)) /\ NextMessage(e) \in Messages
<1> DEFINE s == First(Waiting(e))
           e2 == Dequeue(e)
<1>1. s \in Waiting(e)
  <2>1. Waiting(e) \in SUBSET Nat
    BY DEF Waiting, MessageSlots
  <2> QED
    BY <2>1, FirstIsLeast
<1>2. e2 = [e EXCEPT !.messages[s] = None, !.queued = @ - 1]
  BY DEF Dequeue
<1>3. NextMessage(e) = e.messages[s]
  BY DEF NextMessage
<1> HIDE DEF s, e2
<1>4. e \in Endpoints /\ e.queued \in Nat /\ e.max \in Nat
  BY ChannelAssumption DEF WellFormedEndpoint, Endpoints
<1>5. IsFiniteSet(Waiting(e)) /\ Cardinality(Waiting(e)) > 0
  BY <1>1, SlotsCount, ChannelAssumption DEF Waiting, MessageSlots
<1>6. e.queued = Cardinality(Waiting(e)) /\ e.queued <= e.max
  BY DEF WellFormedEndpoint, ConsistentQueue
<1>7. e.queued - 1 \in Nat
  BY <1>4, <1>5, <1>6
<1>8. e2 \in Endpoints
  BY <1>2, <1>4, <1>7 DEF Endpoints
<1>9. e2.queued = e.queued - 1 /\ e2.max = e.max
  BY <1>2, <1>4 DEF Endpoints
<1>10. Waiting(e2) = Waiting(e) \ {s}
  BY <1>1, <1>2, <1>4 DEF Waiting, Endpoints
<1>11. Cardinality(Waiting(e2)) = Cardinality(Waiting(e)) - 1
  BY <1>1, <1>5, <1>10, FS_RemoveElement
<1>12. WellFormedEndpoint(e2)
  BY <1>4, <1>6, <1>8, <1>9, <1>11 DEF WellFormedEndpoint, ConsistentQueue
<1>13. e.messages[s] \in Messages
  BY <1>1, <1>4 DEF Waiting, Endpoints
<1> QED
  BY <1>3, <1>12, <1>13 DEF e2

-----------------------------------------------------------------------------
(* Address spaces.                                                         *)

(* The types of what an address space is made of.                          *)
LEMMA SpaceParts ==
  ASSUME NEW a, WellFormedSpace(a)
  PROVE  /\ a \in AddressSpaces
         /\ a.count \in Nat /\ a.pending \in Nat
         /\ a.nextSequence \in Nat /\ a.nextSequence <= MaxSequence
         /\ \A i \in Mapped(a) : i \in RangeSlots /\ a.mappings[i] \in Mappings
         /\ \A i \in Owed(a) : /\ i \in WorkSlots
                               /\ a.work[i] \in Invalidations
                               /\ a.work[i].sequence \in Nat
         /\ IsFiniteSet(Mapped(a)) /\ IsFiniteSet(Owed(a))
         /\ Mapped(a) # {} => a.count > 0
         /\ Owed(a) # {} => a.pending > 0
<1>1. a \in AddressSpaces /\ ConsistentSpace(a)
  BY DEF WellFormedSpace
<1>2. a.nextSequence \in Nat /\ a.nextSequence <= MaxSequence
  BY <1>1, AddressSpaceAssumption DEF AddressSpaces
<1>3. \A i \in Mapped(a) : i \in RangeSlots /\ a.mappings[i] \in Mappings
  BY <1>1 DEF AddressSpaces, Mapped
<1>4. ASSUME NEW i \in Owed(a)
      PROVE  i \in WorkSlots /\ a.work[i] \in Invalidations /\ a.work[i].sequence \in Nat
  <2>1. i \in WorkSlots /\ a.work[i] \in Invalidations
    BY <1>1 DEF AddressSpaces, Owed
  <2> QED
    BY <2>1, AddressSpaceAssumption DEF Invalidations
<1>5. /\ IsFiniteSet(Mapped(a)) /\ IsFiniteSet(Owed(a))
      /\ Mapped(a) # {} => Cardinality(Mapped(a)) > 0
      /\ Owed(a) # {} => Cardinality(Owed(a)) > 0
  BY SlotsCount, AddressSpaceAssumption DEF Mapped, Owed, RangeSlots, WorkSlots
<1>6. a.count = Cardinality(Mapped(a)) /\ a.pending = Cardinality(Owed(a))
  BY <1>1 DEF ConsistentSpace
<1>7. a.count \in Nat /\ a.pending \in Nat
  BY <1>1 DEF AddressSpaces
<1> QED
  BY <1>1, <1>2, <1>3, <1>4, <1>5, <1>6, <1>7

(* A new address space is well formed.                                     *)
LEMMA NewAddressSpaceWellFormed == WellFormedSpace(NewAddressSpace)
<1>1. Mapped(NewAddressSpace) = {} /\ Owed(NewAddressSpace) = {}
  BY DEF Mapped, Owed, NewAddressSpace
<1>2. NewAddressSpace \in AddressSpaces
  BY AddressSpaceAssumption DEF NewAddressSpace, AddressSpaces
<1>3. NewAddressSpace.count = 0 /\ NewAddressSpace.pending = 0
  BY DEF NewAddressSpace
<1> QED
  BY <1>1, <1>2, <1>3, FS_EmptySet DEF WellFormedSpace, ConsistentSpace

(* A mapping that overlaps none goes into an empty slot.                   *)
LEMMA CommitMapWellFormed ==
  ASSUME NEW a, WellFormedSpace(a), NEW memory, NEW m \in Mappings, CanMap(a, memory, m)
  PROVE  WellFormedSpace(CommitMap(a, m))
<1> DEFINE s == First(FreeIn(a.mappings, RangeSlots))
           b == CommitMap(a, m)
<1>1. s \in RangeSlots /\ a.mappings[s] = None
  BY FirstFree, AddressSpaceAssumption DEF CanMap, RangeSlots
<1>2. b = [a EXCEPT !.mappings[s] = m, !.count = @ + 1]
  BY DEF CommitMap
<1>3. ConsistentSpace(a)
  BY DEF WellFormedSpace
<1>4. \A i \in RangeSlots : a.mappings[i] # None => ~Overlaps(m, a.mappings[i])
  BY DEF CanMap
<1> HIDE DEF s, b
<1>5. /\ a \in AddressSpaces /\ a.count \in Nat
      /\ IsFiniteSet(Mapped(a))
      /\ \A i \in Mapped(a) : a.mappings[i] \in Mappings
  BY SpaceParts
<1>6. /\ b = [a EXCEPT !.mappings = [a.mappings EXCEPT ![s] = m], !.count = a.count + 1]
      /\ a.count + 1 \in Nat
      /\ [a.mappings EXCEPT ![s] = m] \in [RangeSlots -> Mappings \cup {None}]
  BY <1>1, <1>2, <1>5 DEF AddressSpaces
<1>7. /\ b \in AddressSpaces
      /\ b.mappings = [a.mappings EXCEPT ![s] = m] /\ b.count = a.count + 1
      /\ b.work = a.work /\ b.pending = a.pending /\ b.nextSequence = a.nextSequence
  BY <1>5, <1>6 DEF AddressSpaces
<1>8. a.mappings \in [RangeSlots -> Mappings \cup {None}]
  BY <1>5 DEF AddressSpaces
<1>9. Mapped(b) = Mapped(a) \cup {s} /\ s \notin Mapped(a)
  BY <1>1, <1>7, <1>8, NoneIsNoRange DEF Mapped
<1>10. Cardinality(Mapped(b)) = Cardinality(Mapped(a)) + 1
  BY <1>5, <1>9, FS_AddElement
<1>11. Owed(b) = Owed(a)
  BY <1>7 DEF Owed
<1>12. ASSUME NEW i \in Mapped(b), NEW j \in Mapped(b), i # j
       PROVE  ~Overlaps(b.mappings[i], b.mappings[j])
  <2>1. \A k \in Mapped(a) : /\ b.mappings[k] = a.mappings[k]
                            /\ k \in RangeSlots /\ a.mappings[k] # None
    BY <1>7, <1>8, <1>9 DEF Mapped
  <2>2. b.mappings[s] = m
    BY <1>1, <1>7, <1>8
  <2>3. \A k \in Mapped(a) : ~Overlaps(m, a.mappings[k]) /\ ~Overlaps(a.mappings[k], m)
    BY <1>4, <2>1 DEF Overlaps
  <2>4. i \in Mapped(a) /\ j \in Mapped(a) => ~Overlaps(a.mappings[i], a.mappings[j])
    BY <1>3, <1>12 DEF ConsistentSpace
  <2> QED
    BY <1>9, <1>12, <2>1, <2>2, <2>3, <2>4
<1>13. \A i \in Mapped(b) : EndOf(b.mappings[i]) < AddressLimit
  <2>1. \A i \in Mapped(a) : b.mappings[i] = a.mappings[i] /\ EndOf(a.mappings[i]) < AddressLimit
    BY <1>3, <1>7, <1>8, <1>9 DEF Mapped, ConsistentSpace
  <2>2. b.mappings[s] = m /\ EndOf(m) < AddressLimit
    BY <1>1, <1>7, <1>8 DEF CanMap, EndOf
  <2> QED
    BY <1>9, <2>1, <2>2
<1>14. ConsistentSpace(b)
  BY <1>3, <1>7, <1>10, <1>11, <1>12, <1>13 DEF ConsistentSpace
<1> QED
  BY <1>7, <1>14 DEF WellFormedSpace, b

(* An unmapped range leaves its slot; what it owes goes into an empty slot *)
(* under a number nothing pending has.                                     *)
LEMMA CommitUnmapWellFormed ==
  ASSUME NEW a, WellFormedSpace(a), NEW base, NEW size, CanUnmap(a, base, size),
         a.nextSequence < MaxSequence
  PROVE  WellFormedSpace(CommitUnmap(a, base, size))
<1> DEFINE i0 == First(Matching(a, base, size))
           s == First(FreeIn(a.work, WorkSlots))
           w == [ sequence |-> a.nextSequence,
                  memory   |-> a.mappings[i0].memory,
                  base     |-> a.mappings[i0].base,
                  size     |-> a.mappings[i0].size ]
           b == CommitUnmap(a, base, size)
<1>1. i0 \in Mapped(a) /\ i0 \in RangeSlots
  <2>1. Matching(a, base, size) \in SUBSET Nat
    BY DEF Matching, RangeSlots
  <2>2. i0 \in Matching(a, base, size)
    BY <2>1, FirstIsLeast DEF CanUnmap
  <2> QED
    BY <2>2 DEF Matching, Mapped
<1>2. s \in WorkSlots /\ a.work[s] = None
  BY FirstFree, AddressSpaceAssumption DEF CanUnmap, WorkSlots
<1>3. b = [ mappings     |-> [a.mappings EXCEPT ![i0] = None],
            count        |-> a.count - 1,
            work         |-> [a.work EXCEPT ![s] = w],
            pending      |-> a.pending + 1,
            nextSequence |-> a.nextSequence + 1 ]
  BY DEF CommitUnmap
<1>4. ConsistentSpace(a)
  BY DEF WellFormedSpace
<1>5. /\ a \in AddressSpaces /\ a.count \in Nat /\ a.pending \in Nat /\ a.nextSequence \in Nat
      /\ IsFiniteSet(Mapped(a)) /\ IsFiniteSet(Owed(a))
      /\ a.mappings[i0] \in Mappings
      /\ a.count > 0
      /\ \A k \in Owed(a) : a.work[k].sequence \in Nat /\ k \in WorkSlots
  BY <1>1, SpaceParts
<1>6. /\ a.mappings \in [RangeSlots -> Mappings \cup {None}]
      /\ a.work \in [WorkSlots -> Invalidations \cup {None}]
  BY <1>5 DEF AddressSpaces
<1>7. w \in Invalidations /\ w # None
  <2>1. a.nextSequence \in 0 .. MaxSequence
    BY <1>5 DEF AddressSpaces
  <2>2. /\ a.mappings[i0].memory \in ObjectRefs
        /\ a.mappings[i0].base \in Nat /\ a.mappings[i0].size \in Nat \ {0}
    BY <1>5 DEF Mappings
  <2> QED
    BY <2>1, <2>2, NoneIsNoRange DEF Invalidations
<1> HIDE DEF i0, s, b
<1>8. b \in AddressSpaces
  <2>1. [a.mappings EXCEPT ![i0] = None] \in [RangeSlots -> Mappings \cup {None}]
    BY <1>6
  <2>2. [a.work EXCEPT ![s] = w] \in [WorkSlots -> Invalidations \cup {None}]
    BY <1>6, <1>7
  <2>3. a.count - 1 \in Nat /\ a.pending + 1 \in Nat
    BY <1>5
  <2>4. a.nextSequence + 1 \in 0 .. MaxSequence
    BY <1>5, AddressSpaceAssumption
  <2> HIDE DEF w
  <2> QED
    BY <1>3, <2>1, <2>2, <2>3, <2>4 DEF AddressSpaces
<1>9. /\ b.mappings = [a.mappings EXCEPT ![i0] = None] /\ b.count = a.count - 1
      /\ b.work = [a.work EXCEPT ![s] = w] /\ b.pending = a.pending + 1
      /\ b.nextSequence = a.nextSequence + 1
  BY <1>3
<1>10. Mapped(b) = Mapped(a) \ {i0}
  BY <1>1, <1>6, <1>9 DEF Mapped
<1>11. Owed(b) = Owed(a) \cup {s} /\ s \notin Owed(a)
  <2> HIDE DEF w
  <2> QED
    BY <1>2, <1>6, <1>7, <1>9 DEF Owed
<1>12. /\ Cardinality(Mapped(b)) = Cardinality(Mapped(a)) - 1
       /\ Cardinality(Owed(b)) = Cardinality(Owed(a)) + 1
  <2>1. Cardinality(Mapped(b)) = Cardinality(Mapped(a)) - 1
    BY <1>1, <1>5, <1>10, FS_RemoveElement
  <2>2. Cardinality(Owed(b)) = Cardinality(Owed(a)) + 1
    BY <1>5, <1>11, FS_AddElement
  <2> QED
    BY <2>1, <2>2
<1>13. /\ \A i \in Mapped(b) : EndOf(b.mappings[i]) < AddressLimit
       /\ \A i, j \in Mapped(b) : i # j => ~Overlaps(b.mappings[i], b.mappings[j])
  <2>1. \A i \in Mapped(b) : i \in Mapped(a) /\ b.mappings[i] = a.mappings[i]
    BY <1>6, <1>9, <1>10 DEF Mapped
  <2> QED
    BY <1>4, <2>1 DEF ConsistentSpace
<1>14. ASSUME NEW i \in Owed(b), NEW j \in Owed(b)
       PROVE  /\ b.work[i].sequence < b.nextSequence
              /\ i # j => b.work[i].sequence # b.work[j].sequence
  <2>1. \A k \in Owed(a) : /\ b.work[k].sequence = a.work[k].sequence
                          /\ a.work[k].sequence < a.nextSequence
                          /\ a.work[k].sequence \in Nat
    BY <1>4, <1>5, <1>6, <1>9, <1>11 DEF ConsistentSpace
  <2>2. b.work[s].sequence = a.nextSequence
    BY <1>2, <1>6, <1>9
  <2>3. \A k, l \in Owed(a) : k # l => a.work[k].sequence # a.work[l].sequence
    BY <1>4 DEF ConsistentSpace
  <2> QED
    BY <1>5, <1>9, <1>11, <1>14, <2>1, <2>2, <2>3
<1>15. ConsistentSpace(b)
  BY <1>4, <1>9, <1>12, <1>13, <1>14 DEF ConsistentSpace
<1> QED
  BY <1>8, <1>15 DEF WellFormedSpace, b

(* A pending invalidation exists whenever take_next finds one, and taking  *)
(* it leaves the others.                                                   *)
LEMMA TakeWorkWellFormed ==
  ASSUME NEW a, WellFormedSpace(a), Owed(a) # {}
  PROVE  /\ NextWork(a) \in Owed(a) /\ WellFormedSpace(TakeWork(a))
         /\ \A j \in Owed(a) : a.work[NextWork(a)].sequence <= a.work[j].sequence
<1>1. /\ a \in AddressSpaces /\ a.pending \in Nat /\ a.pending > 0
      /\ IsFiniteSet(Owed(a))
      /\ \A i \in Owed(a) : a.work[i].sequence \in Nat
  BY SpaceParts
<1>2. /\ NextWork(a) \in Owed(a)
      /\ \A j \in Owed(a) : a.work[NextWork(a)].sequence <= a.work[j].sequence
  <2> DEFINE T == {a.work[i].sequence : i \in Owed(a)}
  <2>1. T \in SUBSET Nat /\ T # {}
    BY <1>1
  <2>2. PICK n \in T : \A m \in T : n <= m
    BY <2>1, LeastExists
  <2>3. PICK i \in Owed(a) : n = a.work[i].sequence
    BY <2>2
  <2>4. \A j \in Owed(a) : a.work[i].sequence <= a.work[j].sequence
    BY <2>2, <2>3
  <2> QED
    BY <2>4 DEF NextWork
<1> DEFINE s == NextWork(a)
           b == TakeWork(a)
<1>3. b = [a EXCEPT !.work[s] = None, !.pending = @ - 1]
  BY DEF TakeWork
<1>4. s \in Owed(a) /\ s \in WorkSlots
  BY <1>2 DEF Owed
<1> HIDE DEF s, b
<1>5. /\ b = [a EXCEPT !.work = [a.work EXCEPT ![s] = None], !.pending = a.pending - 1]
      /\ a.pending - 1 \in Nat
      /\ [a.work EXCEPT ![s] = None] \in [WorkSlots -> Invalidations \cup {None}]
  <2>1. a.work \in [WorkSlots -> Invalidations \cup {None}]
    BY <1>1 DEF AddressSpaces
  <2>2. b = [a EXCEPT !.work = [a.work EXCEPT ![s] = None], !.pending = a.pending - 1]
    BY <1>1, <1>3 DEF AddressSpaces
  <2>3. a.pending - 1 \in Nat
    BY <1>1
  <2> QED
    BY <2>1, <2>2, <2>3
<1>6. /\ b \in AddressSpaces
      /\ b.work = [a.work EXCEPT ![s] = None] /\ b.pending = a.pending - 1
      /\ b.mappings = a.mappings /\ b.count = a.count /\ b.nextSequence = a.nextSequence
  BY <1>1, <1>5 DEF AddressSpaces
<1>7. a.work \in [WorkSlots -> Invalidations \cup {None}]
  BY <1>1 DEF AddressSpaces
<1>8. Owed(b) = Owed(a) \ {s} /\ Mapped(b) = Mapped(a)
  BY <1>4, <1>6, <1>7 DEF Owed, Mapped
<1>9. Cardinality(Owed(b)) = Cardinality(Owed(a)) - 1
  BY <1>1, <1>4, <1>8, FS_RemoveElement
<1>10. ConsistentSpace(a)
  BY DEF WellFormedSpace
<1>11. \A i \in Owed(b) : i \in Owed(a) /\ b.work[i] = a.work[i]
  BY <1>6, <1>7, <1>8 DEF Owed
<1>12. ConsistentSpace(b)
  BY <1>6, <1>8, <1>9, <1>10, <1>11 DEF ConsistentSpace
<1> QED
  BY <1>2, <1>6, <1>12 DEF WellFormedSpace, b

-----------------------------------------------------------------------------
(* The invariant of the kernel.                                            *)

WellFormedPayload(kind, payload) ==
  /\ payload \in Payloads(kind)
  /\ kind = "ChannelEndpoint" => ConsistentQueue(payload)
  /\ kind = "AddressSpace" => ConsistentSpace(payload)

WellFormedObjects ==
  {o \in UNION {ObjectsOf(kind) : kind \in ObjectKinds} : WellFormedPayload(o.kind, o.payload)}

ObjectTables == [ObjectIds -> WellFormedObjects \cup {None}]

KernelOK ==
  /\ objects \in ObjectTables
  /\ generations \in [ObjectIds -> 1 .. MaxObjectGeneration]
  /\ processes \in [ProcessIds -> Processes \cup {None}]
  /\ frames \in FrameTables(ObjectRefs)

(* What a step may make of a handle table, of the objects and of the       *)
(* processes: within a generation, a slot keeps its entry and a live       *)
(* object its kind.                                                        *)
SlotKept(t, u, i) ==
  \/ u.generation[i] > t.generation[i]
  \/ /\ u.generation[i] = t.generation[i]
     /\ u.entry[i] = t.entry[i] \/ t.entry[i] = None

TablesAfter(t) == {u \in Tables : \A i \in Slots : SlotKept(t, u, i)}

ObjectsAfter ==
  {objs \in ObjectTables :
     \A id \in ObjectIds : objects[id] # None =>
       objs[id] # None /\ objs[id].kind = objects[id].kind}

ProcessesAfter ==
  {ps \in [ProcessIds -> Processes \cup {None}] :
     \A p \in ProcessIds : Running(p) =>
       ps[p] # None /\ ps[p].handles \in TablesAfter(Handles(p))}

ObjectsKept ==
  \A id \in ObjectIds :
    /\ generations'[id] >= generations[id]
    /\ objects[id] # None =>
         \/ generations'[id] > generations[id]
         \/ objects'[id] # None /\ objects'[id].kind = objects[id].kind

StepOK == KernelOK' /\ ObjectsKept /\ processes' \in ProcessesAfter

-----------------------------------------------------------------------------
(* Objects.                                                                *)

(* What the members of WellFormedObjects are.                              *)
LEMMA ObjectShape ==
  ASSUME NEW o
  PROVE  o \in WellFormedObjects <=>
           \E kind \in ObjectKinds :
             o \in ObjectsOf(kind) /\ o.kind = kind /\ WellFormedPayload(kind, o.payload)
<1>1. ASSUME NEW kind \in ObjectKinds, o \in ObjectsOf(kind)
      PROVE  o.kind = kind
  BY <1>1 DEF ObjectsOf
<1> QED
  BY <1>1 DEF WellFormedObjects

(* An object made of well-formed parts.                                    *)
LEMMA MakeObject ==
  ASSUME NEW kind \in ObjectKinds, NEW payload, WellFormedPayload(kind, payload), NEW n \in Nat
  PROVE  [kind |-> kind, handleCount |-> n, payload |-> payload] \in WellFormedObjects
<1> DEFINE o == [kind |-> kind, handleCount |-> n, payload |-> payload]
<1>1. o \in ObjectsOf(kind)
  BY DEF ObjectsOf, WellFormedPayload
<1>2. o.kind = kind /\ o.payload = payload
  OBVIOUS
<1> HIDE DEF o
<1>3. o \in WellFormedObjects
  BY <1>1, <1>2, ObjectShape
<1> QED
  BY <1>3 DEF o

(* The parts of a well-formed object.                                      *)
LEMMA ObjectParts ==
  ASSUME NEW o \in WellFormedObjects
  PROVE  /\ o.kind \in ObjectKinds /\ o.handleCount \in Nat
         /\ WellFormedPayload(o.kind, o.payload)
         /\ o = [kind |-> o.kind, handleCount |-> o.handleCount, payload |-> o.payload]
         /\ o \in ObjectsOf(o.kind)
         /\ o # None
<1>1. PICK kind \in ObjectKinds :
        o \in ObjectsOf(kind) /\ o.kind = kind /\ WellFormedPayload(kind, o.payload)
  BY ObjectShape
<1>2. o.handleCount \in Nat
  BY <1>1 DEF ObjectsOf
<1>3. o = [kind |-> o.kind, handleCount |-> o.handleCount, payload |-> o.payload]
  BY <1>1 DEF ObjectsOf
<1>4. o # None
  BY <1>1, NoneIsNothingElse
<1> QED
  BY <1>1, <1>2, <1>3, <1>4

(* Counting handles keeps an object well formed and of its kind.           *)
LEMMA AddHandleWellFormed ==
  ASSUME NEW o \in WellFormedObjects
  PROVE  AddHandle(o) \in WellFormedObjects /\ AddHandle(o).kind = o.kind
<1>1. AddHandle(o) = [kind |-> o.kind, handleCount |-> o.handleCount + 1, payload |-> o.payload]
  BY ObjectParts DEF AddHandle
<1>2. o.handleCount + 1 \in Nat
  BY ObjectParts
<1> QED
  BY <1>1, <1>2, ObjectParts, MakeObject

(* So does uncounting them.                                                *)
LEMMA RemoveHandlesWellFormed ==
  ASSUME NEW o \in WellFormedObjects, NEW n \in Nat
  PROVE  RemoveHandles(o, n) \in WellFormedObjects /\ RemoveHandles(o, n).kind = o.kind
<1> DEFINE m == IF o.handleCount < n THEN 0 ELSE o.handleCount - n
<1>1. RemoveHandles(o, n) = [kind |-> o.kind, handleCount |-> m, payload |-> o.payload]
  BY ObjectParts DEF RemoveHandles
<1>2. m \in Nat
  BY ObjectParts
<1> HIDE DEF m
<1> QED
  BY <1>1, <1>2, ObjectParts, MakeObject

(* Replacing a payload by a well-formed one of the same kind.              *)
LEMMA PayloadWellFormed ==
  ASSUME NEW o \in WellFormedObjects, NEW payload, WellFormedPayload(o.kind, payload)
  PROVE  /\ [o EXCEPT !.payload = payload] \in WellFormedObjects
         /\ [o EXCEPT !.payload = payload].kind = o.kind
<1>1. [o EXCEPT !.payload = payload] =
        [kind |-> o.kind, handleCount |-> o.handleCount, payload |-> payload]
  BY ObjectParts
<1> QED
  BY <1>1, ObjectParts, MakeObject

(* A payload of each kind the code makes or changes.                       *)
LEMMA PayloadKinds ==
  ASSUME NEW payload
  PROVE  /\ WellFormedPayload("ChannelEndpoint", payload) <=> WellFormedEndpoint(payload)
         /\ WellFormedPayload("AddressSpace", payload) <=> WellFormedSpace(payload)
         /\ WellFormedPayload("MemoryObject", payload) <=> payload \in MemoryObjects
         /\ WellFormedPayload("Event", payload) <=> payload \in {"Unsignaled", "Signaled"}
         /\ WellFormedPayload("Process", payload) <=> payload = "Initial"
         /\ WellFormedPayload("Thread", payload) <=> payload = "Initial"
BY DEF WellFormedPayload, Payloads, WellFormedEndpoint, WellFormedSpace

(* payload_for_kind.                                                       *)
LEMMA NewPayloadWellFormed ==
  ASSUME NEW kind \in ObjectKinds \ {"MemoryObject"}
  PROVE  WellFormedPayload(kind, NewPayload(kind))
<1>1. WellFormedEndpoint(NewEndpoint(0))
  BY NewEndpointWellFormed, ChannelAssumption
<1>2. CASE kind = "ChannelEndpoint"
  BY <1>1, <1>2, PayloadKinds DEF NewPayload
<1>3. CASE kind = "AddressSpace"
  BY <1>3, PayloadKinds, NewAddressSpaceWellFormed DEF NewPayload
<1>4. CASE kind \in {"Event", "Process", "Thread"}
  BY <1>4, PayloadKinds DEF NewPayload
<1> QED
  BY <1>2, <1>3, <1>4 DEF ObjectKinds

-----------------------------------------------------------------------------
(* Tables of objects and processes.                                        *)

(* A live object is well formed.                                           *)
LEMMA LiveObject ==
  ASSUME KernelOK, NEW id \in ObjectIds, objects[id] # None
  PROVE  objects[id] \in WellFormedObjects
BY DEF KernelOK, ObjectTables

(* reserve_entry returns a free entry, and its reference is one.           *)
LEMMA FreeEntry ==
  ASSUME KernelOK, FreeIds # {}
  PROVE  /\ First(FreeIds) \in ObjectIds
         /\ objects[First(FreeIds)] = None
<1>1. FreeIds \in SUBSET Nat
  BY KernelNamesAssumption DEF FreeIds, FreeIn, ObjectIds
<1>2. First(FreeIds) \in FreeIds
  BY <1>1, FirstIsLeast
<1> QED
  BY <1>2 DEF FreeIds, FreeIn

(* A reference to an entry of the table has the type of one.               *)
LEMMA RefType ==
  ASSUME KernelOK, NEW id \in ObjectIds
  PROVE  RefTo(id) \in ObjectRefs
BY DEF KernelOK, RefTo, ObjectRefs

(* What a running process is.                                              *)
LEMMA RunningProcess ==
  ASSUME KernelOK, NEW p \in ProcessIds, Running(p)
  PROVE  /\ processes[p] \in Processes
         /\ Handles(p) \in Tables
         /\ processes[p].remaining \in Nat
<1>1. processes[p] \in Processes
  BY DEF KernelOK, Running
<1> QED
  BY <1>1 DEF Processes, Handles

(* The entry behind a nameable handle.                                     *)
LEMMA NameableEntry ==
  ASSUME KernelOK, NEW p \in ProcessIds, Running(p), NEW i \in Nameable(Handles(p))
  PROVE  /\ i \in Occupied(Handles(p)) /\ i \in Slots
         /\ Handles(p).entry[i] \in Entries
         /\ Handles(p).entry[i].object \in ObjectRefs
         /\ Handles(p).entry[i].object.id \in ObjectIds
<1>1. i \in Occupied(Handles(p)) /\ i \in Slots /\ Handles(p).entry[i] # None
  BY DEF Nameable, Occupied
<1>2. Handles(p).entry[i] \in Entries
  BY <1>1, RunningProcess DEF Tables
<1>3. Handles(p).entry[i].object \in ObjectRefs
  BY <1>2 DEF Entries
<1> QED
  BY <1>1, <1>2, <1>3 DEF ObjectRefs

(* What lookup guarantees: a live, well-formed object of the kind that was *)
(* asked for.                                                              *)
LEMMA LookupObject ==
  ASSUME KernelOK, NEW p \in ProcessIds, Running(p), NEW i, NEW kind, NEW rights,
         Lookup(p, i, kind, rights)
  PROVE  /\ i \in Slots
         /\ Handles(p).entry[i] \in Entries
         /\ ObjectOf(p, i) \in ObjectIds
         /\ objects[ObjectOf(p, i)] \in WellFormedObjects
         /\ objects[ObjectOf(p, i)].kind = kind
<1>1. i \in Nameable(Handles(p))
  BY DEF Lookup
<1>2. /\ i \in Slots /\ Handles(p).entry[i] \in Entries
      /\ ObjectOf(p, i) \in ObjectIds
  BY <1>1, NameableEntry DEF ObjectOf
<1>3. objects[ObjectOf(p, i)] # None /\ objects[ObjectOf(p, i)].kind = kind
  BY DEF Lookup, Valid, Live, ObjectOf
<1> QED
  BY <1>2, <1>3, LiveObject

(* A table may stay as it is, and may change twice in one step.            *)
LEMMA TablesAfterItself ==
  ASSUME NEW t \in Tables
  PROVE  t \in TablesAfter(t)
BY DEF TablesAfter, SlotKept

(* Two legal changes of a handle table, one after the other, are one.      *)
LEMMA TablesAfterBoth ==
  ASSUME NEW t \in Tables, NEW u \in TablesAfter(t), NEW v \in TablesAfter(u)
  PROVE  v \in TablesAfter(t)
<1>1. u \in Tables /\ v \in Tables
  BY DEF TablesAfter
<1>2. ASSUME NEW i \in Slots
      PROVE  SlotKept(t, v, i)
  <2>1. SlotKept(t, u, i) /\ SlotKept(u, v, i)
    BY DEF TablesAfter
  <2>2. t.generation[i] \in Nat /\ u.generation[i] \in Nat /\ v.generation[i] \in Nat
    BY <1>1, HandleTableAssumption DEF Tables
  <2> QED
    BY <2>1, <2>2 DEF SlotKept
<1> QED
  BY <1>1, <1>2 DEF TablesAfter

(* Installing and removing entries.                                        *)
LEMMA PutEntryAfter ==
  ASSUME NEW t \in Tables, NEW e \in Entries, FreeSlots(t) # {}
  PROVE  PutEntry(t, e) \in TablesAfter(t)
BY PutEntryType, PutEntryKeeps DEF TablesAfter, SlotKept

(* Entries that recv installs go into free slots and leave generations as  *)
(* they are: a legal change of the table.                                  *)
LEMMA PutEntriesAfter ==
  ASSUME NEW t \in Tables, NEW es \in Seq(Entries)
  PROVE  PutEntries(t, es) \in TablesAfter(t)
BY PutEntriesType, PutEntriesKeeps DEF TablesAfter, SlotKept

(* Slots that close, revoke or send empty start their next generation: a   *)
(* legal change of the table.                                              *)
LEMMA RemoveEntriesAfter ==
  ASSUME NEW t \in Tables, NEW S, CanRemove(t, S)
  PROVE  RemoveEntries(t, S) \in TablesAfter(t)
BY RemoveEntriesType, RemoveEntriesKeeps DEF TablesAfter, SlotKept

(* Replacing a whole process.                                              *)
LEMMA ProcessChange ==
  ASSUME KernelOK, NEW p \in ProcessIds, NEW t \in Tables, NEW r \in Nat,
         Running(p) => t \in TablesAfter(Handles(p)),
         processes' = [processes EXCEPT ![p] = [handles |-> t, remaining |-> r]]
  PROVE  processes' \in ProcessesAfter
<1> DEFINE q == [handles |-> t, remaining |-> r]
<1>1. q \in Processes /\ q.handles = t /\ q # None
  BY NoneIsNothingElse DEF Processes
<1>2. processes' = [processes EXCEPT ![p] = q]
  OBVIOUS
<1> HIDE DEF q
<1>3. processes' \in [ProcessIds -> Processes \cup {None}]
  BY <1>1, <1>2 DEF KernelOK
<1>4. ASSUME NEW other \in ProcessIds, Running(other)
      PROVE  processes'[other] # None /\ processes'[other].handles \in TablesAfter(Handles(other))
  <2>1. CASE other = p
    BY <1>1, <1>2, <1>4, <2>1 DEF KernelOK
  <2>2. CASE other # p
    <3>1. processes'[other] = processes[other] /\ processes'[other].handles = Handles(other)
      BY <1>2, <2>2 DEF KernelOK, Handles
    <3> QED
      BY <1>4, <3>1, RunningProcess, TablesAfterItself DEF Running
  <2> QED
    BY <2>1, <2>2
<1> QED
  BY <1>3, <1>4 DEF ProcessesAfter

(* Changing the table of one process, or its budget, or nothing.           *)
LEMMA TableChange ==
  ASSUME KernelOK, NEW p \in ProcessIds, Running(p), NEW t \in TablesAfter(Handles(p)),
         processes' = [processes EXCEPT ![p].handles = t]
  PROVE  processes' \in ProcessesAfter
<1>1. PICK h \in Tables, n \in Nat : processes[p] = [handles |-> h, remaining |-> n]
  BY RunningProcess DEF Processes
<1>2. processes' = [processes EXCEPT ![p] = [handles |-> t, remaining |-> n]]
  <2>1. [processes[p] EXCEPT !.handles = t] = [handles |-> t, remaining |-> n]
    BY <1>1
  <2>2. processes' = [processes EXCEPT ![p] = [processes[p] EXCEPT !.handles = t]]
    OBVIOUS
  <2> QED
    BY <2>1, <2>2
<1> QED
  BY <1>2, ProcessChange DEF TablesAfter

(* A change of one process's budget leaves its handle table alone.         *)
LEMMA BudgetChange ==
  ASSUME KernelOK, NEW p \in ProcessIds, Running(p), NEW r \in Nat,
         processes' = [processes EXCEPT ![p].remaining = r]
  PROVE  processes' \in ProcessesAfter
<1>1. PICK h \in Tables, n \in Nat : processes[p] = [handles |-> h, remaining |-> n]
  BY RunningProcess DEF Processes
<1>2. processes' = [processes EXCEPT ![p] = [handles |-> h, remaining |-> r]]
  <2>1. [processes[p] EXCEPT !.remaining = r] = [handles |-> h, remaining |-> r]
    BY <1>1
  <2>2. processes' = [processes EXCEPT ![p] = [processes[p] EXCEPT !.remaining = r]]
    OBVIOUS
  <2> QED
    BY <2>1, <2>2
<1>3. h \in TablesAfter(Handles(p))
  BY <1>1, TablesAfterItself DEF Handles
<1> QED
  BY <1>2, <1>3, ProcessChange

(* No change of the processes is a legal change.                           *)
LEMMA ProcessesStay ==
  ASSUME KernelOK, UNCHANGED processes
  PROVE  processes' \in ProcessesAfter
BY RunningProcess, TablesAfterItself DEF ProcessesAfter, KernelOK, Handles, Running

(* A step that starts no generation of an object.                          *)
LEMMA QuietStep ==
  ASSUME KernelOK, objects' \in ObjectsAfter, UNCHANGED generations,
         processes' \in ProcessesAfter, frames' \in FrameTables(ObjectRefs)
  PROVE  StepOK
<1>1. KernelOK'
  BY DEF KernelOK, ObjectsAfter, ProcessesAfter
<1>2. \A id \in ObjectIds : generations[id] \in Nat
  BY KernelNamesAssumption DEF KernelOK
<1> QED
  BY <1>1, <1>2 DEF StepOK, ObjectsKept, ObjectsAfter

(* No change of the objects is a legal change.                             *)
LEMMA ObjectsAfterItself ==
  ASSUME KernelOK
  PROVE  objects \in ObjectsAfter
BY DEF KernelOK, ObjectsAfter

(* reclaim_memory_object_if_unreferenced, on the table of objects that the *)
(* caller updated.                                                         *)
LEMMA ReclaimWellFormed ==
  ASSUME KernelOK, NEW objs \in ObjectsAfter, NEW id \in ObjectIds, Reclaim(objs, id)
  PROVE  /\ objects' \in ObjectTables
         /\ generations' \in [ObjectIds -> 1 .. MaxObjectGeneration]
         /\ frames' \in FrameTables(ObjectRefs)
         /\ ObjectsKept
<1>1. objs \in ObjectTables /\ \A o \in ObjectIds : generations[o] \in Nat
  BY KernelNamesAssumption DEF ObjectsAfter, KernelOK
<1>2. CASE Unreferenced(objs[id])
  <2>1. /\ CanRelease(frames, PagesOf(objs[id].payload.frames))
        /\ frames' = Release(frames, PagesOf(objs[id].payload.frames))
        /\ generations[id] < MaxObjectGeneration
        /\ generations' = [generations EXCEPT ![id] = generations[id] + 1]
        /\ objects' = [objs EXCEPT ![id] = None]
    BY <1>2 DEF Reclaim
  <2>2. generations[id] + 1 \in 1 .. MaxObjectGeneration
    BY <2>1, KernelNamesAssumption DEF KernelOK
  <2>3. frames' \in FrameTables(ObjectRefs)
    BY <2>1, ReleaseType DEF KernelOK
  <2>4. generations'[id] > generations[id]
    BY <1>1, <2>1 DEF KernelOK
  <2>5. \A o \in ObjectIds \ {id} : objects'[o] = objs[o] /\ generations'[o] = generations[o]
    BY <1>1, <2>1 DEF KernelOK, ObjectTables
  <2>6. ASSUME NEW o \in ObjectIds
        PROVE  /\ generations'[o] >= generations[o]
               /\ objects[o] # None =>
                    \/ generations'[o] > generations[o]
                    \/ objects'[o] # None /\ objects'[o].kind = objects[o].kind
    <3>1. CASE o = id
      BY <1>1, <2>1, <2>2, <2>4, <3>1 DEF KernelOK
    <3>2. CASE o # id
      BY <1>1, <2>5, <3>2 DEF ObjectsAfter
    <3> QED
      BY <3>1, <3>2
  <2>7. ObjectsKept
    BY <2>6 DEF ObjectsKept
  <2> QED
    BY <1>1, <2>1, <2>2, <2>3, <2>7 DEF KernelOK, ObjectTables
<1>3. CASE ~Unreferenced(objs[id])
  <2>1. objects' = objs /\ UNCHANGED <<generations, frames>>
    BY <1>3 DEF Reclaim
  <2> QED
    BY <1>1, <2>1 DEF KernelOK, ObjectsKept, ObjectsAfter
<1> QED
  BY <1>2, <1>3

(* Replacing one object.                                                   *)
LEMMA ObjectUpdate ==
  ASSUME NEW objs \in ObjectsAfter, NEW id \in ObjectIds, NEW o \in WellFormedObjects,
         objs[id] # None => o.kind = objs[id].kind
  PROVE  [objs EXCEPT ![id] = o] \in ObjectsAfter
<1>1. objs \in ObjectTables /\ o # None
  BY ObjectParts DEF ObjectsAfter
<1>2. [objs EXCEPT ![id] = o] \in ObjectTables
  BY <1>1 DEF ObjectTables
<1>3. \A other \in ObjectIds :
        [objs EXCEPT ![id] = o][other] = IF other = id THEN o ELSE objs[other]
  BY <1>1 DEF ObjectTables
<1> QED
  BY <1>1, <1>2, <1>3 DEF ObjectsAfter

(* Replacing the payload of one object.                                    *)
LEMMA PayloadUpdate ==
  ASSUME NEW objs \in ObjectsAfter, NEW id \in ObjectIds, objs[id] # None,
         NEW payload, WellFormedPayload(objs[id].kind, payload)
  PROVE  /\ [objs EXCEPT ![id].payload = payload] \in ObjectsAfter
         /\ \A other \in ObjectIds \ {id} :
              [objs EXCEPT ![id].payload = payload][other] = objs[other]
<1>1. objs \in ObjectTables /\ objs[id] \in WellFormedObjects
  BY DEF ObjectsAfter, ObjectTables
<1>2. /\ [objs[id] EXCEPT !.payload = payload] \in WellFormedObjects
      /\ [objs[id] EXCEPT !.payload = payload].kind = objs[id].kind
  BY <1>1, PayloadWellFormed
<1>3. [objs EXCEPT ![id].payload = payload] =
        [objs EXCEPT ![id] = [objs[id] EXCEPT !.payload = payload]]
  OBVIOUS
<1>4. \A other \in ObjectIds \ {id} :
        [objs EXCEPT ![id].payload = payload][other] = objs[other]
  BY <1>1 DEF ObjectTables
<1> QED
  BY <1>2, <1>3, <1>4, ObjectUpdate

(* The entry a create call installs.                                       *)
LEMMA NewEntryType ==
  ASSUME NEW ref \in ObjectRefs, NEW kind \in ObjectKinds, NEW rights \in SUBSET HandleRights
  PROVE  NewEntry(ref, kind, rights) \in Entries
BY DEF NewEntry, Entries

-----------------------------------------------------------------------------
(* One lemma per call: what it makes of a well-formed state.               *)

(* The initial state is well formed.                                       *)
LEMMA InitWellFormed == Init => KernelOK
BY KernelNamesAssumption, FrameAssumption
   DEF Init, KernelOK, ObjectTables, InitialFrames, FrameTables

(* The shared tail of the create calls.                                    *)
LEMMA PublishWellFormed ==
  ASSUME KernelOK, NEW p \in ProcessIds, Running(p),
         NEW kind \in ObjectKinds, NEW payload, WellFormedPayload(kind, payload),
         NEW rights \in SUBSET HandleRights, Publish(p, kind, payload, rights)
  PROVE  objects' \in ObjectsAfter /\ processes' \in ProcessesAfter
<1> DEFINE id == First(FreeIds)
           o == AddHandle(NewObject(kind, payload))
           e == NewEntry(RefTo(id), kind, rights)
<1>1. id \in ObjectIds /\ objects[id] = None
  BY FreeEntry DEF Publish
<1>2. o \in WellFormedObjects
  BY MakeObject, AddHandleWellFormed DEF NewObject
<1>3. objects' = [objects EXCEPT ![id] = o]
  BY DEF Publish
<1>4. e \in Entries
  BY <1>1, RefType, NewEntryType
<1>5. PutEntry(Handles(p), e) \in TablesAfter(Handles(p))
  BY <1>4, RunningProcess, PutEntryAfter DEF Publish
<1>6. ReserveObject(processes[p].remaining) \in Nat
  BY RunningProcess DEF Publish, ReserveObject
<1>7. processes' = [processes EXCEPT ![p] =
        [handles |-> PutEntry(Handles(p), e),
         remaining |-> ReserveObject(processes[p].remaining)]]
  BY DEF Publish, Handles
<1>8. objects' \in ObjectsAfter
  <2> HIDE DEF id, o
  <2> QED
    BY <1>1, <1>2, <1>3, ObjectsAfterItself, ObjectUpdate
<1>9. processes' \in ProcessesAfter
  <2> HIDE DEF e
  <2> QED
    BY <1>5, <1>6, <1>7, ProcessChange DEF TablesAfter
<1> QED
  BY <1>8, <1>9

(* create_bootstrap.                                                       *)
LEMMA BootstrapStep ==
  ASSUME KernelOK, NEW p \in ProcessIds, CreateBootstrapProcess(p)
  PROVE  StepOK
<1> DEFINE id == First(FreeIds)
           o == AddHandle(NewObject("Process", "Initial"))
           e == NewEntry(RefTo(id), "Process", {"READ", "MANAGE"})
<1>1. id \in ObjectIds /\ objects[id] = None
  BY FreeEntry DEF CreateBootstrapProcess
<1>2. o \in WellFormedObjects
  BY PayloadKinds, MakeObject, AddHandleWellFormed DEF NewObject, ObjectKinds
<1>3. e \in Entries
  BY <1>1, RefType, NewEntryType DEF ObjectKinds, HandleRights
<1>4. PutEntry(EmptyTable, e) \in Tables
  BY <1>3, EmptyTableType, PutEntryType
<1>5. ReserveObject(ObjectQuota) \in Nat
  BY KernelAssumption DEF CreateBootstrapProcess, ReserveObject
<1>6. /\ ~Running(p)
      /\ objects' = [objects EXCEPT ![id] = o]
      /\ processes' = [processes EXCEPT ![p] =
           [handles |-> PutEntry(EmptyTable, e), remaining |-> ReserveObject(ObjectQuota)]]
      /\ UNCHANGED <<generations, frames>>
  BY DEF CreateBootstrapProcess
<1>7. objects' \in ObjectsAfter
  <2> HIDE DEF id, o
  <2> QED
    BY <1>1, <1>2, <1>6, ObjectsAfterItself, ObjectUpdate
<1>8. processes' \in ProcessesAfter
  <2> HIDE DEF e
  <2> QED
    BY <1>4, <1>5, <1>6, ProcessChange
<1> QED
  BY <1>6, <1>7, <1>8, QuietStep DEF KernelOK

(* CreateObject and CreateAddressSpace.                                    *)
LEMMA CreateObjectStep ==
  ASSUME KernelOK, NEW p \in ProcessIds, Running(p),
         NEW kind \in CreatableKinds, NEW rights \in RightsChoices,
         CreateObject(p, kind, rights)
  PROVE  StepOK
<1>1. kind \in ObjectKinds \ {"MemoryObject"} /\ rights \in SUBSET HandleRights
  BY KernelAssumption
<1>2. WellFormedPayload(kind, NewPayload(kind))
  BY <1>1, NewPayloadWellFormed
<1>3. Publish(p, kind, NewPayload(kind), rights) /\ UNCHANGED <<generations, frames>>
  BY DEF CreateObject
<1> QED
  BY <1>1, <1>2, <1>3, PublishWellFormed, QuietStep DEF KernelOK

(* CreateMemoryObject.                                                     *)
LEMMA CreateMemoryObjectStep ==
  ASSUME KernelOK, NEW p \in ProcessIds, Running(p),
         NEW size \in MemorySizes, NEW rights \in RightsChoices,
         CreateMemoryObject(p, size, rights)
  PROVE  StepOK
<1> DEFINE range == FreeRun(frames, size)
<1>1. rights \in SUBSET HandleRights /\ size \in Nat
  BY KernelAssumption
<1>2. /\ RunStarts(frames, size) # {}
      /\ Publish(p, "MemoryObject", NewMemoryObject(range), rights)
      /\ frames' = Grant(frames, PagesOf(range), RefTo(First(FreeIds)))
      /\ UNCHANGED generations
  BY DEF CreateMemoryObject
<1>3. range \in FrameRanges
  BY <1>1, <1>2, FreeRunIsFree DEF KernelOK
<1> HIDE DEF range
<1>4. NewMemoryObject(range) \in MemoryObjects
  BY <1>3 DEF NewMemoryObject, MemoryObjects, FrameRanges
<1>5. /\ objects' \in ObjectsAfter
      /\ processes' \in ProcessesAfter
  BY <1>1, <1>2, <1>4, PayloadKinds, PublishWellFormed DEF ObjectKinds
<1>6. RefTo(First(FreeIds)) \in ObjectRefs
  BY <1>2, FreeEntry, RefType DEF Publish
<1>7. frames' \in FrameTables(ObjectRefs)
  BY <1>2, <1>6, GrantType DEF KernelOK
<1> QED
  BY <1>2, <1>5, <1>7, QuietStep

(* The calls that only put back what they had taken from the budget.       *)
LEMMA BudgetRestored ==
  ASSUME KernelOK, NEW p \in ProcessIds, Running(p), NEW r \in Nat,
         processes' = [processes EXCEPT ![p].remaining = r],
         UNCHANGED <<objects, generations, frames>>
  PROVE  StepOK
<1>1. processes' \in ProcessesAfter
  BY BudgetChange
<1> QED
  BY <1>1, ObjectsAfterItself, QuietStep DEF KernelOK

(* A create call that failed after its budget reservation.                 *)
LEMMA CreateRolledBackStep ==
  ASSUME KernelOK, NEW p \in ProcessIds, Running(p), CreateRolledBack(p)
  PROVE  StepOK
<1>1. /\ ReleaseObject(ReserveObject(processes[p].remaining)) \in Nat
      /\ processes' = [processes EXCEPT
           ![p].remaining = ReleaseObject(ReserveObject(processes[p].remaining))]
      /\ UNCHANGED <<objects, generations, frames>>
  BY RunningProcess
     DEF CreateRolledBack, CreateFindsNoSlot, CreateFindsNoEntry, CreateFindsNoFrames,
         PutsBackOne, ReleaseObject, ReserveObject
<1> QED
  BY <1>1, BudgetRestored

(* DuplicateHandle.                                                        *)
LEMMA DuplicateHandleStep ==
  ASSUME KernelOK, NEW p \in ProcessIds, Running(p),
         NEW source \in Slots, NEW rights \in RightsChoices,
         DuplicateHandle(p, source, rights)
  PROVE  StepOK
<1> DEFINE table == Handles(p)
           e == table.entry[source]
           id == e.object.id
           new == PutEntry(table, DerivedEntry(table, source, rights))
<1>1. /\ source \in Nameable(table) /\ FreeSlots(table) # {}
      /\ CanDerive(table, source, rights)
      /\ Valid(e.object, e.kind)
      /\ objects' = [objects EXCEPT ![id] = AddHandle(objects[id])]
      /\ processes' = [processes EXCEPT ![p].handles = new]
      /\ UNCHANGED <<generations, frames>>
  BY DEF DuplicateHandle, Handles
<1>2. id \in ObjectIds /\ source \in Occupied(table) /\ table \in Tables
  BY <1>1, NameableEntry, RunningProcess
<1>3. objects[id] \in WellFormedObjects
  BY <1>1, <1>2, LiveObject DEF Valid, Live
<1>4. DerivedEntry(table, source, rights) \in Entries
  BY <1>1, <1>2, DerivedEntryType
<1>5. new \in TablesAfter(table)
  BY <1>1, <1>2, <1>4, PutEntryAfter
<1> HIDE DEF new, id
<1>6. objects' \in ObjectsAfter
  BY <1>1, <1>2, <1>3, ObjectsAfterItself, AddHandleWellFormed, ObjectUpdate
<1>7. processes' \in ProcessesAfter
  BY <1>1, <1>5, TableChange
<1> QED
  BY <1>1, <1>6, <1>7, QuietStep DEF KernelOK

(* close, on any set of slots of one object.                               *)
LEMMA CloseSlotsStep ==
  ASSUME KernelOK, NEW p \in ProcessIds, Running(p), NEW S \in SUBSET Slots,
         NEW ref \in ObjectRefs, Live(ref), CloseSlots(p, S, ref)
  PROVE  StepOK
<1> DEFINE n == Cardinality(S)
           objs == [objects EXCEPT ![ref.id] = RemoveHandles(objects[ref.id], n)]
<1>1. n \in Nat
  <2>1. IsFiniteSet(S)
    BY SlotsFinite, FS_Subset
  <2> QED
    BY <2>1, FS_CardinalityType
<1>2. ref.id \in ObjectIds
  BY DEF ObjectRefs
<1>3. objects[ref.id] \in WellFormedObjects
  BY <1>2, LiveObject DEF Live
<1>4. RemoveEntries(Handles(p), S) \in TablesAfter(Handles(p))
  BY RunningProcess, RemoveEntriesAfter DEF CloseSlots
<1>5. /\ processes' = [processes EXCEPT ![p].handles = RemoveEntries(Handles(p), S)]
      /\ Reclaim(objs, ref.id)
  BY DEF CloseSlots, Handles
<1>6. objs \in ObjectsAfter
  <2> HIDE DEF n
  <2> QED
    BY <1>1, <1>2, <1>3, RemoveHandlesWellFormed, ObjectsAfterItself, ObjectUpdate
<1> HIDE DEF objs
<1>7. /\ objects' \in ObjectTables
      /\ generations' \in [ObjectIds -> 1 .. MaxObjectGeneration]
      /\ frames' \in FrameTables(ObjectRefs)
      /\ ObjectsKept
  BY <1>2, <1>5, <1>6, ReclaimWellFormed
<1>8. processes' \in ProcessesAfter
  BY <1>4, <1>5, TableChange
<1> QED
  BY <1>7, <1>8 DEF KernelOK, StepOK, ProcessesAfter

(* CloseHandle.                                                            *)
LEMMA CloseHandleStep ==
  ASSUME KernelOK, NEW p \in ProcessIds, Running(p), NEW i \in Slots, CloseHandle(p, i)
  PROVE  StepOK
<1>1. Handles(p).entry[i].object \in ObjectRefs
  BY NameableEntry DEF CloseHandle
<1> QED
  BY <1>1, CloseSlotsStep DEF CloseHandle

(* RevokeDescendants.                                                      *)
LEMMA RevokeDescendantsStep ==
  ASSUME KernelOK, NEW p \in ProcessIds, Running(p), NEW root \in Slots,
         RevokeDescendants(p, root)
  PROVE  StepOK
<1>1. Handles(p).entry[root].object \in ObjectRefs
  BY NameableEntry DEF RevokeDescendants
<1>2. ClosedByRevoke(p, root) \in SUBSET Slots
  BY DEF ClosedByRevoke, Revocable, Descendants
<1> QED
  BY <1>1, <1>2, CloseSlotsStep DEF RevokeDescendants

(* Two free slots are room for two entries.                                *)
LEMMA RoomForTwo ==
  ASSUME NEW t \in Tables, NEW e \in Entries, Cardinality(FreeSlots(t)) >= 2
  PROVE  FreeSlots(t) # {} /\ FreeSlots(PutEntry(t, e)) # {}
<1> DEFINE s == First(FreeSlots(t))
<1>1. FreeSlots(t) \in SUBSET Nat /\ IsFiniteSet(FreeSlots(t))
  <2>1. FreeSlots(t) \in SUBSET Slots
    BY DEF FreeSlots
  <2> QED
    BY <2>1, SlotsFinite, FS_Subset
<1>2. FreeSlots(t) # {}
  BY <1>1, FS_EmptySet
<1>3. s \in FreeSlots(t)
  BY <1>1, <1>2, FirstIsLeast
<1>4. PutEntry(t, e) = [t EXCEPT !.entry[s] = e]
  BY DEF PutEntry
<1> HIDE DEF s
<1>5. Cardinality(FreeSlots(t) \ {s}) = Cardinality(FreeSlots(t)) - 1
  BY <1>1, <1>3, FS_RemoveElement
<1>6. Cardinality(FreeSlots(t)) \in Nat
  BY <1>1, FS_CardinalityType
<1>7. Cardinality(FreeSlots(t) \ {s}) # 0
  BY <1>5, <1>6
<1>8. PICK other \in FreeSlots(t) : other # s
  BY <1>7, FS_EmptySet
<1>9. PutEntry(t, e).entry[other] = t.entry[other]
  BY <1>4, <1>8 DEF Tables, FreeSlots
<1>10. other \in FreeSlots(PutEntry(t, e))
  BY <1>8, <1>9 DEF FreeSlots, Occupied
<1> QED
  BY <1>2, <1>10

(* CreateChannelPair: the two endpoints are different entries.             *)
LEMMA CreateChannelPairStep ==
  ASSUME KernelOK, NEW p \in ProcessIds, Running(p),
         NEW max \in MessageLimits, NEW rights \in RightsChoices,
         CreateChannelPair(p, max, rights)
  PROVE  StepOK
<1> DEFINE first == First(FreeIds)
           second == First(FreeIds \ {first})
           End(peer) == AddHandle(NewObject("ChannelEndpoint",
                                            Linked(NewEndpoint(max), RefTo(peer))))
           Entry(id) == NewEntry(RefTo(id), "ChannelEndpoint", rights)
           one == PutEntry(Handles(p), Entry(first))
           both == PutEntry(one, Entry(second))
           left == ReserveObject(ReserveObject(processes[p].remaining))
<1>1. /\ processes[p].remaining >= 2
      /\ max <= MaxChannelMessages
      /\ Cardinality(FreeIds) >= 2 /\ Cardinality(FreeSlots(Handles(p))) >= 2
      /\ objects' = [objects EXCEPT ![first] = End(second), ![second] = End(first)]
      /\ processes' = [processes EXCEPT ![p] = [handles |-> both, remaining |-> left]]
      /\ UNCHANGED <<generations, frames>>
  BY DEF CreateChannelPair, Handles
<1>2. FreeIds \in SUBSET Nat /\ FreeIds \in SUBSET ObjectIds /\ IsFiniteSet(FreeIds)
  <2>1. ObjectIds \in SUBSET Nat /\ IsFiniteSet(ObjectIds)
    BY KernelNamesAssumption, FS_Interval DEF ObjectIds
  <2>2. FreeIds \in SUBSET ObjectIds
    BY DEF FreeIds, FreeIn
  <2> QED
    BY <2>1, <2>2, FS_Subset
<1>3. FreeIds # {}
  BY <1>1, <1>2, FS_EmptySet
<1>4. first \in FreeIds
  BY <1>2, <1>3, FirstIsLeast
<1> HIDE DEF first
<1>5. FreeIds \ {first} # {}
  <2>1. Cardinality(FreeIds \ {first}) = Cardinality(FreeIds) - 1
    BY <1>2, <1>4, FS_RemoveElement
  <2>2. Cardinality(FreeIds) \in Nat
    BY <1>2, FS_CardinalityType
  <2>3. Cardinality(FreeIds \ {first}) # 0
    BY <1>1, <2>1, <2>2
  <2> QED
    BY <2>3, FS_EmptySet
<1>6. second \in FreeIds \ {first}
  BY <1>2, <1>5, FirstIsLeast
<1> HIDE DEF second
<1>7. /\ first \in ObjectIds /\ second \in ObjectIds
      /\ first # second /\ objects[first] = None /\ objects[second] = None
  BY <1>2, <1>4, <1>6 DEF FreeIds, FreeIn
<1>8. ASSUME NEW peer \in ObjectIds
      PROVE  End(peer) \in WellFormedObjects
  <2>1. max \in 0 .. MaxChannelMessages
    BY <1>1, KernelAssumption, ChannelAssumption
  <2>2. WellFormedEndpoint(NewEndpoint(max)) /\ RefTo(peer) \in ObjectRefs
    BY <2>1, RefType, NewEndpointWellFormed
  <2>3. WellFormedEndpoint(Linked(NewEndpoint(max), RefTo(peer)))
    BY <2>2, PeerChangeWellFormed DEF Linked
  <2> DEFINE o == NewObject("ChannelEndpoint", Linked(NewEndpoint(max), RefTo(peer)))
  <2>4. o \in WellFormedObjects
    BY <2>3, PayloadKinds, MakeObject DEF NewObject, ObjectKinds
  <2> HIDE DEF o
  <2>5. AddHandle(o) \in WellFormedObjects
    BY <2>4, AddHandleWellFormed
  <2> QED
    BY <2>5 DEF o
<1>9. objects' \in ObjectsAfter
  <2>1. End(second) \in WellFormedObjects /\ End(first) \in WellFormedObjects
    BY <1>7, <1>8
  <2> HIDE DEF End
  <2> QED
    <3>1. [objects EXCEPT ![first] = End(second)] \in ObjectsAfter
      BY <1>7, <2>1, ObjectsAfterItself, ObjectUpdate
    <3>2. [objects EXCEPT ![first] = End(second)][second] = None
      BY <1>7 DEF KernelOK, ObjectTables
    <3>3. [[objects EXCEPT ![first] = End(second)] EXCEPT ![second] = End(first)] \in ObjectsAfter
      BY <1>7, <2>1, <3>1, <3>2, ObjectUpdate
    <3> QED
      BY <1>1, <3>3
<1>10. Entry(first) \in Entries /\ Entry(second) \in Entries
  BY <1>7, RefType, NewEntryType, KernelAssumption DEF ObjectKinds
<1> HIDE DEF Entry
<1>11. /\ FreeSlots(Handles(p)) # {}
       /\ one \in TablesAfter(Handles(p))
       /\ FreeSlots(one) # {}
  BY <1>1, <1>10, RunningProcess, RoomForTwo, PutEntryAfter
<1> HIDE DEF one
<1>12. both \in TablesAfter(Handles(p)) /\ both \in Tables
  <2>1. both \in TablesAfter(one)
    BY <1>10, <1>11, PutEntryAfter DEF TablesAfter
  <2> QED
    BY <1>11, <2>1, RunningProcess, TablesAfterBoth DEF TablesAfter
<1>13. left \in Nat
  BY <1>1, RunningProcess DEF ReserveObject
<1>14. processes' \in ProcessesAfter
  <2> HIDE DEF both, left
  <2> QED
    BY <1>1, <1>12, <1>13, ProcessChange
<1> QED
  BY <1>1, <1>9, <1>14, QuietStep DEF KernelOK

(* A pair for whose second object the budget has no room.                  *)
LEMMA SecondObjectRefusedStep ==
  ASSUME KernelOK, NEW p \in ProcessIds, Running(p), SecondObjectRefused(p)
  PROVE  StepOK
<1>1. /\ ReleaseObject(ReserveObject(processes[p].remaining)) \in Nat
      /\ processes' = [processes EXCEPT
           ![p].remaining = ReleaseObject(ReserveObject(processes[p].remaining))]
      /\ UNCHANGED <<objects, generations, frames>>
  BY RunningProcess DEF SecondObjectRefused, PutsBackOne, ReleaseObject, ReserveObject
<1> QED
  BY <1>1, BudgetRestored

(* A pair that is undone, with the generation that the first endpoint used *)
(* up.                                                                     *)
LEMMA ChannelPairRolledBackStep ==
  ASSUME KernelOK, NEW p \in ProcessIds, Running(p), NEW max \in MessageLimits,
         ChannelPairRolledBack(p, max)
  PROVE  StepOK
<1> DEFINE r == ReleaseObject(ReleaseObject(ReserveObject(ReserveObject(processes[p].remaining))))
<1>1. r \in Nat
  BY RunningProcess DEF ReleaseObject, ReserveObject
<1>2. /\ processes' = [processes EXCEPT ![p].remaining = r]
      /\ UNCHANGED <<objects, frames>>
  BY DEF ChannelPairRolledBack, PairFindsNoSlots, PairRefused, PairLosesFirst, PutsBackTwo
<1>3. PICK made \in SUBSET ObjectIds :
        /\ \A id \in made : generations[id] < MaxObjectGeneration
        /\ generations' = [id \in ObjectIds |->
             IF id \in made THEN generations[id] + 1 ELSE generations[id]]
  <2>1. CASE UNCHANGED generations
    <3>1. PICK none \in SUBSET ObjectIds : none = {}
      OBVIOUS
    <3>2. generations' = [id \in ObjectIds |->
            IF id \in none THEN generations[id] + 1 ELSE generations[id]]
      BY <2>1, <3>1 DEF KernelOK
    <3> QED
      BY <3>1, <3>2
  <2>2. CASE PairLosesFirst(p, max)
    <3>1. PICK first \in ObjectIds :
            /\ generations[first] < MaxObjectGeneration
            /\ generations' = [generations EXCEPT ![first] = @ + 1]
      <4>1. First(FreeIds) \in ObjectIds
        BY <2>2, FS_EmptySet, FreeEntry DEF PairLosesFirst
      <4> QED
        BY <2>2, <4>1 DEF PairLosesFirst
    <3>2. generations' = [id \in ObjectIds |->
            IF id \in {first} THEN generations[id] + 1 ELSE generations[id]]
      BY <3>1 DEF KernelOK
    <3> QED
      BY <3>1, <3>2
  <2> QED
    BY <2>1, <2>2 DEF ChannelPairRolledBack, PairFindsNoSlots, PairRefused
<1>4. \A id \in ObjectIds : generations[id] \in 1 .. MaxObjectGeneration
  BY DEF KernelOK
<1>5. \A id \in made : generations[id] + 1 \in 1 .. MaxObjectGeneration
  BY <1>3, <1>4, KernelNamesAssumption
<1>6. generations' \in [ObjectIds -> 1 .. MaxObjectGeneration]
  BY <1>3, <1>4, <1>5
<1>7. ObjectsKept
  <2>1. \A id \in ObjectIds : generations'[id] >= generations[id]
    BY <1>3, <1>4, KernelNamesAssumption
  <2> QED
    BY <1>2, <2>1 DEF ObjectsKept
<1> HIDE DEF r
<1>8. processes' \in ProcessesAfter
  BY <1>1, <1>2, BudgetChange
<1> QED
  BY <1>2, <1>6, <1>7, <1>8 DEF KernelOK, StepOK, ProcessesAfter

(* What the payload of an object of each kind is.                          *)
LEMMA PayloadOf ==
  ASSUME NEW o \in WellFormedObjects
  PROVE  /\ o.kind = "ChannelEndpoint" => WellFormedEndpoint(o.payload)
         /\ o.kind = "AddressSpace" => WellFormedSpace(o.payload)
         /\ o.kind = "MemoryObject" => o.payload \in MemoryObjects
<1>1. WellFormedPayload(o.kind, o.payload)
  BY ObjectParts
<1> QED
  BY <1>1, PayloadKinds

(* An object a reference to which is valid.                                *)
LEMMA ValidObject ==
  ASSUME KernelOK, NEW ref \in ObjectRefs, NEW kind, Valid(ref, kind)
  PROVE  /\ ref.id \in ObjectIds
         /\ objects[ref.id] # None
         /\ objects[ref.id] \in WellFormedObjects
         /\ objects[ref.id].kind = kind
<1>1. ref.id \in ObjectIds
  BY DEF ObjectRefs
<1> QED
  BY <1>1, LiveObject DEF Valid, Live

(* send_channel_message.                                                   *)
LEMMA ChannelSendStep ==
  ASSUME KernelOK, NEW p \in ProcessIds, Running(p),
         NEW channel \in Slots, NEW moved \in HandleLists, ChannelSend(p, channel, moved)
  PROVE  StepOK
<1> DEFINE table == Handles(p)
           peer == objects[ObjectOf(p, channel)].payload.peer
           message == [k \in DOMAIN moved |-> table.entry[moved[k]]]
           slots == {moved[k] : k \in DOMAIN moved}
           queue == Enqueue(objects[peer.id].payload, message)
<1>1. /\ Lookup(p, channel, "ChannelEndpoint", {"WRITE"})
      /\ peer # None
      /\ Valid(peer, "ChannelEndpoint")
      /\ CanEnqueue(objects[peer.id].payload)
      /\ \A k \in DOMAIN moved : Lookup(p, moved[k], table.entry[moved[k]].kind, {"TRANSFER"})
      /\ CanRemove(table, slots)
      /\ objects' = [objects EXCEPT ![peer.id].payload = queue]
      /\ processes' = [processes EXCEPT ![p].handles = RemoveEntries(Handles(p), slots)]
      /\ UNCHANGED <<generations, frames>>
  BY DEF ChannelSend, Handles
<1>2. peer \in ObjectRefs
  <2>1. WellFormedEndpoint(objects[ObjectOf(p, channel)].payload)
    BY <1>1, LookupObject, PayloadOf
  <2> QED
    BY <1>1, <2>1 DEF WellFormedEndpoint, Endpoints
<1>3. message \in Messages
  <2>1. PICK n \in 0 .. MaxMessageHandles : moved \in [1 .. n -> Slots]
    BY DEF HandleLists
  <2>2. \A k \in 1 .. n : table.entry[moved[k]] \in Entries
    BY <1>1, <2>1, LookupObject
  <2>3. n \in Nat /\ n <= MaxMessageHandles
    BY <2>1, ChannelAssumption
  <2>4. message = [k \in 1 .. n |-> table.entry[moved[k]]]
    BY <2>1
  <2> HIDE DEF message
  <2>5. message \in Seq(Entries) /\ Len(message) = n
    BY <2>2, <2>3, <2>4
  <2> QED
    BY <2>3, <2>5 DEF Messages
<1>4. /\ peer.id \in ObjectIds
      /\ objects[peer.id] \in WellFormedObjects
      /\ objects[peer.id].kind = "ChannelEndpoint"
      /\ objects[peer.id] # None
  BY <1>1, <1>2, ValidObject
<1> HIDE DEF message
<1>5. WellFormedPayload(objects[peer.id].kind, queue)
  BY <1>1, <1>3, <1>4, PayloadOf, EnqueueWellFormed, PayloadKinds
<1> HIDE DEF queue, peer
<1>6. objects' \in ObjectsAfter
  BY <1>1, <1>4, <1>5, ObjectsAfterItself, PayloadUpdate
<1>7. processes' \in ProcessesAfter
  <2>1. RemoveEntries(Handles(p), slots) \in TablesAfter(Handles(p))
    BY <1>1, RunningProcess, RemoveEntriesAfter
  <2> QED
    BY <1>1, <2>1, TableChange
<1> QED
  BY <1>1, <1>6, <1>7, QuietStep DEF KernelOK

(* recv_channel_message.                                                   *)
LEMMA ChannelRecvStep ==
  ASSUME KernelOK, NEW p \in ProcessIds, Running(p), NEW channel \in Slots,
         ChannelRecv(p, channel)
  PROVE  StepOK
<1> DEFINE id == ObjectOf(p, channel)
           endpoint == objects[id].payload
           table == PutEntries(Handles(p), NextMessage(endpoint))
<1>1. /\ Lookup(p, channel, "ChannelEndpoint", {"READ"})
      /\ Waiting(endpoint) # {}
      /\ objects' = [objects EXCEPT ![id].payload = Dequeue(endpoint)]
      /\ processes' = [processes EXCEPT ![p].handles = table]
      /\ UNCHANGED <<generations, frames>>
  BY DEF ChannelRecv, Handles
<1>2. /\ id \in ObjectIds
      /\ objects[id] \in WellFormedObjects
      /\ objects[id].kind = "ChannelEndpoint"
  BY <1>1, LookupObject
<1>3. WellFormedEndpoint(endpoint) /\ objects[id] # None
  BY <1>2, PayloadOf, ObjectParts
<1>4. WellFormedPayload(objects[id].kind, Dequeue(endpoint)) /\ NextMessage(endpoint) \in Messages
  BY <1>1, <1>2, <1>3, DequeueWellFormed, PayloadKinds
<1>5. table \in TablesAfter(Handles(p))
  BY <1>4, RunningProcess, PutEntriesAfter DEF Messages
<1> HIDE DEF table, id
<1>6. objects' \in ObjectsAfter
  BY <1>1, <1>2, <1>3, <1>4, ObjectsAfterItself, PayloadUpdate
<1>7. processes' \in ProcessesAfter
  BY <1>1, <1>5, TableChange
<1> QED
  BY <1>1, <1>6, <1>7, QuietStep DEF KernelOK

(* Counting a mapping of a memory object in and out.                       *)
LEMMA MappingCounts ==
  ASSUME NEW memory \in MemoryObjects
  PROVE  /\ AddMapping(memory) \in MemoryObjects
         /\ RemoveMapping(AddMapping(memory)) \in MemoryObjects
         /\ memory.activeMappings > 0 => RemoveMapping(memory) \in MemoryObjects
<1>1. ASSUME NEW m \in MemoryObjects, NEW n \in Nat
      PROVE  [m EXCEPT !.activeMappings = n] \in MemoryObjects
  BY DEF MemoryObjects
<1>2. memory.activeMappings \in Nat
  BY DEF MemoryObjects
<1>3. /\ AddMapping(memory) \in MemoryObjects
      /\ AddMapping(memory).activeMappings = memory.activeMappings + 1
  BY <1>1, <1>2 DEF AddMapping, MemoryObjects
<1>4. RemoveMapping(AddMapping(memory)) \in MemoryObjects
  BY <1>1, <1>2, <1>3 DEF RemoveMapping
<1>5. memory.activeMappings > 0 => RemoveMapping(memory) \in MemoryObjects
  BY <1>1, <1>2 DEF RemoveMapping
<1> QED
  BY <1>3, <1>4, <1>5

(* map_memory_object: the space and the memory object are different        *)
(* entries, because their kinds differ.                                    *)
LEMMA MapMemoryObjectStep ==
  ASSUME KernelOK, NEW p \in ProcessIds, Running(p),
         NEW space \in Slots, NEW memory \in Slots, NEW request \in MapRequests,
         MapMemoryObject(p, space, memory, request)
  PROVE  StepOK
<1> DEFINE s == ObjectOf(p, space)
           m == ObjectOf(p, memory)
           mapping == MappingFor(p, memory, request)
           counted == [objects EXCEPT ![m].payload = AddMapping(objects[m].payload)]
<1>1. /\ Lookup(p, space, "AddressSpace", {"MANAGE"})
      /\ Lookup(p, memory, "MemoryObject", request.rights)
      /\ CanMap(objects[s].payload, objects[m].payload, mapping)
      /\ objects' = [counted EXCEPT ![s].payload = CommitMap(counted[s].payload, mapping)]
      /\ UNCHANGED <<generations, processes, frames>>
  BY DEF MapMemoryObject, MayMap
<1>2. /\ s \in ObjectIds /\ objects[s] \in WellFormedObjects /\ objects[s].kind = "AddressSpace"
      /\ m \in ObjectIds /\ objects[m] \in WellFormedObjects /\ objects[m].kind = "MemoryObject"
  BY <1>1, LookupObject
<1>3. mapping \in Mappings
  <2>1. RefTo(m) \in ObjectRefs
    BY <1>2, RefType
  <2>2. /\ request.base \in Nat /\ request.size \in Nat \ {0} /\ request.offset \in Nat
        /\ request.rights \in SUBSET MappingRights
    BY <1>1, KernelAssumption DEF CanMap, MappingFor
  <2> QED
    BY <2>1, <2>2 DEF MappingFor, Mappings
<1> HIDE DEF s, m, mapping
<1>4. WellFormedPayload(objects[m].kind, AddMapping(objects[m].payload))
  BY <1>2, PayloadOf, MappingCounts, PayloadKinds
<1>5. counted \in ObjectsAfter /\ counted[s] = objects[s]
  <2>1. objects[m] # None /\ s # m
    BY <1>2, ObjectParts
  <2> QED
    BY <1>2, <1>4, <2>1, ObjectsAfterItself, PayloadUpdate
<1> HIDE DEF counted
<1>6. WellFormedSpace(CommitMap(objects[s].payload, mapping))
  <2>1. WellFormedSpace(objects[s].payload)
    BY <1>2, PayloadOf
  <2> QED
    BY <1>1, <1>3, <2>1, CommitMapWellFormed
<1>7. objects' \in ObjectsAfter
  <2>1. counted[s] # None
    BY <1>2, <1>5, ObjectParts
  <2>2. WellFormedPayload(counted[s].kind, CommitMap(counted[s].payload, mapping))
    BY <1>2, <1>5, <1>6, PayloadKinds
  <2> QED
    BY <1>1, <1>2, <1>5, <2>1, <2>2, PayloadUpdate
<1> QED
  BY <1>1, <1>7, ProcessesStay, QuietStep DEF KernelOK

(* A mapping that the address space refuses.                               *)
LEMMA MapRolledBackStep ==
  ASSUME KernelOK, NEW p \in ProcessIds, Running(p),
         NEW space \in Slots, NEW memory \in Slots, NEW request \in MapRequests,
         MapRolledBack(p, space, memory, request)
  PROVE  StepOK
<1> DEFINE m == ObjectOf(p, memory)
           restored == RemoveMapping(AddMapping(objects[m].payload))
<1>1. /\ Lookup(p, memory, "MemoryObject", request.rights)
      /\ objects' = [objects EXCEPT ![m].payload = restored]
      /\ UNCHANGED <<generations, processes, frames>>
  BY DEF MapRolledBack, MayMap
<1>2. m \in ObjectIds /\ objects[m] \in WellFormedObjects /\ objects[m].kind = "MemoryObject"
  BY <1>1, LookupObject
<1>3. WellFormedPayload(objects[m].kind, restored) /\ objects[m] # None
  BY <1>2, PayloadOf, MappingCounts, PayloadKinds, ObjectParts
<1> HIDE DEF m, restored
<1> QED
  BY <1>1, <1>2, <1>3, ObjectsAfterItself, PayloadUpdate, ProcessesStay, QuietStep DEF KernelOK

(* unmap_address_range.                                                    *)
LEMMA UnmapAddressRangeStep ==
  ASSUME KernelOK, NEW p \in ProcessIds, Running(p), NEW space \in Slots,
         NEW base, NEW size, UnmapAddressRange(p, space, base, size)
  PROVE  StepOK
<1> DEFINE s == ObjectOf(p, space)
           unmapped == CommitUnmap(objects[s].payload, base, size)
<1>1. /\ Lookup(p, space, "AddressSpace", {"MANAGE"})
      /\ CanUnmap(objects[s].payload, base, size)
      /\ objects[s].payload.nextSequence < MaxSequence
      /\ objects' = [objects EXCEPT ![s].payload = unmapped]
      /\ UNCHANGED <<generations, processes, frames>>
  BY DEF UnmapAddressRange
<1>2. s \in ObjectIds /\ objects[s] \in WellFormedObjects /\ objects[s].kind = "AddressSpace"
  BY <1>1, LookupObject
<1>3. WellFormedPayload(objects[s].kind, unmapped) /\ objects[s] # None
  BY <1>1, <1>2, PayloadOf, CommitUnmapWellFormed, PayloadKinds, ObjectParts
<1> HIDE DEF s, unmapped
<1> QED
  BY <1>1, <1>2, <1>3, ObjectsAfterItself, PayloadUpdate, ProcessesStay, QuietStep DEF KernelOK

(* take_next_tlb_work, with the reclaim it may cause.                      *)
LEMMA FlushAddressSpaceTlbStep ==
  ASSUME KernelOK, NEW p \in ProcessIds, Running(p), NEW space \in Slots,
         FlushAddressSpaceTlb(p, space)
  PROVE  StepOK
<1> DEFINE s == ObjectOf(p, space)
           memory == objects[s].payload.work[NextWork(objects[s].payload)].memory
           taken == [objects EXCEPT ![s].payload = TakeWork(objects[s].payload)]
           objs == [taken EXCEPT ![memory.id].payload = RemoveMapping(taken[memory.id].payload)]
<1>1. /\ Lookup(p, space, "AddressSpace", {"MANAGE"})
      /\ Owed(objects[s].payload) # {}
      /\ Valid(memory, "MemoryObject")
      /\ objects[memory.id].payload.activeMappings > 0
      /\ Reclaim(objs, memory.id)
      /\ UNCHANGED processes
  BY DEF FlushAddressSpaceTlb
<1>2. /\ s \in ObjectIds /\ objects[s] \in WellFormedObjects /\ objects[s].kind = "AddressSpace"
      /\ objects[s] # None
  BY <1>1, LookupObject, ObjectParts
<1>3. WellFormedSpace(objects[s].payload)
  BY <1>2, PayloadOf
<1>4. /\ NextWork(objects[s].payload) \in Owed(objects[s].payload)
      /\ WellFormedSpace(TakeWork(objects[s].payload))
  BY <1>1, <1>3, TakeWorkWellFormed
<1>5. memory \in ObjectRefs
  BY <1>3, <1>4, SpaceParts DEF Invalidations
<1>6. /\ memory.id \in ObjectIds /\ objects[memory.id] # None
      /\ objects[memory.id] \in WellFormedObjects /\ objects[memory.id].kind = "MemoryObject"
  BY <1>1, <1>5, ValidObject
<1> HIDE DEF s, memory
<1>7. taken \in ObjectsAfter /\ taken[memory.id] = objects[memory.id]
  <2>1. WellFormedPayload(objects[s].kind, TakeWork(objects[s].payload)) /\ memory.id # s
    BY <1>2, <1>4, <1>6, PayloadKinds
  <2> QED
    BY <1>2, <1>6, <2>1, ObjectsAfterItself, PayloadUpdate
<1> HIDE DEF taken
<1>8. objs \in ObjectsAfter
  <2>1. objects[memory.id].payload \in MemoryObjects
    BY <1>6, PayloadOf
  <2>2. WellFormedPayload(taken[memory.id].kind, RemoveMapping(taken[memory.id].payload))
    BY <1>1, <1>6, <1>7, <2>1, MappingCounts, PayloadKinds
  <2> QED
    BY <1>6, <1>7, <2>2, PayloadUpdate
<1> HIDE DEF objs
<1>9. /\ objects' \in ObjectTables
      /\ generations' \in [ObjectIds -> 1 .. MaxObjectGeneration]
      /\ frames' \in FrameTables(ObjectRefs)
      /\ ObjectsKept
  BY <1>1, <1>6, <1>8, ReclaimWellFormed
<1> QED
  BY <1>1, <1>9, ProcessesStay DEF KernelOK, StepOK

(* destroy: the entry goes, and at most one endpoint learns that it is     *)
(* alone.                                                                  *)
LEMMA DestroyObjectStep ==
  ASSUME KernelOK, NEW id \in ObjectIds, DestroyObject(id)
  PROVE  StepOK
<1>1. /\ objects[id] # None
      /\ generations[id] < MaxObjectGeneration
      /\ objects' = [o \in ObjectIds |->
           IF o = id THEN None
           ELSE IF LosesPeer(id, o) THEN [objects[o] EXCEPT !.payload.peerClosed = TRUE]
           ELSE objects[o]]
      /\ generations' = [generations EXCEPT ![id] = generations[id] + 1]
      /\ UNCHANGED <<processes, frames>>
  BY DEF DestroyObject
<1>2. ASSUME NEW o \in ObjectIds, LosesPeer(id, o)
      PROVE  /\ [objects[o] EXCEPT !.payload.peerClosed = TRUE] \in WellFormedObjects
             /\ [objects[o] EXCEPT !.payload.peerClosed = TRUE] # None
             /\ [objects[o] EXCEPT !.payload.peerClosed = TRUE].kind = objects[o].kind
  <2>1. WellFormedEndpoint(objects[id].payload)
    BY <1>1, <1>2, LiveObject, PayloadOf DEF LosesPeer
  <2>2. objects[id].payload.peer \in ObjectRefs
    BY <1>2, <2>1 DEF LosesPeer, WellFormedEndpoint, Endpoints
  <2>3. objects[o] \in WellFormedObjects /\ objects[o].kind = "ChannelEndpoint"
    BY <1>2, <2>2, ValidObject DEF LosesPeer
  <2> DEFINE alone == [objects[o].payload EXCEPT !.peerClosed = TRUE]
  <2>4. WellFormedPayload(objects[o].kind, alone)
    BY <2>2, <2>3, PayloadOf, PeerChangeWellFormed, PayloadKinds
  <2>5. [objects[o] EXCEPT !.payload.peerClosed = TRUE] = [objects[o] EXCEPT !.payload = alone]
    OBVIOUS
  <2> HIDE DEF alone
  <2> QED
    BY <2>3, <2>4, <2>5, PayloadWellFormed, ObjectParts
<1>3. \A o \in ObjectIds : objects'[o] \in WellFormedObjects \cup {None}
  BY <1>1, <1>2 DEF KernelOK, ObjectTables
<1>4. objects' \in ObjectTables
  BY <1>1, <1>3 DEF ObjectTables
<1>5. generations[id] + 1 \in 1 .. MaxObjectGeneration
  BY <1>1, KernelNamesAssumption DEF KernelOK
<1>6. ASSUME NEW o \in ObjectIds
      PROVE  /\ generations'[o] >= generations[o]
             /\ objects[o] # None =>
                  \/ generations'[o] > generations[o]
                  \/ objects'[o] # None /\ objects'[o].kind = objects[o].kind
  <2>1. generations[o] \in Nat /\ generations \in [ObjectIds -> 1 .. MaxObjectGeneration]
    BY KernelNamesAssumption DEF KernelOK
  <2>2. CASE o = id
    BY <1>1, <2>1, <2>2
  <2>3. CASE o # id /\ LosesPeer(id, o)
    <3>1. generations'[o] = generations[o]
      BY <1>1, <2>1, <2>3
    <3>2. objects'[o] = [objects[o] EXCEPT !.payload.peerClosed = TRUE]
      BY <1>1, <2>3
    <3>3. objects'[o] # None /\ objects'[o].kind = objects[o].kind
      BY <1>2, <2>3, <3>2
    <3> QED
      BY <2>1, <3>1, <3>3
  <2>4. CASE o # id /\ ~LosesPeer(id, o)
    BY <1>1, <2>1, <2>4
  <2> QED
    BY <2>2, <2>3, <2>4
<1> QED
  BY <1>1, <1>4, <1>5, <1>6, ProcessesStay DEF KernelOK, StepOK, ObjectsKept

(* signal_event and clear_event.                                           *)
LEMMA SetEventStep ==
  ASSUME KernelOK, NEW id \in ObjectIds, NEW state \in {"Unsignaled", "Signaled"},
         SetEvent(id, state)
  PROVE  StepOK
<1>1. WellFormedPayload(objects[id].kind, state)
  BY PayloadKinds DEF SetEvent
<1> QED
  BY <1>1, ObjectsAfterItself, PayloadUpdate, ProcessesStay, QuietStep DEF SetEvent, KernelOK

-----------------------------------------------------------------------------
(* Theorems.                                                               *)

(* Every call keeps the state well formed.                                 *)
LEMMA StepWellFormed == KernelOK /\ [Next]_vars => StepOK
<1> SUFFICES ASSUME KernelOK, [Next]_vars
             PROVE  StepOK
  OBVIOUS
<1>1. ASSUME NEW p \in ProcessIds, CreateBootstrapProcess(p)
      PROVE  StepOK
  BY <1>1, BootstrapStep
<1>2. ASSUME NEW p \in ProcessIds, Running(p), ObjectCall(p)
      PROVE  StepOK
  BY <1>2, CreateObjectStep, CreateMemoryObjectStep, CreateRolledBackStep,
     DuplicateHandleStep, CloseHandleStep, RevokeDescendantsStep DEF ObjectCall
<1>3. ASSUME NEW p \in ProcessIds, Running(p), ChannelCall(p)
      PROVE  StepOK
  BY <1>3, CreateChannelPairStep, SecondObjectRefusedStep, ChannelPairRolledBackStep,
     ChannelSendStep, ChannelRecvStep DEF ChannelCall
<1>4. ASSUME NEW p \in ProcessIds, Running(p), SpaceCall(p)
      PROVE  StepOK
  BY <1>4, MapMemoryObjectStep, MapRolledBackStep, UnmapAddressRangeStep,
     FlushAddressSpaceTlbStep DEF SpaceCall
<1>5. ASSUME HostCall
      PROVE  StepOK
  BY <1>5, DestroyObjectStep, SetEventStep DEF HostCall
<1>6. CASE UNCHANGED vars
  BY <1>6, ObjectsAfterItself, ProcessesStay, QuietStep DEF vars, KernelOK
<1> QED
  BY <1>1, <1>2, <1>3, <1>4, <1>5, <1>6 DEF Next, SystemCall

(* No call breaks the state, however many were made before.                *)
THEOREM AlwaysWellFormed == Spec => []KernelOK
<1>1. KernelOK /\ [Next]_vars => KernelOK'
  BY StepWellFormed DEF StepOK
<1> QED
  BY <1>1, InitWellFormed, PTL DEF Spec

(* Every table holds what its Rust type allows: no counter goes below      *)
(* zero, no index leaves its array, no payload has another kind's shape.   *)
THEOREM TypeCorrect == Spec => []TypeOK
<1>1. KernelOK => TypeOK
  <2> SUFFICES ASSUME KernelOK PROVE TypeOK
    OBVIOUS
  <2>1. \A id \in ObjectIds : objects[id] # None =>
          objects[id].kind \in ObjectKinds /\ objects[id] \in ObjectsOf(objects[id].kind)
    BY LiveObject, ObjectParts
  <2>2. objects = [id \in ObjectIds |-> objects[id]]
    BY DEF KernelOK, ObjectTables
  <2> QED
    BY <2>1, <2>2 DEF TypeOK, KernelOK
<1> QED
  BY <1>1, AlwaysWellFormed, PTL

(* queued_messages counts the messages of its queue and stays within the   *)
(* limit, so a send that saw room in the peer always finds a free slot.    *)
THEOREM QueuesAreCounted == Spec => []QueueCountAccurate
<1>1. KernelOK => QueueCountAccurate
  BY LiveObject, PayloadOf DEF QueueCountAccurate, OfKind, LiveIds, WellFormedEndpoint
<1> QED
  BY <1>1, AlwaysWellFormed, PTL

(* The counters by which an address space admits, refuses and is torn down *)
(* are exact, its mappings never overlap, and its pending invalidations    *)
(* are totally ordered.                                                    *)
THEOREM SpacesAreConsistent == Spec => []SpaceConsistent
<1>1. KernelOK => SpaceConsistent
  BY LiveObject, PayloadOf DEF SpaceConsistent, OfKind, LiveIds, WellFormedSpace
<1> QED
  BY <1>1, AlwaysWellFormed, PTL

(* An object id at a generation that has died never comes back to life,    *)
(* and never changes kind while it lives: a reference kept in a handle, a  *)
(* queued message, a mapping or a pending invalidation leads to the object *)
(* it was made for or is refused by validate.                              *)
THEOREM DeadStaysDead == Spec => ObjectNeverRevived
<1>1. KernelOK /\ [Next]_vars => ObjectsKept
  BY StepWellFormed DEF StepOK
<1> QED
  BY <1>1, AlwaysWellFormed, PTL DEF Spec, ObjectNeverRevived, ObjectsKept

(* A handle value that close, transfer or revocation took out of a table   *)
(* never names another entry of it.                                        *)
THEOREM HandlesAreNotReused == Spec => HandleNeverReassigned
<1> DEFINE Kept == \A p \in ProcessIds, i \in Slots : Running(p) =>
             LET before == Handles(p).entry[i]
                 after == processes'[p].handles.entry[i]
             IN  \/ processes'[p].handles.generation[i] > Handles(p).generation[i]
                 \/ /\ processes'[p].handles.generation[i] = Handles(p).generation[i]
                    /\ after = before \/ before = None
<1>1. KernelOK /\ [Next]_vars => Kept
  BY StepWellFormed DEF StepOK, ProcessesAfter, TablesAfter, SlotKept
<1> HIDE DEF Kept
<1>2. Spec => [][Kept]_vars
  BY <1>1, AlwaysWellFormed, PTL DEF Spec
<1> QED
  BY <1>2 DEF Kept, HandleNeverReassigned

=============================================================================
