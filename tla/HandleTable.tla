----------------------------- MODULE HandleTable -----------------------------
(***************************************************************************)
(* The process-local handle table of kernel/src/handle/mod.rs.             *)
(*                                                                         *)
(* A table is a value, as it is in the code: an array of slots, each with  *)
(* at most one entry and with the generation that a handle value must      *)
(* carry to name that entry.  The operators below are the methods of       *)
(* HandleTable as functions from tables to tables; Kernel.tla applies them *)
(* to the table of the calling process.                                    *)
(*                                                                         *)
(* Two fields of the code are not kept because they repeat another one:    *)
(* an entry's entry_generation always equals the generation of the slot    *)
(* it stands in (install_reserved and install_entry copy it, remove_entry  *)
(* changes the slot's only once the entry is gone), and a lineage names    *)
(* the object of the entry it was copied from (duplicate).                 *)
(***************************************************************************)
EXTENDS KernelNames

CONSTANTS
  HandleCapacity,       \* slots of a table (HandleTable::with_capacity)
  MaxHandleGeneration,  \* where HandleGeneration::next panics: u64::MAX
  GenerationModulus     \* what HandleValue keeps of a generation: 2^32

ASSUME HandleTableAssumption ==
  /\ HandleCapacity \in Nat
  /\ MaxHandleGeneration \in Nat \ {0}
  /\ GenerationModulus \in Nat \ {0}

Slots == 0 .. HandleCapacity - 1

HandleValues == [index : Slots, generation : 0 .. GenerationModulus - 1]

Entries ==
  [ object : ObjectRefs,
    kind   : ObjectKinds,
    rights : SUBSET HandleRights,
    parent : HandleValues \cup {None} ]

ASSUME NoneIsNothing == None \notin Entries /\ None \notin HandleValues

Tables ==
  [ entry      : [Slots -> Entries \cup {None}],
    generation : [Slots -> 1 .. MaxHandleGeneration] ]

EmptyTable ==
  [ entry |-> [i \in Slots |-> None], generation |-> [i \in Slots |-> 1] ]

-----------------------------------------------------------------------------
(* Handle values and lookup.                                               *)

Occupied(t) == {i \in Slots : t.entry[i] # None}

FreeSlots(t) == Slots \ Occupied(t)

(* HandleValue::new packs a generation into the upper half of a u64, which *)
(* keeps its low 32 bits.                                                  *)
HandleOf(t, i) ==
  [index |-> i, generation |-> t.generation[i] % GenerationModulus]

(* valid_entry: the slot holds an entry and its whole generation is the    *)
(* one in the handle.                                                      *)
ValidHandle(t, h) ==
  /\ t.entry[h.index] # None
  /\ t.generation[h.index] = h.generation

(* The slots whose handle value the owner can still use.                   *)
Nameable(t) == {i \in Occupied(t) : ValidHandle(t, HandleOf(t, i))}

-----------------------------------------------------------------------------
(* Installing and removing entries.                                        *)

PutEntry(t, e) == [t EXCEPT !.entry[First(FreeSlots(t))] = e]

(* The loop of install_entry over a received message: entry k goes to the  *)
(* k-th free slot and keeps its rights and its parent.                     *)
FreeRank(t, i) == Cardinality({j \in FreeSlots(t) : j <= i})

(* Mutant: the last handle of a message is dropped on receipt.             *)
PutEntries_DropsLast(t, es) ==
  [t EXCEPT !.entry =
     [i \in Slots |->
        IF i \in FreeSlots(t) /\ FreeRank(t, i) < Len(es)
        THEN es[FreeRank(t, i)]
        ELSE t.entry[i]]]

PutEntries(t, es) ==
  [t EXCEPT !.entry =
     [i \in Slots |->
        IF i \in FreeSlots(t) /\ FreeRank(t, i) <= Len(es)
        THEN es[FreeRank(t, i)]
        ELSE t.entry[i]]]

(* remove_entry on every slot of a set: the entry goes and the generation  *)
(* of the slot moves on, so that no old handle value names the next entry. *)
CanRemove(t, S) == \A i \in S : t.generation[i] < MaxHandleGeneration

(* Mutant: an emptied slot keeps its generation.                           *)
RemoveEntries_SameGeneration(t, S) ==
  [t EXCEPT !.entry = [i \in Slots |-> IF i \in S THEN None ELSE t.entry[i]]]

RemoveEntries(t, S) ==
  [ entry      |-> [i \in Slots |-> IF i \in S THEN None ELSE t.entry[i]],
    generation |-> [i \in Slots |-> IF i \in S THEN t.generation[i] + 1
                                               ELSE t.generation[i]] ]

-----------------------------------------------------------------------------
(* Derivation.                                                             *)

(* The entry duplicate() leaves in the new slot.                           *)
DerivedEntry(t, source, rights) ==
  [t.entry[source] EXCEPT !.rights = rights, !.parent = HandleOf(t, source)]

(* Mutant: a duplicate may have any rights.                                *)
CanDerive_AnyRights(t, source, rights) == "DUPLICATE" \in t.entry[source].rights

CanDerive(t, source, rights) ==
  /\ "DUPLICATE" \in t.entry[source].rights
  /\ rights \subseteq t.entry[source].rights

(* descends_from: walk the parents until one is the root.  A parent whose  *)
(* handle is no longer valid ends the walk.                                *)
Child(t, i, j) ==
  /\ i \in Occupied(t)
  /\ j \in Occupied(t)
  /\ t.entry[j].parent # None
  /\ t.entry[j].parent.index = i
  /\ t.entry[j].parent.generation = t.generation[i]

Descendants(t, root) ==
  LET Within[n \in 0 .. HandleCapacity] ==
        IF n = 0
        THEN {j \in Slots : Child(t, root, j) /\ t.entry[j].object = t.entry[root].object}
        ELSE LET nearer == Within[n - 1]
             IN  nearer \cup {j \in Slots : \E i \in nearer : Child(t, i, j)}
  IN  {j \in Slots : j \in Within[HandleCapacity]}

=============================================================================
