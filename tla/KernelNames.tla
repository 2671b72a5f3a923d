----------------------------- MODULE KernelNames -----------------------------
(***************************************************************************)
(* The names the kernel's modules share: references to objects, object     *)
(* kinds and handle rights (kernel/src/object/mod.rs, handle/mod.rs).      *)
(***************************************************************************)
EXTENDS Options

CONSTANTS
  ObjectCapacity,       \* slots of the object table
  MaxObjectGeneration   \* where ObjectGeneration::next panics: u64::MAX

ASSUME KernelNamesAssumption ==
  ObjectCapacity \in Nat /\ MaxObjectGeneration \in Nat \ {0}

ObjectIds == 0 .. ObjectCapacity - 1

ObjectKinds ==
  {"Process", "ChannelEndpoint", "Event", "MemoryObject", "AddressSpace", "Thread"}

HandleRights ==
  {"READ", "WRITE", "EXECUTE", "TRANSFER", "DUPLICATE", "MANAGE"}

MappingRights == {"READ", "WRITE", "EXECUTE"}

ObjectRefs == [id : ObjectIds, generation : 1 .. MaxObjectGeneration]

ASSUME NoneIsNoRef == None \notin ObjectRefs

=============================================================================
