# Ousia-OS: a verification development

TLA+ models of the Ousia-OS kernel, the TLC configurations that check them on
small instances, and TLAPS proofs of what holds for every instance. Paths are
relative to the repository (`src/` stands for its root). Everything here is
translated from the Rust code; the design documents are quoted only where the
code is compared with them.

## 1. The system

Ousia's kernel crate is a capability kernel without hardware: a state machine
`syscall::Kernel` that host tests and the kernel image drive. `Kernel::execute`
borrows the whole kernel mutably, so one call runs to completion before the
next begins. There is no concurrency inside it. What is hard is that a *long
sequence of legal calls* of several processes touches state with several
owners, counted in several places, and that calls fail half way and must undo
what they did.

| Component | State | Operations | Correct when |
|---|---|---|---|
| Handle table, `kernel/src/handle` | slots with a generation and an entry: object, rights, parent | install, lookup, duplicate, close, revoke descendants, remove for transfer, install on receive | a handle value never names a second entry; rights only shrink down a lineage; lineage has no cycle; revocation is complete |
| Objects, `kernel/src/object` | entries with kind, handle count and payload; a generation per id | create, destroy, automatic reclaim, handle counting | the count is the number of handles that exist; no handle names a later object; dead objects stay dead |
| Channel endpoints, `kernel/src/object` | message slots, queue counter, peer, peer_closed | send, receive, link, destroy | counter = occupied slots; transfer conserves handles and rights; peers agree about each other |
| Virtual memory, `kernel/src/vm` | mapping slots and their count; pending TLB work with sequence numbers; mapping count of each memory object | map, unmap, flush | no overlap; work leaves in order; memory outlives its mappings and its pending invalidations and nothing else |
| Frames, `kernel/src/memory` | per frame a generation and an owner | reserve one, reserve a run, free by reference, free by range | a frame has one owner; stale references stay stale |
| Processes, `kernel/src/process` | handle table and object budget | the per-process half of every call | budget covers what is reached; a failed call costs nothing; processes share nothing |
| System calls, `kernel/src/syscall` | the three tables above | one variant of `Syscall` per call | - |
| Boot memory, `ostd/src/mm/frame.rs` | the allocator made from the firmware map, once; a cursor per range | initialize, allocate | the map is exactly the usable pages; nothing is granted twice |
| Page-table and TLB intents, CPU topology, `ostd/src/mm/page_table.rs`, `ostd/src/cpu.rs` | none in the code; page tables, TLBs and intents in flight with whoever calls the kernel | map, unmap, invalidate; expand a CPU set | carrying the intents out gives the page tables the kernel believes in; no CPU keeps a translation nobody will invalidate |
| AArch64 boot, early heap, console, exceptions (`ostd`), kernel image (`kernel-bin`) | once flags, UART, register save area, where each CPU is | start, initialize, smoke, print, fault, report | one CPU runs; lines are whole; a report shows its own registers; the guest comes to rest |
| QEMU runner (`tools/qemu-runner`) | child, log, deadline | build, launch, clear, spawn, poll, stop | SUCCESS is earned; no child stays behind; it answers |
| x86_64 boot and consoles, error codes, documentation checker | - | - | see section 8 |

**Interactions.** A system call finds its process, looks a handle up in the
process's table, and changes the object it names. Creation takes from the
process's budget, reserves a handle slot, an object entry and, for memory,
frames, then publishes. A send moves entries out of the sender's table into a
message of the peer's queue; a receive installs them in the lowest free slots.
Neither touches the handle count. A map counts a mapping on the memory object;
an unmap moves the range to the pending TLB work; only the flush takes the
count back, and may then reclaim the memory object and its frames. The last
close of a memory object may reclaim it too: whichever of the two comes last.
Map, unmap and flush return an intent, and that is all they do to page tables and
TLBs: the caller has to carry it out. The kernel image boots on one CPU of two, calls
the kernel in a fixed sequence and prints a marker to the UART; QEMU, another
process, writes what the UART sends to a log that the runner polls.

**Hard behaviours.** Reuse of slots, ids and frames under references that
outlive them; counters kept far from what they count; calls that fail after
they reserved something; close and revoke of objects that are still in use;
handles that are in no table while they travel; host-initiated destruction under
live handles; intents that are carried out late; exceptions in the middle of
anything; a child process that may end, hang or print at any moment of a polling
loop; limits: full tables, full queues, exhausted budgets and
generations. `PROJECT.json` lists each one at its line under `hazards`.

## 2. The modules

| Module | What it is |
|---|---|
| `Options` | `None`, and the "first index such that" the code uses everywhere |
| `KernelNames` | ids, kinds, rights and object references |
| `HandleTable` | the handle table as functions from tables to tables |
| `ChannelEndpoint` | the endpoint payload and its queue |
| `AddressSpace` | memory objects, mapping tables and pending TLB work |
| `FrameAllocator` | the kernel's frame table |
| `Kernel` | the machine: four variables, one action per system call, host calls |
| `KernelInvariants` | the properties of `Kernel` |
| `CapabilityContract`, `MappingContract`, `MemoryContract` | what the kernel promises about authority, address spaces and memory, with no slots and no counters |
| `KernelContracts` | the refinement mappings: `Kernel` implements each contract |
| `CpuTopology` | snapshots of active CPUs and the expansion of a CPU set |
| `Translation` | `Kernel` composed with the intents it returns, page tables and TLBs |
| `Boot` | a boot of the AArch64 image, CPU by CPU: `_start`, early heap, smoke, console, exceptions |
| `SmokeRunner` | `Boot` composed with QEMU and the runner that watches it |
| `FrameClients` | the frame allocator alone, with callers that replay old references, and its properties |
| `EarlyFrames` | the boot-time allocator and its properties |
| `MCKernel`, `MCTranslation`, `MCSmoke`, `MCFrames`, `MCEarly` | values for the constants |
| `FrameLemmas` | what the frame table's helpers return and preserve |
| `KernelProofs` | types and counters of the kernel, and what the helpers of its components do |
| `KernelReferences`, `KernelMemory` | three more inductive invariants of the kernel, each built on the one before, what follows from them, and the three refinements |
| `TranslationProofs` | the theorems of `Translation`, on top of those of the kernel |
| `FrameClientsProofs`, `SmokeProofs`, `EarlyProofs` | the theorems of the other components |

Definitions whose names carry a suffix after an underscore and a `Mutant`
comment are broken variants of the definition below them. They are part of no
model; putting one in place of the original must break the property
`PROJECT.json` pairs it with.

### How `Kernel` corresponds to the code

| Variable | Code |
|---|---|
| `objects` | `ObjectManager.entries`, an entry or `None` |
| `generations` | `ObjectManager.generations` |
| `processes` | `ProcessTable.processes`: handle table and remaining budget |
| `frames` | `FrameAllocator.frames` |

| Action | System call or method |
|---|---|
| `CreateBootstrapProcess` | `create_bootstrap_process` |
| `CreateObject`, `CreateMemoryObject`; `CreateFindsNoSlot`, `CreateFindsNoEntry`, `CreateFindsNoFrames` (together `CreateRolledBack`) | `CreateObject`, `CreateAddressSpace`, `CreateMemoryObject`, and one action per error branch after the budget was taken |
| `DuplicateHandle`, `CloseHandle`, `RevokeDescendants` | the calls of those names |
| `CreateChannelPair`; `PairFindsNoSlots`, `PairRefused`, `PairLosesFirst` (together `ChannelPairRolledBack`), `SecondObjectRefused` | `CreateChannelPair` and its error branches: no slots for the handles, a pair the object manager refuses, a second end that cannot be made after the first one was |
| `ChannelSend`, `ChannelRecv` | the calls of those names |
| `MapMemoryObject`, `MapRolledBack`, `UnmapAddressRange`, `FlushAddressSpaceTlb` | the calls of those names |
| `DestroyObject`, `SetEvent` (together `HostCall`) | `ObjectManager::destroy`, `signal_event`, `clear_event`, which the host calls directly |

`Kernel.objects` is a public field, so a host may call any public method of
`ObjectManager`. The methods that act on objects processes hold are modelled:
`destroy` and the two on events. `create`, `create_channel_endpoint` and
`create_channel_pair` (`kernel/src/object/mod.rs:257-306`), called by the host, make
objects that no handle names and no call can reach; their own work is part of the create
calls. `add_handle` and `remove_handle` (`658-681`) are the halves of installing and
closing a handle that concern the object. A host that calls these two by itself takes
over the bookkeeping they belong to, and nothing in the repository does; they are
modelled inside the calls that pair them with a handle.

Rules of the translation:

* A call that a check refuses before anything has changed is no step. A call that
  fails after a reservation is a step with the roll back the code performs: what
  the branch takes, and what it gives back of it, are separate terms of its action
  (`ReserveObject`, `ReleaseObject`), so that a branch that forgets one of them breaks
  `NothingSpentInVain`.
* Where the code has an `expect`, an `assert` or a `checked_add(..).expect`,
  the action has a guard. That such a guard never stops a call is stated as an
  invariant, except for the exhaustion of generations and sequence numbers, whose limits
  are constants (`MaxHandleGeneration`, `MaxObjectGeneration`,
  `MaxFrameGeneration`, `MaxSequence`, all 2^64 - 1 in the code).
* Error branches that the invariants make unreachable have no action: a send that
  cannot enqueue after it saw room (`QueueCountAccurate`), an install that finds
  no slot after one was reserved, a commit that finds its entry taken.
* Sizes and addresses are in pages; `AddressLimit` stands for 2^64 bytes. A handle
  value keeps `generation % GenerationModulus`, 2^32 in the code.
* Message bytes, error codes and fields that repeat
  another field (the entry's copy of its slot's generation, the parent's
  object in a lineage) are dropped.
* A frame is its page number: the code's index into a sorted array says the same.

`EarlyFrames` keeps bytes and pages apart, because rounding is what it is about.
Every call of it holds one lock throughout, so each is one step. Its map is a
sequence of ranges; a map of one range is the `EarlyFrameAllocator` of the
code, which only its tests use.

### The contracts

Each contract is a specification of its own, and `KernelContracts` instantiates it
with what its variables are in a state of `Kernel`:

| Contract | Its variable | Is, in `Kernel` |
|---|---|---|
| `CapabilityContract` | for each object the bag of capabilities to it, each a set of rights | the entries for the object in all tables and all messages |
| `MappingContract` | for each space its ranges, and the queue of invalidations it owes | the mapping slots, and the work slots sorted by sequence number |
| `MemoryContract` | for each memory object its frames, and whether anything leads to it | the frames it owns in the table, and a search of tables, messages, mappings and pending work |

A step of the kernel is a step of the contract or none of its business. A flush
that reclaims must be exactly the last step in the life
of a memory object; an address space that ends with anything left, or a
duplicate with a right its source did not have, is a step no contract has.

For capabilities that alone would say too little: a receive that loses a handle would pass
for a step that drops one. `ImplementsCapabilities` therefore also says which action
of the contract each call is, and with which capabilities. A duplicate is
`Derive` from the source's rights to the rights asked for. A close is `Drop` of exactly the
one capability, a revocation `Drop` of exactly those of the handles it finds.
Send and receive, the calls on address spaces, the create calls that fail and the calls
of the host are `Move`: every object keeps the bag it has. What a send moves and
whose endpoint it travels through are no part of it.

`MappingContract` is not tied to calls in this way. Its two actions on the queue
differ in their effect, only an unmap appends and only a flush takes from the front, so no
other call can stand in for one of them unnoticed except by having the same effect.

### `Translation`

The kernel returns intents and never learns what became of them. The caller of
`Kernel::execute` that would perform them is not in the repository: `kernel-bin`
drops the one it gets. The model uses the weakest caller the intents make sense
for, and this is an assumption: it performs the intents in the order it got
them, one at a time, and an invalidation reaches the CPUs its CPU set expands
to at that moment. Calls and page walks of active CPUs happen between any two.
`TablesFollow` and `TranslationsCovered` say what the kernel contributes to
that: the right frames and rights in the right order, and an
invalidation, owed or in flight, for everything a CPU might still hold. A frame may
be granted again when the invalidation is in flight: without a caller that keeps
the order, the code has nothing that would prevent its use. The code says so
itself (`TODO` at `ostd/src/mm/page_table.rs:98`).

### `Boot` and `SmokeRunner`

A program counter per CPU names the function the CPU is in. A line is written in
two halves, since every place where another CPU or an exception could cut it is
the same for the reader of the log. Exceptions are numbered, and the register save area
holds the number of the one that wrote it last. A fault may happen on any CPU that
runs kernel code with the vector table installed, the handler included;
before that the CPU is lost. `passed` and `faults` record what happened, and the
code does not read them. The native smoke's calls are steps of `Kernel`; here it passes,
panics, or finds no heap.

The runner's `step` is a point between two of its own calls. QEMU is a child
that opens the log some time after it was spawned, may exit at any moment, and ends
after a kill. `kill` is taken to succeed; reading the log and `try_wait` may fail
at any time, as the code allows for.

## 3. The runs

Every run is exhaustive for its instance. All but the last three find no error.

| Run | Instance | What it shows |
|---|---|---|
| `handles` | four handle slots, events, full and weaker rights | a lineage never forms a cycle, although parents are plain handle values and slots are reused (`LineageAcyclic`); a child's rights are within its parent's (`DerivedRightsShrink`); a handle value never names a second entry (`HandleNeverReassigned`) |
| `channels` | one pair, queues of one to two messages, two handles to a message; `max_messages` 3 is refused by the code | counts include handles in flight, also when an endpoint travels through itself (`HandleCountAccurate`); queue counters are right (`QueueCountAccurate`); `CapabilityContract` is implemented and each call is the action its name says: no send or receive makes, loses or doubles a capability, and a close, a revocation or a duplicate touches exactly those it names (`ImplementsCapabilities`) |
| `spaces` | one address space or more, memory of two pages, four map requests that overlap, touch or leave the address range | `TypeOK`, `SpaceConsistent`, `MappingCountAccurate`; a busy space keeps a handle (`BusySpaceHasHandle`); revoke never stops half way (`RevokeIsComplete`); `MappingContract` is implemented (`ImplementsMappings`) |
| `memory` | memory objects that need both of two frames | memory stays as long as a mapping or an invalidation needs it (`MappedMemoryStays`) and no longer than a handle, a mapping or an invalidation does (`UnreachableMemoryReclaimed`); frames are allocated exactly for live memory (`FramesBackMemory`); no dangling handle (`NoDanglingHandle`); `MemoryContract` is implemented (`ImplementsMemory`); a create call that finds no slot, no entry or no frames keeps no budget (`NothingSpentInVain`) |
| `sharing` | two processes, three object entries, events, channel pairs and memory; the host destroys objects and sets events | a stale handle never reaches another kind of object (`NoKindConfusion`); peers agree (`PeersAgree`); dead objects stay dead (`ObjectNeverRevived`); no process reaches more objects than it has paid for (`ReachIsCharged`), and no unit of budget is gone without an object it was paid for, whichever error branch a create call left by (`NothingSpentInVain`); no object is reachable from two processes (`ProcessesConfined`) |
| `translation` | two CPUs and every snapshot of them, two frames, two map requests that swap pages, two intents in flight; events, channel pairs that carry handles of spaces and memory, and maps the space refuses happen in between | page tables end up as the kernel believes (`TablesFollow`); stale translations are owed an invalidation (`TranslationsCovered`) |
| `smoke` | two CPUs, a FIFO of two halves of lines, two faults, a deadline of two ticks, an empty or a stale log | lines are whole but for an exception report (`LineIsWhole`); a report shows its own registers (`DumpMatches`); `SuccessIsEarned`; `NoOrphan`; the runner answers (`RunnerAnswers`); the guest comes to rest with its output sent (`GuestSettles`) |
| `frames` | three frames with a hole, two owners | the rules of frame references, `CurrentRefOwnsItsFrame`, `StaleRefStaysStale`, with callers that replay every old reference and range |
| `early` | every map of one or two usable regions on ten addresses with pages of two, up to two reserved ranges, three layouts | the map is exact (`MapIsExact`); grants are disjoint, aligned, large enough and in one range |
| `revoke` | as `handles` | **violated**: closing a handle in the middle of a chain hides what was derived from it (`DescentSurvives`) |
| `wrap` | modulus 4, generations to 5 | **violated**: a slot whose generation no longer fits the handle value returns values nothing accepts (`EveryEntryNameable`) |
| `firmware` | a usable and a reserved region | **violated**: a reserved region that overlaps a usable one is not taken out (`ReservedRegionsStayOut`) |

**Bounds.** Three or four slots, ids and objects are enough for the
interesting shapes: a chain of three handles and a free slot; a pair and a
third object; a message of two handles with one of them an endpoint of the
channel itself. Two generations per slot mean every slot is reused once under
references to its first use, which is when a stale reference could be
mistaken; `frames` has three, so that a reference can be two behind. Two queue slots and two
slots of TLB work let slots be reused out of order, and `MaxSequence` 3 in
`spaces` lets the later work sit in the earlier slot. Each run turns off the calls it
is not about (empty `MemorySizes`, `MessageLimits`, `CreatableKinds`), because
their states multiply without meeting its question. The create calls fail in `sharing` for want of
budget, entries and frames, the second end of a pair included, and in `memory`, where budgets are larger than handle tables,
for want of slots. No symmetry is used: ids and slots are
ordered, since the code takes the lowest free one.

**Deadlock** is not checked: programs may stop calling, and an instance runs
out of budget and generations as the code would after very many calls. A
runner that has answered and a guest whose CPUs all wait have stopped too.

**Fairness and liveness.** `SmokeRunner` is the one specification with fairness:

| Fairness | Why the code justifies it |
|---|---|
| `WF(RunnerStep)` | the runner is a process nobody stops; between its steps it blocks only in `status` and `wait`, which are enabled when the child is gone |
| `WF(Tick)` | `Instant::now` goes on |
| `WF(QemuDies)` | a process that was killed ends |
| `WF(GuestStep(c))`, for every CPU | a CPU runs while its QEMU does |
| `WF(UartSends)` | the UART sends what it holds |

Nothing is assumed of QEMU otherwise: it may never open the log, exit, or stay for
ever, which is why `RunnerAnswers` is about the runs that have a deadline. Faults
are not fair and there are at most `MaxFaults`: a handler that faults each
time it runs would never report anything, in the code as well. A step of
`RunnerStep` is a choice of the environment too (a build that fails, a marker
that cannot be read), and fairness does not make it the lucky one.

The kernel's runs assume no fairness. The kernel is passive: nothing
happens unless a program calls, and no code in the repository obliges a
program to call, flush or receive. There is no promise of the form
"eventually" that its scheduling would justify, and none that whoever performs its
intents ever does.

## 4. What is proved

Every safety property that a passing run checks is also a theorem, for all values of the constants.
Four theorems carry a hypothesis, explained below. Liveness stays with TLC.

| Theorem | Statement |
|---|---|
| `KernelProofs!AlwaysWellFormed` | `Spec => []KernelOK` |
| `KernelProofs!TypeCorrect`, `QueuesAreCounted`, `SpacesAreConsistent` | `TypeOK`, `QueueCountAccurate`, `SpaceConsistent` |
| `KernelProofs!DeadStaysDead`, `HandlesAreNotReused` | `ObjectNeverRevived`, `HandleNeverReassigned` |
| `KernelReferences!ReferencesStayTrue` | `Spec => []ReferencesOK` |
| `KernelReferences!KindsAreNotConfused`, `HandlesAreConfined`, `DerivedHandlesLoseRights` | `NoKindConfusion`, `ProcessesConfined`, `DerivedRightsShrink` |
| `KernelReferences!AccountsStayRight` | `Spec => []AccountsOK` |
| `KernelReferences!EndsAgree`, `HandlesAreCounted`, `LineagesEnd` | `PeersAgree`, `HandleCountAccurate`, `LineageAcyclic` |
| `KernelReferences!ReachCostsItsOwner`, `FailuresCostNothing` | `ReachIsCharged`, `NothingSpentInVain` |
| `KernelReferences!RevocationCompletes` | `Spec => [](EveryEntryNameable => RevokeIsComplete)` |
| `KernelMemory!MemoryStaysRight` | `Spec => []TablesOK` |
| `KernelMemory!MappingsAreCounted`, `MappedMemoryIsThere`, `FramesBelongToMemory` | `MappingCountAccurate`, `MappedMemoryStays`, `FramesBackMemory` |
| `KernelMemory!UnreachableMemoryGoes`, `BusySpacesAreHeld` | `UnreachableMemoryReclaimed`, `BusySpaceHasHandle` |
| `KernelMemory!HandlesNeverDangle` | `Spec => []("destroy" \notin HostCalls => NoDanglingHandle)` |
| `KernelMemory!CapabilitiesAreRefined`, `MemoryIsKept`, `InvalidationsInOrder` | `Spec => Capabilities!Spec`, `ImplementsMemory`, `ImplementsMappings`: the three contracts are implemented |
| `KernelMemory!CapabilitiesAreKept` | `Spec => ([]EveryEntryNameable => ImplementsCapabilities)`: and each call is the action it should be |
| `TranslationProofs!TrailStaysRight` | `TranslationSpec => []TranslationOK` |
| `TranslationProofs!IntentsAreEnough`, `CachesAreCovered` | `TablesFollow`, `TranslationsCovered` |
| `SmokeProofs!NoOrphanHolds`, `SuccessIsEarnedHolds`, `LinesAreWhole`, `DumpsMatch` | `NoOrphan`, `SuccessIsEarned`, `LineIsWhole`, `DumpMatches` |
| `FrameClientsProofs!TypeCorrect`, `CurrentRefsOwn`, `StaleStaysStale` | `TypeOK`, `CurrentRefOwnsItsFrame`, `StaleRefStaysStale` of `FrameClients` |
| `EarlyProofs!EarlyTypeCorrect`, `MapExact`, `GrantsFit` | `TypeOK`, `MapIsExact`, `GrantsFitOneRange` of `EarlyFrames` |
| `EarlyProofs!GrantsApart` | `Spec => [](RegionsTidy => GrantsAreDisjoint)` |

**Assumptions.** All of them are `ASSUME`s with names, in the module that declares the constants:
capacities are naturals, limits are positive, the kernel's available ranges are
finitely many, not empty and disjoint (`from_available_ranges` refuses others),
the kinds and rights asked for exist, the early allocator's alignments divide the page size
or are multiples of it (both are powers of two in the code), a firmware map is a sequence of regions, and `None` is
different from every value it can stand beside.

**Hypotheses.** `RevocationCompletes` and `CapabilitiesAreKept` ask that every entry's generation fits a handle
value. The run `wrap` shows a state where that fails; there a close that
`revoke_descendants` performs is refused, and what a revocation takes is not all it found. No run that checks
`ImplementsCapabilities` reaches such a state, and `CapabilitiesAreRefined` needs no such hypothesis. `HandlesNeverDangle` is about kernels whose
host does not call `ObjectManager::destroy`, which is public and leaves handles behind;
nothing else does. `GrantsApart` asks for usable regions that do not overlap; `early` has only such maps,
and the code does not check it.

### 4.1 The kernel

Four inductive invariants, each on top of the one before.

**`KernelOK`** (`KernelProofs`). `TypeOK` is not inductive: the code subtracts from
`queued_messages`, from the mapping table's `count` and from the count of pending
work without a check, so a counter stays a natural number only because it
equals the number of occupied slots. `KernelOK` adds
`ConsistentQueue` and `ConsistentSpace` for every object. Lemmas first say what each helper
does to one component, then there is one lemma per action. Each action also leaves the
handle tables in `TablesAfter` and the objects in `ObjectsAfter`, the values
reachable by legal changes, which is where the two action properties come from.

**`ReferencesOK`** (`KernelReferences`). Every reference is at most as new as its id (`RefBehind`), the
kind an entry carries is the kind of its object while that lives, and there is an `owner`: a function
from references to processes such that whatever is in a table, or waits at an endpoint, belongs to
the process that made the object. The owner is chosen anew at each creation; the code keeps no such thing, and
a message in an endpoint's queue could not be attributed to a process
without it. `Lineage` bounds a parent's generation by that of its slot; this is what makes
`DerivedRightsShrink` survive the reuse of the parent's slot. For the proofs, each call is first reduced to what it does to
three views (`At`, `Queue`, `Peer`); the result is `StepKinds`: still, creates, duplicates,
closes, sends, receives or destroys. Everything later argues about these seven instead of
the code's actions.

**`AccountsOK`** (`KernelReferences`) adds `PeersLinked` and `CountsRight`. The handle count is the
number of places, in tables and in messages, with an entry for the object. That a transfer keeps
the number is shown by a bijection between the places before and after: the moved
handles change from slots to positions in a message and back, and a channel may carry its own endpoint.
`LineageAcyclic` needs more than lineage of rights: `Ranked` says there is a rank of
the slots that grows from parent to child, and an entry that a call puts into a free slot is ranked
one above its parent: nothing descends from a free slot. `Descendants` is a recursive function; that nobody is its own descendant follows from the rank by a
least counterexample.

Two theorems are about budgets. `ReachIsCharged` is about one process and what its
handles, and the queues they lead to, name. Entries do not say who paid for an object, so the
owner of the references is used once more: `PaidFor` says that no process owns more live objects
than it has spent, and what a process reaches it owns. A creation gives its objects to the
process it charges one unit each (`Charges`), and everything else keeps both sides or lowers the first. For `NothingSpentInVain`
the other direction is needed, that spending stays behind what was ever born: `BornGrows` says that
an object once born counts for ever, whoever destroys it, and `BuysAddToBorn` that a creation adds as many as it charges. The error
branches have to show that what they spend they return.

**`TablesOK`** (`KernelMemory`) adds `MemoryOK`: what is mapped or owed names a live memory
object (`UsesValid`), within its extent (`MappingsFit`), is counted (`UsesCounted`), and frames
are taken exactly by live memory (`FramesBacked`). Calls are reduced once more, to six `MemoryKinds`. Three extensions follow.
`ReachedOK`: a memory object has a handle or a use, a busy space a handle; it holds since the close that takes the last
handle is the one that looks at the other counter, and the other way round. `NothingDangles`: what is gone is
in no table and no message. `HoldingOK`: the same for memory even when the host destroys objects, as `destroy` refuses memory objects.

**The contracts.** `MemoryIsKept` maps each of the `MemoryKinds` to a step of
`MemoryContract`: a creation takes frames, the reclaim by a close or by a flush is its end,
and everything else changes neither frames nor whether anything leads to the object. `InvalidationsInOrder` must say what the code's
slots amount to: work items with distinct sequence numbers (`Numbered`) sorted by their `Rank` are a sequence (`InOrder`);
an unmap adds an item of greatest rank, which appends it; a flush takes the one of rank 0, and
all the others move up by one. `CapabilitiesAreRefined` counts once more, now the entries of a *class*: those for one object
with one set of rights (`CountOf`; the handle counts are the classes of all entries for an object).
Each of the `StepKinds` has its step: a creation mints the same rights to each object it makes, both ends of a pair
among them; a duplicate adds one to a class below that of its source; closes only lower the classes of one object; send and receive
leave every class as it is, by the same bijection; a destruction by the host, too, leaves the capabilities to what is gone. Which
objects were ever born follows from the generations: `StepPasses` says that a generation moves on by one and only as its object
goes, but for the pair that did not come about, whose first end nobody ever held.
`CapabilitiesAreKept` adds which call is which. For each call, the classes before and after are compared with the handles it
names: a close takes down the class of its entry by one and no other, a revocation those of the
entries it found, a duplicate adds one; `TransfersMove` has the calls that change nothing. That a revocation takes
*all* it found is `RevokesAll`, and that is where the hypothesis is used.

### 4.2 Translation

`TablesFollow` speaks of the page tables at the end of all the intents in flight, and a step may add an intent behind or
carry out the first. `TrailOK` therefore talks about the whole trail: a `History` of page tables, from the present ones through each intent
to the last, which ends with what the mappings call for (`Leads`), and at every position on the way
whatever a page maps to is `Covered`: it is what is intended, or an invalidation owed by the kernel
or in flight *behind that position* covers it. A TLB entry is covered from position 0. So carrying out an intent
shifts the trail, a walk picks up what position 0 has, and a call must show two things: that
it outdates only what it owes from now on (`Outdates`), and that an invalidation it no
longer owes is in the intent it returns (`Discharges`). `TablesOK` is needed for the frames: that the memory
under a pending invalidation still owns them. TLC checked `TrailOK` on the run's instance before it was proved.

### 4.3 Boot and runner

`NoOrphan` follows from `ChildFollows`: there is no child before `spawn` or
`launch` and no verdict before the end. `SuccessIsEarned` needs to know that what
the runner reads is true. `TextsHold` says so of every half of a line that
is on its way, in a CPU's hands or in the UART; `AnswerIsTrue` of the log from the
moment it was cleared, which is where the log of an earlier run would
break it; `Handling` says that only an exception brings a CPU to the handler. The
three, with the types, are inductive, for any number of CPUs, halves in the
FIFO, faults and ticks.

`LineIsWhole` and `DumpMatches` hold without a lock because one CPU prints: `FirstCpuOnly`. `OutputIsOrderly` relates
the output so far with what that CPU has left to print (`Printing`): the rest begins with the tail of the
line that is open, or the output is at the end of a line, or an exception report cuts in. The delicate
place is the initialization of the UART: an exception between the claim of `init_once` and its end finds the UART claimed and off, and prints to
nothing, for ever; `Printing` says that it stays off. `AreaIsOwn` says that the registers in the one save area
are those of the exception whose handler runs.

### 4.4 Frames

`FrameClients` needs no strengthening beyond its own two invariants together: a reference is never
ahead of its frame, and the frame's owner is the one of the current reference, so
a new reference differs from all older ones. References are values: two that agree in page, generation
and owner are one reference, as they would be in the code, where `FrameRef` is `Copy`.

`EarlyFrames` computes its map by a recursive function (`Segments`) and a concatenation. Every turn of the loop moves its cursor on, so
by a least counterexample over what is left of the range the recursion is well founded, and `Cut` is what it returns: ranges in the interval, apart from each other, holding exactly the addresses that are not reserved. `Joined` carries it over
the regions. `Manages` then says of every grant that it is behind its range's cursor. `MapExact` needs both
directions of the rounding; a page is in the map if and only if all its bytes are free.

### 4.5 Only model-checked

`RunnerAnswers` and `GuestSettles`: liveness under fairness is out of the
prover's reach. The properties of the three runs that find an error are false, which no proof shows.


## 5. What the models found

1. **Revocation loses descendants** (`revoke`). `descends_from` walks through live
   parents and stops at the first dead one (`kernel/src/handle/mod.rs:358`). Close or send the
   middle of a chain and the rest of it survives the revocation of the root; the
   documents promise the deletion of all live descendants. A descendant that is in flight in a
   message survives for another reason: the search covers one table and no queue.
   `design/core/01-capsule-and-capability.md:186` promises all descendants the kernel can see,
   `design/implementation/00-ousia-kernel-architecture.md:124` those in the same table. No run shows this
   second way; it is under `hazards`.
2. **Handle generations do not fit handle values** (`wrap`).
   `HandleValue::new` keeps 32 bits of a 64-bit generation
   (`kernel/src/handle/mod.rs:18`), while exhaustion is only caught at 64.
   After 2^32 reuses of a slot its handles are stale from birth and the slot is lost.
3. **Overlapping firmware regions** (`firmware`). Reserved regions of the map are
   skipped, not subtracted (`ostd/src/mm/frame.rs:162`).

Behaviour that no document rules out and no property forbids is listed with a
note under `hazards`: budget that is never given back, non-memory objects
that outlive their last handle, a busy address space whose last handle cannot
unmap, queues that are not first-in first-out once they have two slots,
handles of destroyed objects that cannot be closed, and `free_range`
without a generation check.

`MappedMemoryStays` and `UnreachableMemoryReclaimed` follow the code and its tests
(`kernel/src/syscall/tests/vm.rs:945-1028`): memory stays until the flush after its last unmap.
`design/proposals/02-kernel-memory-and-vm-foundation.md:190` and `:276` say until the final
unmap; that proposal calls itself non-normative, and this is no finding.

## 6. Running the checks

In `tla/`: `tlc -config MCSpaces.cfg MCKernel` (likewise `MCHandles`,
`MCChannels`, `MCMemory`, `MCSharing`, `MCRevoke`, `MCWrap`);
`tlc -config MCTranslation.cfg MCTranslation`; `tlc -config MCSmoke.cfg MCSmoke`;
`tlc -config MCFrames.cfg MCFrames`; `tlc -config MCEarly.cfg MCEarly` and
`MCFirmware.cfg`. No run takes more than about three minutes on two cores.

`tlapm M.tla` for each module with theorems: `FrameLemmas`, `KernelProofs`,
`KernelReferences` (six minutes), `KernelMemory` (five), `TranslationProofs`,
`FrameClientsProofs`, `SmokeProofs`, `EarlyProofs` (one to three each). `tlapm` checks the module it
is given and takes the modules it extends as proved, so all of them have to be checked.

## 7. Plan

Done, in this order: the component modules, `Kernel` and its runs, `FrameClients`,
`KernelOK` and its theorems, `EarlyFrames`; then the three contracts and
their refinements, `Translation`, `Boot` and `SmokeRunner`.

Next, models, once the code has them: the boot hand-over (whether the frames the
kernel allocator gets are what the early allocator has left; nothing connects
them yet), the completion of TLB work, and the threads and waiting that the object
kinds announce.

Proofs, done: the four invariants of the kernel and all that follows from them, the
three refinements, `Translation`, the whole of `Boot` and `SmokeRunner` but liveness, `FrameClients`
and `EarlyFrames`.

No safety property of a passing run is left to prove. What proofs could still add is to do without a hypothesis:
`RevocationCompletes`, `CapabilitiesAreKept` and `GrantsApart` would need the code to reject what theirs exclude. It does not: the run `wrap`
shows a handle whose generation does not fit, and the early allocator checks no map for overlaps.

## 8. Not modelled

* The allocator behind the early heap: third-party code.
* x86_64: a multiboot header, a jump to `kernel_main`, a VGA writer and a driver
  for a UART. No tool of the repository runs them.
* The caller that performs page-table and TLB intents: not in the repository (see
  `Translation` above). `CpuGeneration` in an intent is a number that nothing
  compares.
* Calls of the host that create objects no handle names, and `add_handle` and
  `remove_handle` called on their own (see section 2).
* Heap exhaustion inside the kernel. `recv_channel_message` takes the message off the queue before
  it reserves room for the reply's handles (`kernel/src/process/mod.rs:388`); should that fail,
  message and handles would be gone. The models assume it does not.
* A `kill` that fails and a failing `wait` in the runner (`tools/qemu-runner/src/main.rs:166-169`).
* Which error a refused call returns, and `kernel/src/error`.
* The system calls of the native smoke, one by one. They are steps of `Kernel`, but
  `kernel-bin` calls `Kernel::new(16, 1)` with two arguments where the kernel crate
  at this commit has three (`kernel/src/syscall/mod.rs:108`), so which kernel the
  smoke runs on is not determined by the sources.
* An exception between `init_once`'s flag and the end of the UART's initialization is
  modelled, and its report is lost in a UART that is off; no property forbids it, as
  no document promises more.
* The documentation checker: development tooling.
