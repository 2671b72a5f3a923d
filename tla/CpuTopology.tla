------------------------------ MODULE CpuTopology ------------------------------
(***************************************************************************)
(* Which CPUs a TLB invalidation is for (ostd/src/cpu.rs): a snapshot of   *)
(* the active CPUs, and the expansion of a symbolic CpuSet against it.     *)
(***************************************************************************)
EXTENDS Naturals, Sequences, SequencesExt

CONSTANTS
  CpuIds,   \* every CPU there could be
  MaxCpus   \* N, the slots of a snapshot

ASSUME CpuTopologyAssumption == MaxCpus \in Nat

AllActive == "AllActive"
One(cpu) == <<cpu>>

(* from_active: the lists it makes a snapshot of.                          *)
Snapshots ==
  {cpus \in BoundedSeq(CpuIds, MaxCpus) : cpus # <<>> /\ IsInjective(cpus)}

ActiveCpus(snapshot) == {snapshot[k] : k \in DOMAIN snapshot}

(* expand refuses a CPU the snapshot does not hold, with UnknownCpu.       *)
CanExpand(snapshot, set) == set # AllActive => set[1] \in ActiveCpus(snapshot)

(* Mutant: the last CPU of the snapshot is not counted.                    *)
Expand_DropsLast(snapshot, set) ==
  IF set = AllActive THEN {snapshot[k] : k \in 1 .. Len(snapshot) - 1} ELSE {set[1]}

Expand(snapshot, set) ==
  IF set = AllActive THEN ActiveCpus(snapshot) ELSE {set[1]}

=============================================================================
