----------------------------- MODULE FrameLemmas -----------------------------
(***************************************************************************)
(* What searching a table from the front gives, and what the operators of  *)
(* the frame allocator return.                                             *)
(***************************************************************************)
EXTENDS FrameAllocator, FiniteSetTheorems, TLAPS

(* A non-empty set of slots has a first one.  The intervals below its      *)
(* members are finite sets, so one of them has none of the others in it.   *)
LEMMA LeastExists ==
  ASSUME NEW S \in SUBSET Nat, S # {}
  PROVE  \E i \in S : \A j \in S : i <= j
<1> DEFINE Below == {0 .. i : i \in S}
<1>1. Below \subseteq FiniteSubsetsOf(Nat)
  <2>1. ASSUME NEW i \in S
        PROVE  0 .. i \in FiniteSubsetsOf(Nat)
    <3>1. IsFiniteSet(0 .. i)
      BY FS_Interval
    <3> QED
      BY <3>1 DEF FiniteSubsetsOf
  <2> QED
    BY <2>1
<1>2. Below # {}
  OBVIOUS
<1>3. PICK T \in Below : \A U \in Below : ~(<<U, T>> \in StrictSubsetOrdering(Nat))
  <2> HIDE DEF Below
  <2> QED
    BY <1>1, <1>2, FS_StrictSubsetOrderingWellFounded, WFMin
<1>4. PICK i \in S : T = 0 .. i
  BY <1>3
<1>5. ASSUME NEW j \in S, j < i
      PROVE  FALSE
  <2>1. 0 .. j \in Below
    OBVIOUS
  <2>2. 0 .. j \subseteq 0 .. i /\ i \in 0 .. i /\ i \notin 0 .. j
    BY <1>5
  <2>3. <<0 .. j, T>> \in StrictSubsetOrdering(Nat)
    BY <2>2, <1>4 DEF StrictSubsetOrdering
  <2> QED
    BY <2>1, <2>3, <1>3
<1> QED
  BY <1>5

(* position() on a table with an eligible slot returns an eligible slot,   *)
(* and the first of them.                                                  *)
LEMMA FirstIsLeast ==
  ASSUME NEW S \in SUBSET Nat, S # {}
  PROVE  First(S) \in S /\ \A j \in S : First(S) <= j
BY LeastExists DEF First

-----------------------------------------------------------------------------
(* Frames.                                                                 *)

(* A managed frame has a page number.                                      *)
LEMMA PagesAreNaturals == Pages \subseteq Nat
BY AvailableRangesAssumption DEF Pages, PagesOf

(* A run the allocator found consists of free frames.                      *)
LEMMA FreeRunIsFree ==
  ASSUME NEW owners, NEW f \in FrameTables(owners), NEW n \in Nat, RunStarts(f, n) # {}
  PROVE  /\ FreeRun(f, n) \in FrameRanges
         /\ PagesOf(FreeRun(f, n)) \subseteq Free(f)
<1>1. RunStarts(f, n) \in SUBSET Nat
  BY PagesAreNaturals DEF RunStarts, Free
<1>2. First(RunStarts(f, n)) \in RunStarts(f, n)
  BY <1>1, FirstIsLeast
<1> DEFINE start == First(RunStarts(f, n))
<1>3. start \in Nat /\ n > 0
  BY <1>1, <1>2 DEF RunStarts
<1>4. FreeRun(f, n) = [start |-> start, end |-> start + n]
  BY DEF FreeRun
<1>5. start .. start + n - 1 \subseteq Free(f)
  BY <1>2 DEF RunStarts
<1> HIDE DEF start
<1>6. FreeRun(f, n) \in FrameRanges
  BY <1>3, <1>4 DEF FrameRanges
<1>7. PagesOf(FreeRun(f, n)) = start .. start + n - 1
  BY <1>3, <1>4 DEF PagesOf
<1> QED
  BY <1>5, <1>6, <1>7

(* Granting keeps the shape of the frame table.                            *)
LEMMA GrantType ==
  ASSUME NEW owners, NEW f \in FrameTables(owners), NEW pages, NEW owner \in owners
  PROVE  Grant(f, pages, owner) \in FrameTables(owners)
BY DEF Grant, FrameTables

(* So does releasing, short of the last generation.                        *)
LEMMA ReleaseType ==
  ASSUME NEW owners, NEW f \in FrameTables(owners), NEW pages, CanRelease(f, pages)
  PROVE  Release(f, pages) \in FrameTables(owners)
<1>1. ASSUME NEW p \in Pages, p \in pages
      PROVE  f[p].generation + 1 \in 1 .. MaxFrameGeneration
  BY <1>1, FrameAssumption DEF CanRelease, FrameTables
<1> QED
  BY <1>1 DEF Release, FrameTables

=============================================================================
