-------------------------- MODULE FrameClientsProofs --------------------------
(***************************************************************************)
(* Why a frame reference that was freed can never free its frame again.    *)
(***************************************************************************)
EXTENDS FrameClients, FrameLemmas

(* The type invariant of FrameClients, for every set of frames and owners. *)
THEOREM TypeCorrect == Spec => []TypeOK
<1>1. Init => TypeOK
  BY FrameAssumption DEF Init, TypeOK, InitialFrames, FrameTables
<1>2. TypeOK /\ [Next]_vars => TypeOK'
  <2> SUFFICES ASSUME TypeOK, [Next]_vars
               PROVE  TypeOK'
    OBVIOUS
  <2>1. ASSUME NEW owner \in Owners, ReserveOne(owner)
        PROVE  TypeOK'
    <3>1. First(Free(frames)) \in Pages
      <4>1. Free(frames) \in SUBSET Nat
        BY PagesAreNaturals DEF Free
      <4> QED
        BY <2>1, <4>1, FirstIsLeast DEF ReserveOne, Free
    <3>2. frames' \in FrameTables(Owners)
      BY <2>1, GrantType DEF ReserveOne, TypeOK
    <3>3. refs' \subseteq FrameRefs
      BY <2>1, <3>1 DEF ReserveOne, TypeOK, FrameRefs, FrameTables
    <3> QED
      BY <2>1, <3>2, <3>3 DEF ReserveOne, TypeOK
  <2>2. ASSUME NEW owner \in Owners, NEW n \in 1 .. Cardinality(Pages),
               ReserveContiguous(owner, n)
        PROVE  TypeOK'
    <3>1. n \in Nat
      OBVIOUS
    <3>2. FreeRun(frames, n) \in FrameRanges
      BY <2>2, <3>1, FreeRunIsFree DEF ReserveContiguous, TypeOK
    <3>3. frames' \in FrameTables(Owners)
      BY <2>2, GrantType DEF ReserveContiguous, TypeOK
    <3> QED
      BY <2>2, <3>2, <3>3 DEF ReserveContiguous, TypeOK
  <2>3. ASSUME NEW ref \in refs, FreeOne(ref)
        PROVE  TypeOK'
    BY <2>3, ReleaseType DEF FreeOne, TypeOK
  <2>4. ASSUME NEW run \in runs, FreeRange(run.range, run.owner)
        PROVE  TypeOK'
    BY <2>4, ReleaseType DEF FreeRange, TypeOK
  <2>5. CASE UNCHANGED vars
    BY <2>5 DEF vars, TypeOK
  <2> QED
    BY <2>1, <2>2, <2>3, <2>4, <2>5 DEF Next
<1> QED
  BY <1>1, <1>2, PTL DEF Spec

-----------------------------------------------------------------------------
(* References.                                                             *)

(* No reference to a free frame is current, so the next grant of that      *)
(* frame starts with a generation no reference has.                        *)
LEMMA FreeFrameHasNoCurrentRef ==
  ASSUME TypeOK, CurrentRefOwnsItsFrame, NEW p \in Free(frames),
         NEW ref \in refs, ref.page = p
  PROVE  ref.generation < frames[p].generation
<1>1. ref.owner # None
  BY NoneIsNoOwner DEF TypeOK, FrameRefs
<1>2. frames[p].owner = None /\ p \in Pages
  BY DEF Free
<1>3. ref.generation # frames[p].generation
  BY <1>1, <1>2 DEF CurrentRefOwnsItsFrame
<1>4. ref.generation <= frames[p].generation
  BY DEF CurrentRefOwnsItsFrame
<1>5. ref.generation \in Int /\ frames[p].generation \in Int
  BY <1>2 DEF TypeOK, FrameRefs, FrameTables
<1> QED
  BY <1>3, <1>4, <1>5

(* Handing out free frames leaves the references there are in order.       *)
LEMMA GrantKeepsRefs ==
  ASSUME TypeOK, CurrentRefOwnsItsFrame, NEW pages \in SUBSET Free(frames),
         NEW owner, NEW ref \in refs, frames' = Grant(frames, pages, owner)
  PROVE  /\ ref.generation <= frames'[ref.page].generation
         /\ ref.generation = frames'[ref.page].generation =>
              frames'[ref.page].owner = ref.owner
<1>1. ref.page \in Pages
  BY DEF TypeOK, FrameRefs
<1>2. ref.generation \in Int /\ frames[ref.page].generation \in Int
  BY <1>1 DEF TypeOK, FrameRefs, FrameTables
<1>3. frames'[ref.page].generation = frames[ref.page].generation
  BY <1>1 DEF Grant, TypeOK, FrameTables
<1>4. CASE ref.page \in pages
  <2>1. ref.generation < frames[ref.page].generation
    BY <1>4, FreeFrameHasNoCurrentRef
  <2> QED
    BY <2>1, <1>2, <1>3
<1>5. CASE ref.page \notin pages
  BY <1>1, <1>3, <1>5 DEF Grant, CurrentRefOwnsItsFrame
<1> QED
  BY <1>4, <1>5

(* Freeing frames makes every reference to them stale.                     *)
LEMMA ReleaseKeepsRefs ==
  ASSUME TypeOK, CurrentRefOwnsItsFrame, NEW pages, NEW ref \in refs,
         frames' = Release(frames, pages)
  PROVE  /\ ref.generation <= frames'[ref.page].generation
         /\ ref.generation = frames'[ref.page].generation =>
              frames'[ref.page].owner = ref.owner
<1>1. ref.page \in Pages
  BY DEF TypeOK, FrameRefs
<1>2. ref.generation \in Int /\ frames[ref.page].generation \in Int
  BY <1>1 DEF TypeOK, FrameRefs, FrameTables
<1>3. ref.generation <= frames[ref.page].generation
  BY DEF CurrentRefOwnsItsFrame
<1>4. CASE ref.page \in pages
  <2>1. frames'[ref.page].generation = frames[ref.page].generation + 1
    BY <1>1, <1>4 DEF Release
  <2> QED
    BY <2>1, <1>2, <1>3
<1>5. CASE ref.page \notin pages
  BY <1>1, <1>5 DEF Release, CurrentRefOwnsItsFrame
<1> QED
  BY <1>4, <1>5

(* One step of any caller keeps it.                                        *)
LEMMA RefStep == TypeOK /\ CurrentRefOwnsItsFrame /\ [Next]_vars => CurrentRefOwnsItsFrame'
<1> SUFFICES ASSUME TypeOK, CurrentRefOwnsItsFrame, [Next]_vars
             PROVE  CurrentRefOwnsItsFrame'
  OBVIOUS
<1>1. ASSUME NEW owner \in Owners, ReserveOne(owner)
      PROVE  CurrentRefOwnsItsFrame'
  <2> DEFINE p == First(Free(frames))
             new == [page |-> p, generation |-> frames[p].generation, owner |-> owner]
  <2>1. p \in Free(frames) /\ p \in Pages
    <3>1. Free(frames) \in SUBSET Nat
      BY PagesAreNaturals DEF Free
    <3> QED
      BY <1>1, <3>1, FirstIsLeast DEF ReserveOne, Free
  <2>2. frames' = Grant(frames, {p}, owner) /\ refs' = refs \cup {new}
    BY <1>1 DEF ReserveOne
  <2> HIDE DEF p
  <2>3. frames'[p].generation = frames[p].generation /\ frames'[p].owner = owner
    BY <2>1, <2>2 DEF Grant, TypeOK, FrameTables
  <2>4. frames[p].generation \in Int
    BY <2>1 DEF TypeOK, FrameTables
  <2>5. ASSUME NEW ref \in refs
        PROVE  /\ ref.generation <= frames'[ref.page].generation
               /\ ref.generation = frames'[ref.page].generation =>
                    frames'[ref.page].owner = ref.owner
    BY <2>1, <2>2, GrantKeepsRefs
  <2>6. CurrentRefOwnsItsFrame'
    BY <2>2, <2>3, <2>4, <2>5 DEF CurrentRefOwnsItsFrame
  <2> QED
    BY <2>6
<1>2. ASSUME NEW owner \in Owners, NEW n \in 1 .. Cardinality(Pages),
             ReserveContiguous(owner, n)
      PROVE  CurrentRefOwnsItsFrame'
  <2>1. PagesOf(FreeRun(frames, n)) \in SUBSET Free(frames)
    BY <1>2, FreeRunIsFree DEF ReserveContiguous, TypeOK
  <2>2. /\ frames' = Grant(frames, PagesOf(FreeRun(frames, n)), owner)
        /\ refs' = refs
    BY <1>2 DEF ReserveContiguous
  <2>3. CurrentRefOwnsItsFrame'
    BY <2>1, <2>2, GrantKeepsRefs DEF CurrentRefOwnsItsFrame
  <2> QED
    BY <2>3
<1>3. ASSUME NEW pages, frames' = Release(frames, pages), refs' = refs
      PROVE  CurrentRefOwnsItsFrame'
  <2>1. CurrentRefOwnsItsFrame'
    BY <1>3, ReleaseKeepsRefs DEF CurrentRefOwnsItsFrame
  <2> QED
    BY <2>1
<1>4. ASSUME NEW ref \in refs, FreeOne(ref)
      PROVE  CurrentRefOwnsItsFrame'
  BY <1>3, <1>4 DEF FreeOne
<1>5. ASSUME NEW run \in runs, FreeRange(run.range, run.owner)
      PROVE  CurrentRefOwnsItsFrame'
  BY <1>3, <1>5 DEF FreeRange
<1>6. CASE UNCHANGED vars
  BY <1>6 DEF vars, CurrentRefOwnsItsFrame
<1> QED
  BY <1>1, <1>2, <1>4, <1>5, <1>6 DEF Next

(* free can tell a stale reference from a current one by comparing it with *)
(* the frame.                                                              *)
THEOREM CurrentRefsOwn == Spec => []CurrentRefOwnsItsFrame
<1>1. Init => CurrentRefOwnsItsFrame
  BY DEF Init, CurrentRefOwnsItsFrame
<1> QED
  BY <1>1, RefStep, TypeCorrect, PTL DEF Spec

-----------------------------------------------------------------------------

(* A frame's generation never goes back.                                   *)
LEMMA GenerationsGrow ==
  ASSUME TypeOK, [Next]_vars, NEW p \in Pages
  PROVE  frames[p].generation <= frames'[p].generation
<1>0. frames[p].generation \in Int
  BY DEF TypeOK, FrameTables
<1>1. ASSUME NEW pages, NEW owner, frames' = Grant(frames, pages, owner)
      PROVE  frames[p].generation <= frames'[p].generation
  <2>1. frames'[p].generation = frames[p].generation
    BY <1>1 DEF Grant, TypeOK, FrameTables
  <2> QED
    BY <2>1, <1>0
<1>2. ASSUME NEW pages, frames' = Release(frames, pages)
      PROVE  frames[p].generation <= frames'[p].generation
  <2>1. frames'[p].generation \in {frames[p].generation, frames[p].generation + 1}
    BY <1>2 DEF Release
  <2> QED
    BY <2>1, <1>0
<1>3. CASE UNCHANGED vars
  BY <1>0, <1>3 DEF vars
<1> QED
  BY <1>1, <1>2, <1>3 DEF Next, ReserveOne, ReserveContiguous, FreeOne, FreeRange

(* A reference that free rejects is rejected for ever, whatever is freed   *)
(* and granted in between.                                                 *)
THEOREM StaleStaysStale == Spec => StaleRefStaysStale
<1>1. ASSUME TypeOK, TypeOK', CurrentRefOwnsItsFrame, [Next]_vars
      PROVE  \A ref \in refs : ~Accepts(frames, ref) => ~Accepts(frames', ref)
  <2> SUFFICES ASSUME NEW ref \in refs, ~Accepts(frames, ref)
               PROVE  ~Accepts(frames', ref)
    OBVIOUS
  <2>1. ref.page \in Pages /\ ref.generation \in Int
    BY <1>1 DEF TypeOK, FrameRefs
  <2>2. frames[ref.page].generation \in Int /\ frames'[ref.page].generation \in Int
    BY <1>1, <2>1 DEF TypeOK, FrameTables
  <2>3. ref.generation < frames[ref.page].generation
    BY <1>1, <2>1, <2>2 DEF Accepts, CurrentRefOwnsItsFrame
  <2>4. frames[ref.page].generation <= frames'[ref.page].generation
    BY <1>1, <2>1, GenerationsGrow
  <2> QED
    BY <2>1, <2>2, <2>3, <2>4 DEF Accepts
<1> QED
  BY <1>1, TypeCorrect, CurrentRefsOwn, PTL DEF Spec, StaleRefStaysStale

=============================================================================
