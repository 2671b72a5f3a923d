----------------------------- MODULE FrameClients -----------------------------
(***************************************************************************)
(* The frame allocator and the callers of its public methods               *)
(* (kernel/src/memory/frame.rs).  FrameRef and FrameRange are Copy: a      *)
(* caller may keep one after it was freed and present it again, so the     *)
(* machine remembers every reference and every range ever handed out and   *)
(* lets any of them come back at any time, in any order.                   *)
(***************************************************************************)
EXTENDS FrameAllocator

CONSTANT Owners  \* the FrameOwner values in use

ASSUME NoneIsNoOwner == None \notin Owners

VARIABLES
  frames,  \* FrameAllocator.frames
  refs,    \* every FrameRef reserve_one has returned
  runs     \* every FrameRange reserve_contiguous has returned, with its owner

vars == <<frames, refs, runs>>

FrameRefs == [page : Pages, generation : 1 .. MaxFrameGeneration, owner : Owners]

Init ==
  /\ frames = InitialFrames
  /\ refs = {}
  /\ runs = {}

(* Two equal references are one value, and free cannot tell them apart, so *)
(* a set of them says all there is.                                        *)
ReserveOne(owner) ==
  /\ Free(frames) # {}
  /\ LET p == First(Free(frames))
     IN  /\ frames' = Grant(frames, {p}, owner)
         /\ refs' = refs \cup
              {[page |-> p, generation |-> frames[p].generation, owner |-> owner]}
  /\ UNCHANGED runs

ReserveContiguous(owner, n) ==
  /\ RunStarts(frames, n) # {}
  /\ LET run == FreeRun(frames, n)
     IN  /\ frames' = Grant(frames, PagesOf(run), owner)
         /\ runs' = runs \cup {[range |-> run, owner |-> owner]}
  /\ UNCHANGED refs

(* free: the generation must be the frame's and the owner must be the one  *)
(* the frame was given to.                                                 *)
Accepts(f, ref) ==
  /\ f[ref.page].generation = ref.generation
  /\ f[ref.page].owner = ref.owner

FreeOne(ref) ==
  /\ Accepts(frames, ref)
  /\ CanRelease(frames, {ref.page})
  /\ frames' = Release(frames, {ref.page})
  /\ UNCHANGED <<refs, runs>>

FreeRange(range, owner) ==
  /\ OwnsRange(frames, range, owner)
  /\ CanRelease(frames, PagesOf(range))
  /\ frames' = Release(frames, PagesOf(range))
  /\ UNCHANGED <<refs, runs>>

Next ==
  \/ \E owner \in Owners : ReserveOne(owner)
  \/ \E owner \in Owners, n \in 1 .. Cardinality(Pages) : ReserveContiguous(owner, n)
  \/ \E ref \in refs : FreeOne(ref)
  \/ \E run \in runs : FreeRange(run.range, run.owner)

Spec == Init /\ [][Next]_vars

-----------------------------------------------------------------------------

(* Frames have an owner or none and a generation; references name frames.  *)
TypeOK ==
  /\ frames \in FrameTables(Owners)
  /\ refs \subseteq FrameRefs
  /\ runs \subseteq [range : FrameRanges, owner : Owners]

(* No reference is ahead of its frame, and one whose generation is current *)
(* names the frame's owner: free can reject every reference by comparing   *)
(* it with the frame, whatever was freed and granted again in between, by  *)
(* reference or by range.                                                  *)
CurrentRefOwnsItsFrame ==
  \A ref \in refs :
    /\ ref.generation <= frames[ref.page].generation
    /\ ref.generation = frames[ref.page].generation =>
         frames[ref.page].owner = ref.owner

(* A reference that free rejects is rejected for ever: it cannot come back *)
(* to life when its frame is granted again, to the same owner included.    *)
StaleRefStaysStale ==
  [][\A ref \in refs : ~Accepts(frames, ref) => ~Accepts(frames', ref)]_vars

=============================================================================
