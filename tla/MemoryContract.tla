----------------------------- MODULE MemoryContract -----------------------------
(***************************************************************************)
(* What the kernel promises about memory, with no counts: a memory object  *)
(* has its frames from the step that creates it to the step in which the   *)
(* last way to reach it goes, keeps the same ones in between, and loses    *)
(* all of them in that very step.                                          *)
(***************************************************************************)
EXTENDS Naturals

CONSTANTS
  Owners,    \* the memory objects that may ever exist
  PageRange  \* the frames there are

VARIABLE
  holds  \* for each object, its frames, and whether anything still leads to it

Nothing == [frames |-> {}, reachable |-> FALSE]

Init == holds = [o \in Owners |-> Nothing]

(* One memory object goes from was to is.                                  *)
Create(was, is, unused) ==
  /\ was = Nothing
  /\ is.reachable
  /\ is.frames # {} /\ is.frames \subseteq unused

LoseLastWay(was, is) ==
  /\ was.reachable
  /\ is = Nothing

Next ==
  \E was \in {holds}, is \in {holds'} : \E o \in Owners :
    /\ \/ Create(was[o], is[o], PageRange \ UNION {was[q].frames : q \in Owners})
       \/ LoseLastWay(was[o], is[o])
    /\ \A q \in Owners \ {o} : is[q] = was[q]

Spec == Init /\ [][Next]_holds

=============================================================================
