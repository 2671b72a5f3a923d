-------------------------- MODULE CapabilityContract --------------------------
(***************************************************************************)
(* What the kernel promises about authority, with no handles, slots,       *)
(* tables, messages or counts: for every object that ever existed, the     *)
(* capabilities to it that exist, each a set of rights.                    *)
(*                                                                         *)
(* A capability comes into being with its object or as a narrower copy of  *)
(* one that may be copied, and it goes away by being dropped.  Each action *)
(* says which capabilities: was and is are the bags before and after it.   *)
(***************************************************************************)
EXTENDS Bags, Naturals

CONSTANTS
  Refs,    \* the objects that may ever exist
  Rights,  \* the rights a capability may carry
  Copy     \* the right to make a copy

VARIABLES
  born,  \* the objects that exist or existed
  caps   \* for each object, the bag of capabilities to it

vars == <<born, caps>>

Init ==
  /\ born = {}
  /\ caps = [r \in Refs |-> EmptyBag]

One(rights) == SetToBag({rights})

(* The bag of r is the only one that may change.                           *)
OnlyAt(r, was, is) == \A q \in Refs \ {r} : is[q] = was[q]

(* New objects, each with one capability, all with the same rights.        *)
Mint(was, is) ==
  /\ born \subseteq born' /\ born # born'
  /\ \E rights \in SUBSET Rights : \A r \in Refs :
       is[r] = IF r \in born' \ born THEN One(rights) ELSE was[r]

(* An object that was never handed to anyone.                              *)
Abort(was, is) ==
  /\ is = was
  /\ \E r \in Refs \ born : born' = born \cup {r}

(* One more capability to r, no wider than one there is with rights source.*)
Derive(was, is, r, source, rights) ==
  /\ BagIn(source, was[r])
  /\ Copy \in source
  /\ rights \subseteq source
  /\ is[r] = was[r] (+) One(rights)
  /\ OnlyAt(r, was, is)
  /\ UNCHANGED born

(* The capabilities to r in gone go, and no others.                        *)
Drop(was, is, r, gone) ==
  /\ gone \sqsubseteq was[r]
  /\ is[r] = was[r] (-) gone
  /\ OnlyAt(r, was, is)
  /\ UNCHANGED born

(* The same capabilities, wherever they are now.                           *)
Move(was, is) == is = was /\ UNCHANGED born

Next ==
  \E was \in {caps}, is \in {caps'} :
    \/ Abort(was, is)
    \/ Mint(was, is)
    \/ \E r \in Refs : \E source \in BagToSet(was[r]) : \E rights \in SUBSET source :
         Derive(was, is, r, source, rights)
    \/ \E r \in Refs : Drop(was, is, r, was[r] (-) is[r])

Spec == Init /\ [][Next]_vars

=============================================================================
