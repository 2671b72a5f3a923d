------------------------------- MODULE Options -------------------------------
(***************************************************************************)
(* What every table of the kernel is made of: slots that hold an Option,   *)
(* searched from the front.                                                *)
(***************************************************************************)
EXTENDS Integers, FiniteSets, Sequences

CONSTANT None  \* Option::None

(* The least number of a set of slots: position() of a slot array.         *)
First(S) == CHOOSE i \in S : \A j \in S : i <= j

(* The slots of S that are empty.                                          *)
FreeIn(slots, S) == {i \in S : slots[i] = None}

=============================================================================
