---------------------------- MODULE MappingContract ----------------------------
(***************************************************************************)
(* What an address space promises, with no slots, counters or sequence     *)
(* numbers: ranges that do not overlap, and for every range ever taken     *)
(* away one invalidation, owed in the order the ranges went and handed out *)
(* in that order.  An address space that still has either does not end.    *)
(***************************************************************************)
EXTENDS Sequences, Naturals

CONSTANTS
  Spaces,      \* the address spaces that may ever exist
  MaxBacklog   \* invalidations one address space may owe

VARIABLE
  spaces  \* for each: its ranges [memory, base, size], and the ones it owes

New == [ranges |-> {}, backlog |-> <<>>]

Init == spaces = [s \in Spaces |-> New]

Disjoint(r, q) == r.base + r.size <= q.base \/ q.base + q.size <= r.base

(* One address space goes from was to is.                                  *)
Map(was, is) ==
  \E new \in is.ranges \ was.ranges :
    /\ \A r \in was.ranges : Disjoint(new, r)
    /\ is = [was EXCEPT !.ranges = @ \cup {new}]

Unmap(was, is) ==
  \E old \in was.ranges \ is.ranges :
    /\ Len(was.backlog) < MaxBacklog
    /\ is = [ranges |-> was.ranges \ {old}, backlog |-> Append(was.backlog, old)]

HandOut(was, is) ==
  /\ was.backlog # <<>>
  /\ is = [was EXCEPT !.backlog = Tail(@)]

Next ==
  \E was \in {spaces}, is \in {spaces'} : \E s \in Spaces :
    /\ Map(was[s], is[s]) \/ Unmap(was[s], is[s]) \/ HandOut(was[s], is[s])
    /\ \A t \in Spaces \ {s} : is[t] = was[t]

Spec == Init /\ [][Next]_spaces

=============================================================================
