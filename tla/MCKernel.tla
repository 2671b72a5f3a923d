------------------------------- MODULE MCKernel -------------------------------
(***************************************************************************)
(* Values for the constants of Kernel.tla that a .cfg file cannot write.   *)
(***************************************************************************)
EXTENDS KernelContracts

AllRights == {HandleRights}

(* Everything, and a weaker grant that can be duplicated but not sent.     *)
TwoRights == {HandleRights, {"READ", "WRITE", "DUPLICATE"}}

(* Everything, and a grant to send with that can be sent on.               *)
SendRights == {HandleRights, {"WRITE", "TRANSFER"}}

(* Everything but making copies.                                            *)
UniqueRights == {HandleRights \ {"DUPLICATE"}}

NoRequests == {}

Request(base, size, offset, rights) ==
  [base |-> base, size |-> size, offset |-> offset, rights |-> rights]

(* Two pages, each of them alone, and one past the last address.           *)
Requests ==
  { Request(0, 1, 0, {"READ"}), Request(0, 2, 0, {"READ"}),
    Request(1, 1, 1, {"READ"}), Request(3, 1, 0, {"READ"}) }

(* Two ranges that overlap.                                                *)
TwoRequests == { Request(0, 1, 1, {"READ"}), Request(0, 2, 0, {"READ"}) }

OneRange == {[start |-> 0, end |-> 2]}

(* Three frames with a hole, so that a run of two has one place to be.     *)
SplitRanges == {[start |-> 0, end |-> 1], [start |-> 2, end |-> 4]}

=============================================================================
