------------------------------- MODULE MCFrames -------------------------------
(***************************************************************************)
(* Values for the constants of FrameClients.tla.                           *)
(***************************************************************************)
EXTENDS FrameClients

(* Three frames with a hole, so that a run of two has one place to be.     *)
SplitRanges == {[start |-> 0, end |-> 1], [start |-> 2, end |-> 4]}

=============================================================================
