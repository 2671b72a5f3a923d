-------------------------------- MODULE MCEarly --------------------------------
(***************************************************************************)
(* Values for the constants of EarlyFrames.tla: addresses 0 .. 9 in pages  *)
(* of two, so that a region can begin or end inside a page and reach the   *)
(* last address.                                                           *)
(***************************************************************************)
EXTENDS EarlyFrames

Intervals(points) == {r \in [start : points, end : points] : r.start < r.end}

Regions(kinds) ==
  {[start |-> r.start, end |-> r.end, kind |-> k] : r \in Intervals(0 .. 9 \ {5}), k \in kinds}

(* Up to two reserved ranges: apart, touching, nested or overlapping.      *)
ReservedSets == {{r, s} : r, s \in Intervals({0, 2, 4, 6, 8})} \cup {{}}

(* One usable region, or two in either order; tidy when they do not        *)
(* overlap, as GrantsAreDisjoint needs.                                    *)
UsableMaps ==
  ({<<r>> : r \in Regions({"Usable"})} \cup
   {<<r, s>> : r, s \in Regions({"Usable"})}) \X ReservedSets

TidyMaps ==
  {m \in UsableMaps :
     Len(m[1]) = 2 =>
       (m[1][1].end <= m[1][2].start \/ m[1][2].end <= m[1][1].start)}

(* A usable and a reserved region, as the firmware may report them.        *)
FirmwareMaps ==
  {<<r, s>> : r \in Regions({"Usable"}), s \in Regions({"Reserved"})} \X {{}}

(* Less than a page, more than a page, and a page aligned to two pages.    *)
SomeLayouts ==
  {[size |-> 1, align |-> 1], [size |-> 3, align |-> 2], [size |-> 2, align |-> 4]}

=============================================================================
