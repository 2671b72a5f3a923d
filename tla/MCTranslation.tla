---------------------------- MODULE MCTranslation ----------------------------
(***************************************************************************)
(* Values for the constants of Translation.tla that a .cfg file cannot     *)
(* write.                                                                  *)
(***************************************************************************)
EXTENDS Translation

UniqueRights == {HandleRights \ {"DUPLICATE"}}

(* The second page of the memory object at page 0, the first at page 1.    *)
Requests ==
  { [base |-> 0, size |-> 1, offset |-> 1, rights |-> {"READ"}],
    [base |-> 1, size |-> 1, offset |-> 0, rights |-> {"WRITE"}] }

OneRange == {[start |-> 0, end |-> 2]}

=============================================================================
