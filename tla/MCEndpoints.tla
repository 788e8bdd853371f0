---------------------------- MODULE MCEndpoints ----------------------------
(* Endpoints for TLC: this app and one or two others. *)
EXTENDS Endpoints, TLC

MCSelf == [id |-> 1, name |-> "self"]
MCTwo == {MCSelf, [id |-> 2, name |-> "a"]}
MCRenamed == {MCSelf, [id |-> 2, name |-> "a"], [id |-> 3, name |-> "b"], [id |-> 3, name |-> "a"]}

Symmetry == Permutations(Objects)

=============================================================================
