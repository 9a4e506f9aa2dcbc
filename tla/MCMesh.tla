-------------------------------- MODULE MCMesh --------------------------------
(* Values for model checking Mesh: one manifest, whose lease policy names   *)
(* the controller c1, and the events about it.                              *)
EXTENDS Mesh

CONSTANTS c1, c2, m1

MCControllers == {c1, c2}
OnlyC1 == LeasePolicy({c1}, {"assign", "unassign"})
MCTomls == {OnlyC1}
MCBodies == {Claim, Release, Heartbeat, Assign(m1, OnlyC1), Unassign(m1)}
=============================================================================
