---------------------------- MODULE MCReadReplica ----------------------------
(* Three tasks on a replica that opens at most three connections; the tasks *)
(* and the connections are interchangeable.                                *)
EXTENDS ReadReplica, TLC

Symmetry == Permutations(Tasks) \cup Permutations(Connections)
=============================================================================
