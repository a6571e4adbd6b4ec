---------------------------- MODULE MCRoscoBoard ----------------------------
(* An instance of RoscoBoard for TLC. *)
EXTENDS RoscoBoard

\* One answer that tells its high end from its low end.
MC_Replies == {[i \in Places |-> IF i = 0 THEN 1 ELSE 0]}
=============================================================================
