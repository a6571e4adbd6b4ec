------------------------------ MODULE MCDuart ------------------------------
(* Instances of Duart for TLC. *)
EXTENDS Duart

\* Two inputs with a change detector, of which at most one is enabled, and one
\* without; one interrupt of each source; OP3 for the timer, OP6 mirrored.
MC_IPs  == {0, 1, 4}
MC_Bits == {"TXRDYA"}
MC_ACR  == [timer : BOOLEAN, txclk : {FALSE}, delta : SUBSET {0}] \cup
           {[timer |-> FALSE, txclk |-> TRUE, delta |-> {}]}
MC_IMR  == {{}, {"IPCHANGE", "COUNTER"}, {"TXRDYA"}}
MC_OPCR == [op3 : BOOLEAN, mirror : {{}, {6}}]
MC_OP   == {{3}, {6}}
=============================================================================
