------------------------------- MODULE TxPipe -------------------------------
(***************************************************************************)
(* What the transmitter of a DUART channel promises: a pipe of two places, *)
(* the holding and the shift register.  Items leave in the order they were *)
(* accepted; a command or a change of rate may abandon items, which are    *)
(* then gone for good.                                                     *)
(***************************************************************************)
EXTENDS Naturals, Sequences

CONSTANT Items

VARIABLE pipe

Init == pipe = <<>>

Accept(x) == Len(pipe) < 2 /\ pipe' = Append(pipe, x)

Sent == pipe # <<>> /\ pipe' = Tail(pipe)

Abandon == pipe # <<>> /\ pipe' \in {<<>>, <<Head(pipe)>>, Tail(pipe)}

Next == (\E x \in Items : Accept(x)) \/ Sent \/ Abandon

Spec == Init /\ [][Next]_pipe
=============================================================================
