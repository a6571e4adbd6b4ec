------------------------------ MODULE RxQueue ------------------------------
(***************************************************************************)
(* What the receive FIFO of a DUART channel promises its driver: a queue   *)
(* of at most Capacity items.  A push onto a full queue replaces the       *)
(* newest item and is remembered until the errors are reset.               *)
(***************************************************************************)
EXTENDS Naturals, Sequences

CONSTANTS Capacity, Items

VARIABLES q, overrun

Full == Len(q) = Capacity

Init == q = <<>> /\ overrun = FALSE

Push(x) ==
    IF Full THEN /\ q' = [q EXCEPT ![Capacity] = x]
                 /\ overrun' = TRUE
            ELSE /\ q' = Append(q, x)
                 /\ UNCHANGED overrun

Pop == q # <<>> /\ q' = Tail(q) /\ UNCHANGED overrun

Flush == q' = <<>> /\ overrun' = FALSE

ResetErrors == overrun' = FALSE /\ UNCHANGED q

Next == (\E x \in Items : Push(x)) \/ Pop \/ Flush \/ ResetErrors

Spec == Init /\ [][Next]_<<q, overrun>>
=============================================================================
