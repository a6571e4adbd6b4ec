----------------------------- MODULE BlockStore -----------------------------
(***************************************************************************)
(* What the SD card promises about its image: blocks are written whole,    *)
(* with the data of one transfer, at the block the transfer was opened     *)
(* for; an abandoned or failed transfer writes nothing.  A write past the  *)
(* end may add blocks and changes none of the old ones.                    *)
(***************************************************************************)
EXTENDS Naturals, Sequences

VARIABLES
    store,    \* block number -> contents
    target,   \* <<>> or the block of the transfer under way
    packet    \* what arrived so far

vars == <<store, target, packet>>

Init == target = <<>> /\ packet = <<>>

Open ==
    /\ target = <<>>
    /\ Len(target') = 1
    /\ packet' = <<>>
    /\ UNCHANGED store

Receive ==
    /\ target # <<>>
    /\ Len(packet') = Len(packet) + 1
    /\ SubSeq(packet', 1, Len(packet)) = packet
    /\ UNCHANGED <<store, target>>

\* The last two items of a transfer are its checksum, the second of which
\* arrives with the commit.
Commit ==
    LET block == [i \in 0..(Len(packet) - 2) |-> packet[i + 1]]
    IN  /\ target # <<>>
        /\ target[1] \in DOMAIN store => DOMAIN store[target[1]] = DOMAIN block
        /\ DOMAIN store' = DOMAIN store \cup 0..target[1]
        /\ store'[target[1]] = block
        /\ \A b \in DOMAIN store : b # target[1] => store'[b] = store[b]
        /\ target' = <<>> /\ packet' = <<>>

Abandon ==
    /\ target # <<>>
    /\ target' = <<>> /\ packet' = <<>>
    /\ UNCHANGED store

\* Another image is mounted, or none.
Exchange == target = <<>> /\ UNCHANGED <<target, packet>>

Next == Open \/ Receive \/ Commit \/ Abandon \/ Exchange

Spec == Init /\ [][Next]_vars
=============================================================================
