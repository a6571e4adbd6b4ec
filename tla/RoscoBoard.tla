----------------------------- MODULE RoscoBoard -----------------------------
(***************************************************************************)
(* The boards: SPI wiring and bus errors make the rosco_m68k, SPI wiring    *)
(* and bank register the rosco_6502.  What ties the parts together is the   *)
(* machine reset, one step for all of them, in the middle of whatever each  *)
(* was doing.                                                               *)
(***************************************************************************)
EXTENDS SpiPins, M68kBus, RamBank

VARIABLE machine  \* "m68k" or "6502"

vars == <<machine, spiVars, busVars, bankVars>>

Init ==
    /\ machine \in {"m68k", "6502"}
    /\ SpiInit /\ BusInit /\ BankInit

machine_reset ==
    /\ SpiReset
    /\ \/ machine = "m68k" /\ BusReset /\ UNCHANGED bankVars
       \/ machine = "6502" /\ BankReset /\ UNCHANGED busVars
    /\ UNCHANGED machine

Next ==
    \/ SpiNext /\ UNCHANGED <<machine, busVars, bankVars>>
    \/ machine = "m68k" /\ BusNext /\ UNCHANGED <<machine, spiVars, bankVars>>
    \/ machine = "6502" /\ BankNext /\ UNCHANGED <<machine, spiVars, busVars>>
    \/ machine_reset

Spec == Init /\ [][Next]_vars
=============================================================================
