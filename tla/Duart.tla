------------------------------- MODULE Duart -------------------------------
(***************************************************************************)
(* The device level of the XR68C681: interrupt status, mask and line,      *)
(* input port change detector, counter/timer and output port              *)
(* (duart_base_device, mc68681_device and xr68c681_device in               *)
(* src/src/devices/machine/mc68681.cpp).                                   *)
(*                                                                         *)
(* The two channels appear here through the calls they make on the device, *)
(* set_ISR_bits and clear_ISR_bits; DuartChannel models what makes them.   *)
(* Registers are sets of bits.  Time is abstract: a scheduled emu_timer    *)
(* fires at some later point.                                              *)
(***************************************************************************)
EXTENDS Naturals

CONSTANTS
    WiredIPs,    \* input pins the board drives
    WiredBits,   \* channel interrupts that occur
    ACRValues,   \* bytes firmware writes to ACR
    IMRValues,   \* bytes firmware writes to IMR
    OPCRValues,  \* bytes firmware writes to OPCR
    OPMasks      \* bytes firmware writes to the set/reset output port commands

ChannelBits == {"TXRDYA", "RXRDYA", "DBRKA", "TXRDYB", "RXRDYB", "DBRKB"}
IntBits     == ChannelBits \cup {"COUNTER", "IPCHANGE"}
Pins        == 0..7
IPs         == 0..6
DeltaIPs    == 0..3     \* the inputs with a change detector

\* ACR: bit 6 is the timer mode, bits 3-0 enable change interrupts; of the
\* clock sources only TxCA/TxCB in counter mode may have rate zero.
ACRType  == [timer : BOOLEAN, txclk : BOOLEAN, delta : SUBSET DeltaIPs]
\* OPCR: bits 3-2 = 01 route the counter to OP3, bits 7-4 route ISR bits.
OPCRType == [op3 : BOOLEAN, mirror : SUBSET (4..7)]

ASSUME DuartAssumption ==
    /\ WiredIPs \subseteq IPs
    /\ WiredBits \subseteq ChannelBits
    /\ ACRValues \subseteq ACRType
    /\ IMRValues \subseteq SUBSET IntBits
    /\ OPCRValues \subseteq OPCRType
    /\ OPMasks \subseteq SUBSET Pins

VARIABLES
    ACR, IMR, ISR, OPCR,
    OPR,           \* output port register
    outport,       \* pins as last passed to write_outport: complement of OPR
    IPCR,          \* change bits (high nibble) of the input port change reg.
    IP_last_state, \* inputs that are high
    half_period,
    running,       \* is duart_timer scheduled?
    irq_state,     \* the IRQ line
    read_vector,   \* IACK seen
    iack           \* CPU has sampled the IRQ and will run an IACK cycle

vars == <<ACR, IMR, ISR, OPCR, OPR, outport, IPCR, IP_last_state,
          half_period, running, irq_state, read_vector, iack>>
portVars  == <<IPCR, IP_last_state>>
timerVars == <<half_period, running>>

TypeOK ==
    /\ ACR \in ACRType
    /\ IMR \in SUBSET IntBits
    /\ ISR \in SUBSET IntBits
    /\ OPCR \in OPCRType
    /\ OPR \in SUBSET Pins
    /\ outport \in SUBSET Pins
    /\ IPCR \in SUBSET DeltaIPs
    /\ IP_last_state \in SUBSET IPs
    /\ half_period \in {0, 1}
    /\ running \in BOOLEAN
    /\ irq_state \in BOOLEAN
    /\ read_vector \in BOOLEAN
    /\ iack \in BOOLEAN

ResetACR  == [timer |-> FALSE, txclk |-> FALSE, delta |-> {}]
ResetOPCR == [op3 |-> FALSE, mirror |-> {}]

\* After the power-on reset.
Init ==
    /\ ACR = ResetACR /\ IMR = {} /\ ISR = {} /\ OPCR = ResetOPCR
    /\ OPR = {} /\ outport = Pins
    /\ IPCR = {} /\ IP_last_state = {}
    /\ half_period = 0 /\ running = FALSE
    /\ irq_state = FALSE /\ read_vector = FALSE /\ iack = FALSE

-----------------------------------------------------------------------------
(* Interrupts *)

\* The ISR bit each of OP4..OP7 can show.
MirroredBit ==
    [p \in 4..7 |-> CASE p = 4 -> "RXRDYA" [] p = 5 -> "RXRDYB"
                      [] p = 6 -> "TXRDYA" [] p = 7 -> "TXRDYB"]

\* What update_interrupts makes of the output port register.
MirrorOPR(isr, opr) ==
    (opr \ OPCR.mirror) \cup {p \in OPCR.mirror : MirroredBit[p] \in isr}

\* Variant: the IRQ line is raised but never lowered.
update_interrupts_Sticky(isr, imr, opr, out) ==
    /\ ISR' = isr
    /\ IMR' = imr
    /\ irq_state' = (irq_state \/ isr \cap imr # {})
    /\ read_vector' = (read_vector /\ isr \cap imr # {})
    /\ OPR' = MirrorOPR(isr, opr)
    /\ outport' = IF OPCR.mirror # {} THEN Pins \ MirrorOPR(isr, opr) ELSE out

\* Variant: the mirrored pins are computed but not driven.
update_interrupts_NoPins(isr, imr, opr, out) ==
    /\ ISR' = isr
    /\ IMR' = imr
    /\ irq_state' = (isr \cap imr # {})
    /\ read_vector' = (read_vector /\ isr \cap imr # {})
    /\ OPR' = MirrorOPR(isr, opr)
    /\ outport' = out

\* update_interrupts with the registers as the caller leaves them; out is what
\* the caller itself already put on the pins.
update_interrupts(isr, imr, opr, out) ==
    /\ ISR' = isr
    /\ IMR' = imr
    /\ irq_state' = (isr \cap imr # {})
    /\ read_vector' = (read_vector /\ isr \cap imr # {})
    /\ OPR' = MirrorOPR(isr, opr)
    /\ outport' = IF OPCR.mirror # {} THEN Pins \ MirrorOPR(isr, opr) ELSE out

KeepISR(opr, out) ==
    /\ OPR' = opr
    /\ outport' = out
    /\ UNCHANGED <<ISR, IMR, irq_state, read_vector>>

\* set_ISR_bits and clear_ISR_bits recompute only on a change.
set_ISR_bits(b, opr, out) ==
    IF b \in ISR THEN KeepISR(opr, out)
                 ELSE update_interrupts(ISR \cup {b}, IMR, opr, out)

clear_ISR_bits(b, opr, out) ==
    IF b \in ISR THEN update_interrupts(ISR \ {b}, IMR, opr, out)
                 ELSE KeepISR(opr, out)

\* A channel raises or withdraws one of its bits.
ChannelSets(b) ==
    /\ set_ISR_bits(b, OPR, outport)
    /\ UNCHANGED <<ACR, OPCR, portVars, timerVars, iack>>

ChannelClears(b) ==
    /\ clear_ISR_bits(b, OPR, outport)
    /\ UNCHANGED <<ACR, OPCR, portVars, timerVars, iack>>

\* CPU writes the interrupt mask.
WriteIMR(m) ==
    /\ update_interrupts(ISR, m, OPR, outport)
    /\ UNCHANGED <<ACR, OPCR, portVars, timerVars, iack>>

\* The 68000 samples an active IRQ and, some instructions or device events
\* later, runs the IACK cycle that reads the vector.
SampleIrq ==
    /\ irq_state /\ ~iack
    /\ iack' = TRUE
    /\ UNCHANGED <<ACR, IMR, ISR, OPCR, OPR, outport, portVars, timerVars,
                   irq_state, read_vector>>

get_irq_vector ==
    /\ iack
    /\ iack' = FALSE
    /\ read_vector' = TRUE
    /\ UNCHANGED <<ACR, IMR, ISR, OPCR, OPR, outport, portVars, timerVars,
                   irq_state>>

-----------------------------------------------------------------------------
(* Input port *)

\* ip0_w .. ip3_w with a new level.
IpChanges(n) ==
    /\ IP_last_state' = IF n \in IP_last_state THEN IP_last_state \ {n}
                                               ELSE IP_last_state \cup {n}
    /\ IPCR' = IPCR \cup {n}
    /\ IF n \in ACR.delta THEN set_ISR_bits("IPCHANGE", OPR, outport)
                          ELSE KeepISR(OPR, outport)
    /\ UNCHANGED <<ACR, OPCR, timerVars, iack>>

\* ip4_w .. ip6_w with a new level: no change detector.
IpLevel(n) ==
    /\ IP_last_state' = IF n \in IP_last_state THEN IP_last_state \ {n}
                                               ELSE IP_last_state \cup {n}
    /\ UNCHANGED <<ACR, IMR, ISR, OPCR, OPR, outport, IPCR, timerVars,
                   irq_state, read_vector, iack>>

\* CPU reads IPCR: the change bits and their interrupt go together.
ReadIPCR ==
    /\ IPCR' = {}
    /\ clear_ISR_bits("IPCHANGE", OPR, outport)
    /\ UNCHANGED <<ACR, OPCR, IP_last_state, timerVars, iack>>

-----------------------------------------------------------------------------
(* Counter/timer *)

\* start_ct: the timer is scheduled unless its clock has rate zero, which only
\* TxCA/TxCB of an unprogrammed channel can have.
Scheduled(a) == IF ~a.timer /\ a.txclk THEN BOOLEAN ELSE {TRUE}

\* The mode change part of an ACR write.
AcrTimer(a) ==
    CASE a.timer /\ ~ACR.timer -> half_period' = 0 /\ running' = TRUE
      [] ~a.timer /\ ACR.timer -> running' = FALSE /\ UNCHANGED half_period
      [] OTHER -> UNCHANGED timerVars

\* Enabling a change interrupt raises it for changes already recorded.
\* Variant: the old enables are consulted.
PendingChange_Stale(a) == IPCR \cap ACR.delta # {}
PendingChange(a) == IPCR \cap a.delta # {}

\* CPU writes ACR.  The channels' baud_updated is AcrWritten of DuartChannel.
WriteACR(a) ==
    /\ ACR' = a
    /\ AcrTimer(a)
    /\ IF PendingChange(a) THEN set_ISR_bits("IPCHANGE", OPR, outport)
                           ELSE KeepISR(OPR, outport)
    /\ UNCHANGED <<OPCR, portVars, iack>>

\* CPU reads the start counter command.
StartCounter ==
    /\ half_period' = IF ACR.timer THEN 0 ELSE half_period
    /\ running' \in Scheduled(ACR)
    /\ UNCHANGED <<ACR, IMR, ISR, OPCR, OPR, outport, portVars, irq_state,
                   read_vector, iack>>

\* What a stop counter command leaves scheduled: it stops a counter, never a
\* timer.  Variant: it stops both.
AfterStop_Never == FALSE
AfterStop == ACR.timer /\ running

\* CPU reads the stop counter command.
StopCounter ==
    /\ running' = AfterStop
    /\ clear_ISR_bits("COUNTER",
           IF ~ACR.timer /\ OPCR.op3 THEN OPR \ {3} ELSE OPR, outport)
    /\ UNCHANGED <<ACR, OPCR, portVars, half_period, iack>>

ToggledOPR == IF 3 \in OPR THEN OPR \ {3} ELSE OPR \cup {3}

\* half_period ^= 1.  Variant: |= 1.
NextHalf_Or == 1
NextHalf == 1 - half_period

\* duart_timer_callback in timer mode: a square wave with an interrupt at the
\* end of each full period.
TimerFires ==
    /\ running /\ ACR.timer
    /\ half_period' = NextHalf
    /\ LET opr == IF OPCR.op3 THEN ToggledOPR ELSE OPR
           out == IF OPCR.op3 THEN Pins \ ToggledOPR ELSE outport
       IN  IF NextHalf = 0 THEN set_ISR_bits("COUNTER", opr, out)
                            ELSE KeepISR(opr, out)
    /\ UNCHANGED <<ACR, OPCR, portVars, running, iack>>

\* duart_timer_callback in counter mode: the count ran out.
CounterFires ==
    /\ running /\ ~ACR.timer
    /\ set_ISR_bits("COUNTER", IF OPCR.op3 THEN OPR \cup {3} ELSE OPR, outport)
    /\ running' \in Scheduled(ACR)
    /\ UNCHANGED <<ACR, OPCR, portVars, half_period, iack>>

-----------------------------------------------------------------------------
(* Output port and reset *)

\* CPU writes OPCR: nothing is recomputed.
WriteOPCR(o) ==
    /\ OPCR' = o
    /\ UNCHANGED <<ACR, IMR, ISR, OPR, outport, portVars, timerVars,
                   irq_state, read_vector, iack>>

\* CPU writes the set / reset output port bits commands.
DriveOPR(opr) ==
    /\ OPR' = opr
    /\ outport' = Pins \ opr
    /\ UNCHANGED <<ACR, IMR, ISR, OPCR, portVars, timerVars, irq_state,
                   read_vector, iack>>

SetOP(mask)   == DriveOPR(OPR \cup mask)
ResetOP(mask) == DriveOPR(OPR \ mask)

\* Machine reset: device_reset of the base, 68681 and XR classes.  The input
\* levels, the half period and the scheduled timer are left alone.
DeviceReset ==
    /\ ACR' = ResetACR /\ IMR' = {} /\ ISR' = {} /\ OPCR' = ResetOPCR
    /\ OPR' = {} /\ outport' = Pins
    /\ IPCR' = {}
    /\ irq_state' = FALSE /\ read_vector' = FALSE
    /\ UNCHANGED <<IP_last_state, timerVars, iack>>

Next ==
    \/ \E b \in WiredBits : ChannelSets(b) \/ ChannelClears(b)
    \/ \E m \in IMRValues : WriteIMR(m)
    \/ SampleIrq
    \/ get_irq_vector
    \/ \E n \in WiredIPs \cap DeltaIPs : IpChanges(n)
    \/ \E n \in WiredIPs \ DeltaIPs : IpLevel(n)
    \/ ReadIPCR
    \/ \E a \in ACRValues : WriteACR(a)
    \/ StartCounter
    \/ StopCounter
    \/ TimerFires
    \/ CounterFires
    \/ \E o \in OPCRValues : WriteOPCR(o)
    \/ \E mask \in OPMasks : SetOP(mask) \/ ResetOP(mask)
    \/ DeviceReset

Spec == Init /\ [][Next]_vars

\* A scheduled emu_timer fires eventually.
FairSpec == Spec /\ WF_vars(TimerFires) /\ WF_vars(CounterFires)

-----------------------------------------------------------------------------
(* Properties *)

\* The IRQ line is the level of ISR & IMR after every handler, although each
\* caller updates it only on a change it noticed itself.
IrqIsLevel == irq_state = (ISR \cap IMR # {})

\* The change interrupt is pending exactly when it should be: an enabled, unread
\* change always has its ISR bit, and the bit always has an unread change behind
\* it, even when ACR is rewritten between the change and the read.
IpChangeConsistent ==
    /\ IPCR \cap ACR.delta # {} => "IPCHANGE" \in ISR
    /\ "IPCHANGE" \in ISR => IPCR # {}

\* In timer mode the timer is always scheduled: no start or stop command, input
\* or reset leaves the firmware's 100Hz tick dead.
TimerModeTicks == ACR.timer => running

\* Every output pin but OP3 shows the complement of OPR.
PinsFollowOPR == outport \ {3} = (Pins \ OPR) \ {3}

\* A machine in timer mode for good whose firmware stops restarting the timer
\* gets counter interrupts for ever.
TickRecurs ==
    (<>[]ACR.timer /\ <>[][~StartCounter]_vars) => []<>("COUNTER" \in ISR)

\* mc68681.cpp:283 "reset ... stops the counter/timer".
ResetStopsTimer == [][DeviceReset => ~running']_vars
=============================================================================
