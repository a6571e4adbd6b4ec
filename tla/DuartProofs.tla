---------------------------- MODULE DuartProofs ----------------------------
(***************************************************************************)
(* Proofs about Duart for every wiring and register vocabulary.            *)
(***************************************************************************)
EXTENDS Duart, TLAPS

\* Every handler either leaves ISR, IMR and the IRQ line alone or ends in
\* update_interrupts or a reset.
LEMMA IrqStep == IrqIsLevel /\ [Next]_vars => IrqIsLevel'
<1> SUFFICES ASSUME IrqIsLevel, [Next]_vars PROVE IrqIsLevel'
  OBVIOUS
<1>1. ASSUME NEW isr, NEW imr, NEW opr, NEW out,
             update_interrupts(isr, imr, opr, out)
      PROVE  IrqIsLevel'
  BY <1>1, Zenon DEF update_interrupts, IrqIsLevel
<1>2. ASSUME UNCHANGED <<ISR, IMR, irq_state>> PROVE IrqIsLevel'
  BY <1>2, Zenon DEF IrqIsLevel
<1>3. ASSUME NEW opr, NEW out, KeepISR(opr, out) PROVE IrqIsLevel'
  BY <1>2, <1>3 DEF KeepISR
<1>4. ASSUME NEW b, NEW opr, NEW out,
             set_ISR_bits(b, opr, out) \/ clear_ISR_bits(b, opr, out)
      PROVE  IrqIsLevel'
  BY <1>1, <1>3, <1>4 DEF set_ISR_bits, clear_ISR_bits
<1>5. CASE \E b \in WiredBits : ChannelSets(b) \/ ChannelClears(b)
  BY <1>4, <1>5 DEF ChannelSets, ChannelClears
<1>6. CASE \E m \in IMRValues : WriteIMR(m)
  BY <1>1, <1>6 DEF WriteIMR
<1>7. CASE \E n \in WiredIPs \cap DeltaIPs : IpChanges(n)
  BY <1>3, <1>4, <1>7 DEF IpChanges
<1>8. CASE ReadIPCR
  BY <1>4, <1>8 DEF ReadIPCR
<1>9. CASE \E a \in ACRValues : WriteACR(a)
  BY <1>3, <1>4, <1>9 DEF WriteACR
<1>10. CASE StopCounter \/ CounterFires
  BY <1>4, <1>10 DEF StopCounter, CounterFires
<1>11. CASE TimerFires
  BY <1>3, <1>4, <1>11 DEF TimerFires
<1>12. CASE DeviceReset
  <2>1. ISR' \cap IMR' = {} /\ irq_state' = FALSE
    BY <1>12 DEF DeviceReset
  <2> QED BY <2>1 DEF IrqIsLevel
<1>13. CASE \/ SampleIrq \/ get_irq_vector \/ StartCounter
            \/ \E n \in WiredIPs \ DeltaIPs : IpLevel(n)
            \/ \E o \in OPCRValues : WriteOPCR(o)
            \/ \E mask \in OPMasks : SetOP(mask) \/ ResetOP(mask)
            \/ UNCHANGED vars
  BY <1>2, <1>13 DEF SampleIrq, get_irq_vector, StartCounter, IpLevel,
     WriteOPCR, SetOP, ResetOP, DriveOPR, vars
<1> QED BY <1>5, <1>6, <1>7, <1>8, <1>9, <1>10, <1>11, <1>12, <1>13 DEF Next

\* The IRQ line the CPU sees is always the level of ISR & IMR: no interrupt is
\* lost or left asserted by a handler that skipped update_interrupts.
THEOREM IrqCorrect == Spec => []IrqIsLevel
<1>1. Init => IrqIsLevel
  BY DEF Init, IrqIsLevel
<1> QED BY <1>1, IrqStep, PTL DEF Spec

-----------------------------------------------------------------------------

\* What a handler does to ISR.
LEMMA IsrEffects ==
    ASSUME NEW b, NEW opr, NEW out
    PROVE  /\ KeepISR(opr, out) => ISR' = ISR
           /\ set_ISR_bits(b, opr, out) => ISR' = ISR \cup {b}
           /\ clear_ISR_bits(b, opr, out) => ISR' = ISR \ {b}
BY DEF KeepISR, set_ISR_bits, clear_ISR_bits, update_interrupts

\* Every device operation keeps IPCR, ACR and the change interrupt consistent.
LEMMA IpChangeStep == IpChangeConsistent /\ [Next]_vars => IpChangeConsistent'
<1> SUFFICES ASSUME IpChangeConsistent, [Next]_vars PROVE IpChangeConsistent'
  OBVIOUS
<1>1. ASSUME UNCHANGED <<IPCR, ACR>>, "IPCHANGE" \in ISR' <=> "IPCHANGE" \in ISR
      PROVE  IpChangeConsistent'
  BY <1>1 DEF IpChangeConsistent
<1>2. ASSUME NEW b \in WiredBits, ChannelSets(b) \/ ChannelClears(b)
      PROVE  IpChangeConsistent'
  <2>1. b # "IPCHANGE"
    BY DuartAssumption DEF ChannelBits
  <2> QED BY <1>1, <1>2, <2>1, IsrEffects DEF ChannelSets, ChannelClears,
             portVars
<1>3. ASSUME NEW n \in WiredIPs \cap DeltaIPs, IpChanges(n)
      PROVE  IpChangeConsistent'
  <2>1. IPCR' = IPCR \cup {n} /\ ACR' = ACR
    BY <1>3 DEF IpChanges
  <2>2. ISR' = IF n \in ACR.delta THEN ISR \cup {"IPCHANGE"} ELSE ISR
    BY <1>3, IsrEffects DEF IpChanges
  <2> QED BY <2>1, <2>2 DEF IpChangeConsistent
<1>4. CASE ReadIPCR
  <2>1. IPCR' = {} /\ ISR' = ISR \ {"IPCHANGE"}
    BY <1>4, IsrEffects DEF ReadIPCR
  <2> QED BY <2>1 DEF IpChangeConsistent
<1>5. ASSUME NEW a \in ACRValues, WriteACR(a) PROVE IpChangeConsistent'
  <2>1. IPCR' = IPCR /\ ACR' = a
    BY <1>5 DEF WriteACR, portVars
  <2>2. ISR' = IF IPCR \cap a.delta # {} THEN ISR \cup {"IPCHANGE"} ELSE ISR
    BY <1>5, IsrEffects DEF WriteACR, PendingChange
  <2> QED BY <2>1, <2>2 DEF IpChangeConsistent
<1>6. CASE StopCounter \/ CounterFires \/ TimerFires
  <2>1. UNCHANGED <<IPCR, ACR>>
    BY <1>6 DEF StopCounter, CounterFires, TimerFires, portVars
  <2>2. ISR' \in {ISR, ISR \cup {"COUNTER"}, ISR \ {"COUNTER"}}
    BY <1>6, IsrEffects DEF StopCounter, CounterFires, TimerFires
  <2> QED BY <1>1, <2>1, <2>2
<1>7. CASE DeviceReset
  BY <1>7 DEF DeviceReset, IpChangeConsistent
<1>8. CASE \/ \E m \in IMRValues : WriteIMR(m)
           \/ SampleIrq \/ get_irq_vector \/ StartCounter
           \/ \E n \in WiredIPs \ DeltaIPs : IpLevel(n)
           \/ \E o \in OPCRValues : WriteOPCR(o)
           \/ \E mask \in OPMasks : SetOP(mask) \/ ResetOP(mask)
           \/ UNCHANGED vars
  <2>1. UNCHANGED <<IPCR, ACR, ISR>>
    BY <1>8 DEF WriteIMR, update_interrupts, SampleIrq, get_irq_vector,
       StartCounter, IpLevel, WriteOPCR, SetOP, ResetOP, DriveOPR, vars,
       portVars
  <2> QED BY <1>1, <2>1
<1> QED BY <1>2, <1>3, <1>4, <1>5, <1>6, <1>7, <1>8 DEF Next

\* An enabled, unread input change always has its interrupt pending, and the
\* interrupt always has an unread change, however ACR writes, changes and IPCR
\* reads interleave.
THEOREM IpChangeCorrect == Spec => []IpChangeConsistent
<1>1. Init => IpChangeConsistent
  BY DEF Init, IpChangeConsistent
<1> QED BY <1>1, IpChangeStep, PTL DEF Spec

-----------------------------------------------------------------------------

\* Every device operation keeps the timer scheduled in timer mode.
LEMMA TimerStep == TimerModeTicks /\ [Next]_vars => TimerModeTicks'
<1> SUFFICES ASSUME TimerModeTicks, [Next]_vars PROVE TimerModeTicks'
  OBVIOUS
<1>1. ASSUME NEW a \in ACRValues, WriteACR(a) PROVE TimerModeTicks'
  <2>1. ACR' = a /\ AcrTimer(a)
    BY <1>1 DEF WriteACR
  <2>2. CASE a.timer /\ ~ACR.timer
    BY <2>1, <2>2 DEF AcrTimer, TimerModeTicks
  <2>3. CASE a.timer /\ ACR.timer
    BY <2>1, <2>3 DEF AcrTimer, TimerModeTicks, timerVars
  <2>4. CASE ~a.timer
    BY <2>1, <2>4 DEF TimerModeTicks
  <2> QED BY <2>2, <2>3, <2>4
<1>2. CASE StartCounter \/ CounterFires
  <2>1. ACR' = ACR /\ running' \in Scheduled(ACR)
    BY <1>2 DEF StartCounter, CounterFires
  <2> QED BY <2>1 DEF Scheduled, TimerModeTicks
<1>3. CASE StopCounter
  <2>1. ACR' = ACR /\ running' = (ACR.timer /\ running)
    BY <1>3, Zenon DEF StopCounter, AfterStop
  <2> QED BY <2>1, Zenon DEF TimerModeTicks
<1>4. CASE DeviceReset
  BY <1>4 DEF DeviceReset, ResetACR, TimerModeTicks
<1>5. CASE \/ \E b \in WiredBits : ChannelSets(b) \/ ChannelClears(b)
           \/ \E m \in IMRValues : WriteIMR(m)
           \/ SampleIrq \/ get_irq_vector \/ ReadIPCR \/ TimerFires
           \/ \E n \in WiredIPs \cap DeltaIPs : IpChanges(n)
           \/ \E n \in WiredIPs \ DeltaIPs : IpLevel(n)
           \/ \E o \in OPCRValues : WriteOPCR(o)
           \/ \E mask \in OPMasks : SetOP(mask) \/ ResetOP(mask)
           \/ UNCHANGED vars
  <2>1. UNCHANGED <<ACR, running>>
    BY <1>5 DEF ChannelSets, ChannelClears, WriteIMR, SampleIrq,
       get_irq_vector, ReadIPCR, TimerFires, IpChanges, IpLevel, WriteOPCR,
       SetOP, ResetOP, DriveOPR, vars, timerVars
  <2> QED BY <2>1 DEF TimerModeTicks
<1> QED BY <1>1, <1>2, <1>3, <1>4, <1>5 DEF Next

\* In timer mode the timer stays scheduled: the firmware tick cannot be killed
\* by a counter command, a callback or a reset.
THEOREM TimerCorrect == Spec => []TimerModeTicks
<1>1. Init => TimerModeTicks
  BY DEF Init, ResetACR, TimerModeTicks
<1> QED BY <1>1, TimerStep, PTL DEF Spec

-----------------------------------------------------------------------------

\* The pins out show the complement of the register opr, OP3 apart.
Shows(out, opr) == out \ {3} = (Pins \ opr) \ {3}

\* Whatever update_interrupts recomputes, or leaves to its caller, the pins
\* still show the register.
LEMMA PinEffects ==
    ASSUME NEW opr, NEW out, Shows(out, opr)
    PROVE  /\ KeepISR(opr, out) => PinsFollowOPR'
           /\ \A isr, imr : update_interrupts(isr, imr, opr, out) => PinsFollowOPR'
           /\ \A b : set_ISR_bits(b, opr, out) => PinsFollowOPR'
           /\ \A b : clear_ISR_bits(b, opr, out) => PinsFollowOPR'
<1>1. KeepISR(opr, out) => PinsFollowOPR'
  BY DEF KeepISR, PinsFollowOPR, Shows
<1>2. ASSUME NEW isr, NEW imr, update_interrupts(isr, imr, opr, out)
      PROVE  PinsFollowOPR'
  <2>1. CASE OPCR.mirror = {}
    <3>1. MirrorOPR(isr, opr) = opr
      BY <2>1 DEF MirrorOPR
    <3>2. OPR' = opr /\ outport' = out
      BY <1>2, <2>1, <3>1 DEF update_interrupts
    <3> QED BY <3>2 DEF PinsFollowOPR, Shows
  <2>2. CASE OPCR.mirror # {}
    <3>1. outport' = Pins \ OPR'
      BY <1>2, <2>2, Zenon DEF update_interrupts
    <3> QED BY <3>1 DEF PinsFollowOPR
  <2> QED BY <2>1, <2>2
<1> QED BY <1>1, <1>2 DEF set_ISR_bits, clear_ISR_bits

\* Every device operation keeps the pins in step with OPR.
LEMMA PinStep == PinsFollowOPR /\ [Next]_vars => PinsFollowOPR'
<1> SUFFICES ASSUME PinsFollowOPR, [Next]_vars PROVE PinsFollowOPR'
  OBVIOUS
<1>1. Shows(outport, OPR)
  BY DEF PinsFollowOPR, Shows
<1>2. /\ Shows(outport, OPR \ {3}) /\ Shows(outport, OPR \cup {3})
      /\ Shows(Pins \ ToggledOPR, ToggledOPR)
  BY <1>1 DEF Shows
<1>3. CASE \/ \E b \in WiredBits : ChannelSets(b) \/ ChannelClears(b)
           \/ \E m \in IMRValues : WriteIMR(m)
           \/ \E n \in WiredIPs \cap DeltaIPs : IpChanges(n)
           \/ ReadIPCR
           \/ \E a \in ACRValues : WriteACR(a)
  BY <1>1, <1>3, PinEffects DEF ChannelSets, ChannelClears, WriteIMR, IpChanges,
     ReadIPCR, WriteACR
<1>4. CASE StopCounter
  BY <1>1, <1>2, <1>4, PinEffects DEF StopCounter
<1>5. CASE CounterFires
  BY <1>1, <1>2, <1>5, PinEffects DEF CounterFires
<1>6. CASE TimerFires
  <2> DEFINE opr == IF OPCR.op3 THEN ToggledOPR ELSE OPR
             out == IF OPCR.op3 THEN Pins \ ToggledOPR ELSE outport
  <2>1. Shows(out, opr)
    BY <1>1, <1>2
  <2>2. set_ISR_bits("COUNTER", opr, out) \/ KeepISR(opr, out)
    BY <1>6 DEF TimerFires
  <2> HIDE DEF opr, out
  <2> QED BY <2>1, <2>2, PinEffects
<1>7. CASE \E mask \in OPMasks : SetOP(mask) \/ ResetOP(mask)
  BY <1>7 DEF SetOP, ResetOP, DriveOPR, PinsFollowOPR
<1>8. CASE DeviceReset
  BY <1>8 DEF DeviceReset, PinsFollowOPR
<1>9. CASE \/ SampleIrq \/ get_irq_vector \/ StartCounter
           \/ \E n \in WiredIPs \ DeltaIPs : IpLevel(n)
           \/ \E o \in OPCRValues : WriteOPCR(o)
           \/ UNCHANGED vars
  <2>1. UNCHANGED <<OPR, outport>>
    BY <1>9 DEF SampleIrq, get_irq_vector, StartCounter, IpLevel, WriteOPCR,
       vars
  <2> QED BY <2>1 DEF PinsFollowOPR
<1> QED BY <1>3, <1>4, <1>5, <1>6, <1>7, <1>8, <1>9 DEF Next

\* The board's outputs (LEDs, chip selects, handshakes) follow the output port
\* register through every interrupt update, output command and reset, although
\* each handler drives the pins only where it thinks they changed; OP3 alone,
\* which the counter moves without driving it, may lag.
THEOREM PinsCorrect == Spec => []PinsFollowOPR
<1>1. Init => PinsFollowOPR
  BY DEF Init, PinsFollowOPR
<1> QED BY <1>1, PinStep, PTL DEF Spec
=============================================================================
