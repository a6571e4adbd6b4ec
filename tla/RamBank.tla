------------------------------ MODULE RamBank ------------------------------
(***************************************************************************)
(* The bank register of the rosco_6502: src/src/rosco/drivers/              *)
(* rosco_6502.cpp.  The register is write only; its two addresses lie over  *)
(* RAM, which the write reaches as well, so that an interrupt handler can   *)
(* read $0000 to learn which bank to return to.                             *)
(***************************************************************************)
EXTENDS Naturals

CONSTANT Banks  \* bank numbers (RAM bank and ROM bank in one)

ASSUME BankAssumption == 0 \in Banks

VARIABLES
    m_bank_set,
    lowram,  \* the RAM under the register's two addresses
    irq,     \* the interrupt handler under way, see HandlerType
    last     \* history: address of the last bank write since the reset, or 2

bankVars == <<m_bank_set, lowram, irq, last>>

\* saved: what the handler read; bank, sound: history, the bank that was
\* interrupted and whether $0000 was the last address written.
HandlerType == [on : BOOLEAN, saved : Banks, bank : Banks, sound : BOOLEAN]
NoHandler   == [on |-> FALSE, saved |-> 0, bank |-> 0, sound |-> FALSE]

BankTypeOK ==
    /\ m_bank_set \in Banks
    /\ lowram \in [0..1 -> Banks]
    /\ irq \in HandlerType
    /\ last \in 0..2

bank_r(offset) == lowram[offset]

\* Variant: the write does not reach the RAM.
bank_w_Only(offset, data) ==
    /\ m_bank_set' = data
    /\ last' = offset
    /\ UNCHANGED lowram
bank_w(offset, data) ==
    /\ lowram' = [lowram EXCEPT ![offset] = data]
    /\ m_bank_set' = data
    /\ last' = offset

\* The program, or the handler for its own purposes.
SelectBank(offset, data) == bank_w(offset, data) /\ UNCHANGED irq

\* An interrupt: the handler saves what it reads at $0000 ...
IrqTaken ==
    /\ ~irq.on
    /\ irq' = [on |-> TRUE, saved |-> bank_r(0), bank |-> m_bank_set,
               sound |-> last = 0]
    /\ UNCHANGED <<m_bank_set, lowram, last>>

\* ... and writes it back before it returns.
IrqReturns ==
    /\ irq.on
    /\ bank_w(0, irq.saved)
    /\ irq' = NoHandler

\* quickload_cb sets the program counter: a handler under way is abandoned.
quickload_cb ==
    /\ irq.on
    /\ irq' = NoHandler
    /\ UNCHANGED <<m_bank_set, lowram, last>>

\* machine_reset clears the register and leaves the RAM as it was.
BankReset ==
    /\ m_bank_set' = 0
    /\ irq' = NoHandler
    /\ last' = 2
    /\ UNCHANGED lowram

BankInit ==
    /\ m_bank_set = 0 /\ lowram = [o \in 0..1 |-> 0]
    /\ irq = NoHandler /\ last = 2

BankNext ==
    \/ \E offset \in 0..1, data \in Banks : SelectBank(offset, data)
    \/ IrqTaken
    \/ IrqReturns
    \/ quickload_cb

-----------------------------------------------------------------------------
(* Properties *)

\* A handler that saves $0000 and writes it back returns to the bank it
\* interrupted, whatever it selected itself, provided the last bank write since
\* the reset went through $0000.  (A write through $0001 leaves $0000 stale, and
\* a reset selects bank 0 under whatever $0000 holds.)
BankSurvivesIrq == irq.on /\ irq.sound => irq.saved = irq.bank
=============================================================================
