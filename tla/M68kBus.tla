------------------------------ MODULE M68kBus ------------------------------
(***************************************************************************)
(* Bus errors of the rosco_m68k: src/src/rosco/drivers/rosco_m68k.cpp.      *)
(* A program probes for expansion devices by touching unmapped addresses,   *)
(* and a touch ends in a bus error exception.  The driver signals one and   *)
(* then ignores further touches for Window cycles, so that the other        *)
(* accesses of the same instruction can complete.                           *)
(*                                                                         *)
(* The next instruction may follow after any number of cycles, none         *)
(* included: the Musashi cores charge nothing for entering the exception.   *)
(* An exception's own accesses count as an instruction's.                   *)
(***************************************************************************)
EXTENDS Naturals

CONSTANT Window  \* cycles further touches are ignored: 16

ASSUME BusAssumption == Window \in Nat \ {0}

VARIABLES
    core,        \* "musashi": 68010 and up; "m68000": the suspendable 68000
    m_bus_error,
    berr_timer,  \* cycles until m_bus_error_timer fires; 0: not running
    touched,     \* the current instruction has touched unmapped memory
    \* Histories:
    signals,     \* bus errors signalled to the current instruction
    age,         \* cycles since the last one was signalled, at most Window
    early        \* the instruction's first touch came before Window cycles

busVars == <<core, m_bus_error, berr_timer, touched, signals, age, early>>

BusTypeOK ==
    /\ core \in {"musashi", "m68000"}
    /\ {m_bus_error, touched, early} \subseteq BOOLEAN
    /\ berr_timer \in 0..Window /\ age \in 0..Window
    /\ signals \in Nat

\* debug: side effects are disabled, the debugger or a viewer is looking.
\* Variant: the flag is set before that is asked.
set_bus_error_Debug(debug) ==
    /\ m_bus_error' = TRUE
    /\ berr_timer' = IF m_bus_error \/ debug THEN berr_timer ELSE Window
    /\ signals' = IF m_bus_error \/ debug THEN signals ELSE signals + 1
    /\ age' = IF m_bus_error \/ debug THEN age ELSE 0
set_bus_error(debug) ==
    IF m_bus_error \/ debug
    THEN UNCHANGED <<m_bus_error, berr_timer, signals, age>>
    ELSE /\ m_bus_error' = TRUE
         /\ berr_timer' = Window
         /\ signals' = signals + 1
         /\ age' = 0

\* unmapped_ram_r and _w, unmapped_exp_r and _w: the CPU's own access, the first
\* of an instruction or a later one.  The 68000 core drops an instruction when it
\* is signalled; the Musashi cores go on to its last access.
CpuTouches ==
    /\ core = "m68000" => signals = 0
    /\ set_bus_error(FALSE)
    /\ touched' = TRUE
    /\ early' = IF touched THEN early ELSE age < Window
    /\ UNCHANGED core

DebuggerLooks ==
    /\ set_bus_error(TRUE)
    /\ UNCHANGED <<core, touched, early>>

\* The 68000 core gives a signalled instruction up (abort_access, do_post_run); a
\* Musashi core ends one at each turn of its main loop (m68kcpu.cpp:917).
InstructionEnds ==
    /\ touched
    /\ touched' = FALSE /\ early' = FALSE /\ signals' = 0
    /\ UNCHANGED <<core, m_bus_error, berr_timer, age>>

\* Time passes between instructions, and in the suspendable core between two
\* accesses of one; bus_error is the timer's callback.
CyclePasses ==
    /\ touched => core = "m68000"
    /\ age < Window \/ berr_timer > 0
    /\ age' = IF age < Window THEN age + 1 ELSE age
    /\ berr_timer' = IF berr_timer > 0 THEN berr_timer - 1 ELSE 0
    /\ m_bus_error' = IF berr_timer = 1 THEN FALSE ELSE m_bus_error
    /\ UNCHANGED <<core, touched, signals, early>>

\* A machine reset starts the CPU anew and leaves flag and timer as they are.
BusReset ==
    /\ touched' = FALSE /\ early' = FALSE /\ signals' = 0
    /\ UNCHANGED <<core, m_bus_error, berr_timer, age>>

BusInit ==
    /\ core \in {"musashi", "m68000"}
    /\ m_bus_error = FALSE /\ berr_timer = 0
    /\ touched = FALSE /\ signals = 0 /\ age = Window /\ early = FALSE

BusNext == CpuTouches \/ DebuggerLooks \/ InstructionEnds \/ CyclePasses

-----------------------------------------------------------------------------
(* Properties *)

\* An instruction that touches unmapped memory gets one bus error, however often
\* it does and whatever resets and debugger accesses came before; it goes without
\* only when its first touch falls within Window cycles of the last bus error.
OneBusError ==
    /\ signals <= 1
    /\ touched /\ ~early => signals = 1
=============================================================================
