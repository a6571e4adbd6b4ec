-------------------------- MODULE RoscoBoardProofs --------------------------
(***************************************************************************)
(* Proofs about RoscoBoard, for every window, every set of banks and bytes *)
(* of any length: the bus error flag, the bank register and the SPI bus    *)
(* keep their promises, with a machine reset at any moment.                *)
(***************************************************************************)
EXTENDS RoscoBoard, TLAPS

-----------------------------------------------------------------------------
(* Bus errors *)

\* The flag is up exactly while its timer runs, the timer and the cycles since the
\* last bus error add up to the window, an instruction told on a Musashi core still
\* finds the flag up, and one that first touched outside the window was told.
BusInv ==
    /\ BusTypeOK
    /\ m_bus_error = TRUE <=> berr_timer > 0
    /\ berr_timer + age = Window
    /\ signals <= 1
    /\ touched = FALSE => signals = 0
    /\ signals = 1 /\ core = "musashi" => m_bus_error = TRUE
    /\ touched = TRUE /\ early = FALSE => signals = 1

\* The parts of the type invariant.
LEMMA BusTypeParts ==
    BusTypeOK <=> /\ core \in {"musashi", "m68000"}
                  /\ m_bus_error \in BOOLEAN /\ touched \in BOOLEAN
                  /\ early \in BOOLEAN
                  /\ berr_timer \in 0..Window /\ age \in 0..Window
                  /\ signals \in Nat
BY DEF BusTypeOK

\* No step on the bus breaks it.
LEMMA BusStep == BusInv /\ BusNext => BusInv'
<1> SUFFICES ASSUME BusInv, BusNext PROVE BusInv'
  OBVIOUS
<1> USE BusAssumption
<1>b. /\ core \in {"musashi", "m68000"}
      /\ m_bus_error \in BOOLEAN /\ touched \in BOOLEAN /\ early \in BOOLEAN
      /\ berr_timer \in 0..Window /\ age \in 0..Window /\ signals \in Nat
  BY BusTypeParts DEF BusInv
<1>1. CASE CpuTouches
  <2>e. /\ touched = TRUE => early' = early
        /\ touched = FALSE => early' = (age < Window)
    <3>1. early' = IF touched THEN early ELSE age < Window
      BY <1>1 DEF CpuTouches
    <3> QED
      BY <3>1, Zenon
  <2>f. early' \in BOOLEAN
    <3>1. CASE touched = TRUE
      BY <1>b, <2>e, <3>1, Zenon
    <3>2. CASE touched = FALSE
      <4>1. (age < Window) = TRUE \/ (age < Window) = FALSE
        BY <1>b, SMT
      <4> QED
        BY <2>e, <3>2, <4>1, Zenon
    <3> QED
      BY <1>b, <3>1, <3>2, Zenon
  <2>1. CASE m_bus_error = TRUE
    <3>1. /\ UNCHANGED <<core, m_bus_error, berr_timer, signals, age>>
          /\ touched' = TRUE
      BY <1>1, <2>1 DEF CpuTouches, set_bus_error
    <3>2. age < Window
      BY <1>b, <2>1 DEF BusInv
    <3>3. touched = FALSE => early' = TRUE
      BY <2>e, <3>2, Zenon
    <3>4. BusTypeOK'
      BY <1>b, <2>f, <3>1 DEF BusTypeOK
    <3> QED
      BY <1>b, <2>e, <3>1, <3>3, <3>4 DEF BusInv
  <2>2. CASE m_bus_error = FALSE
    <3>1. /\ m_bus_error' = TRUE /\ berr_timer' = Window /\ age' = 0
          /\ signals' = signals + 1 /\ touched' = TRUE /\ core' = core
      BY <1>1, <2>2 DEF CpuTouches, set_bus_error
    <3>2. signals = 0
      BY <1>1, <1>b, <2>2 DEF CpuTouches, BusInv
    <3>3. BusTypeOK'
      BY <1>b, <2>f, <3>1, <3>2 DEF BusTypeOK
    <3> QED
      BY <3>1, <3>2, <3>3 DEF BusInv
  <2> QED
    BY <1>b, <2>1, <2>2
<1>2. CASE DebuggerLooks
  <2>1. UNCHANGED busVars
    BY <1>2 DEF DebuggerLooks, set_bus_error, busVars
  <2> QED
    BY <2>1 DEF busVars, BusInv, BusTypeOK
<1>3. CASE InstructionEnds
  <2>1. /\ touched' = FALSE /\ early' = FALSE /\ signals' = 0
        /\ UNCHANGED <<core, m_bus_error, berr_timer, age>>
    BY <1>3 DEF InstructionEnds
  <2>2. BusTypeOK'
    BY <1>b, <2>1 DEF BusTypeOK
  <2> QED
    BY <2>1, <2>2 DEF BusInv
<1>4. CASE CyclePasses
  <2>1. /\ touched' = touched /\ signals' = signals /\ early' = early
        /\ core' = core
        /\ touched = TRUE => core = "m68000"
        /\ berr_timer' = IF berr_timer > 0 THEN berr_timer - 1 ELSE 0
        /\ age' = IF age < Window THEN age + 1 ELSE age
        /\ age < Window \/ berr_timer > 0
    BY <1>4, <1>b DEF CyclePasses
  <2>2. m_bus_error' = TRUE <=> berr_timer' > 0
    <3>1. CASE berr_timer = 1
      BY <1>4, <2>1, <3>1 DEF CyclePasses
    <3>2. CASE berr_timer # 1
      <4>1. m_bus_error' = m_bus_error
        BY <1>4, <3>2 DEF CyclePasses
      <4>2. berr_timer' > 0 <=> berr_timer > 0
        BY <1>b, <2>1, <3>2
      <4> QED
        BY <4>1, <4>2 DEF BusInv
    <3> QED
      BY <3>1, <3>2
  <2>3. m_bus_error' \in BOOLEAN
    BY <1>4, <1>b DEF CyclePasses
  <2>4. /\ berr_timer' \in 0..Window /\ age' \in 0..Window
        /\ berr_timer' + age' = Window
    BY <1>b, <2>1 DEF BusInv
  <2>5. signals' = 1 => core' # "musashi"
    BY <1>b, <2>1 DEF BusInv
  <2>6. BusTypeOK'
    BY <1>b, <2>1, <2>3, <2>4 DEF BusTypeOK
  <2> QED
    BY <2>1, <2>2, <2>4, <2>5, <2>6 DEF BusInv
<1> QED
  BY <1>1, <1>2, <1>3, <1>4 DEF BusNext

\* A machine reset keeps flag and timer; the current instruction is gone.
LEMMA BusResetStep == BusInv /\ BusReset => BusInv'
<1> SUFFICES ASSUME BusInv, BusReset PROVE BusInv'
  OBVIOUS
<1>1. /\ touched' = FALSE /\ early' = FALSE /\ signals' = 0
      /\ UNCHANGED <<core, m_bus_error, berr_timer, age>>
  BY DEF BusReset
<1>2. BusTypeOK'
  BY <1>1, BusTypeParts DEF BusInv, BusTypeOK
<1> QED
  BY <1>1, <1>2 DEF BusInv

\* On either core, for every window and whenever the next instruction comes: each
\* instruction that touches unmapped memory gets one bus error, and only one whose
\* first touch falls into the window of an earlier bus error may go without
\* (set_bus_error, its timer and machine_reset of rosco_m68k.cpp).
THEOREM BusErrorCorrect == Spec => []OneBusError
<1>1. Init => BusInv
  <2> SUFFICES ASSUME Init PROVE BusInv
    OBVIOUS
  <2>1. /\ m_bus_error = FALSE /\ berr_timer = 0 /\ age = Window
        /\ touched = FALSE /\ signals = 0 /\ early = FALSE
        /\ core \in {"musashi", "m68000"}
    BY DEF Init, BusInit
  <2>2. BusTypeOK
    <3>1. 0 \in 0..Window /\ Window \in 0..Window /\ 0 \in Nat
      BY BusAssumption
    <3> QED
      BY <2>1, <3>1, BusTypeParts
  <2>3. ~(m_bus_error = TRUE) /\ ~(berr_timer > 0)
    BY <2>1
  <2> QED
    BY <2>1, <2>2, <2>3, BusAssumption DEF BusInv
<1>2. BusInv /\ [Next]_vars => BusInv'
  <2> SUFFICES ASSUME BusInv, [Next]_vars PROVE BusInv'
    OBVIOUS
  <2>1. CASE UNCHANGED busVars
    BY <2>1 DEF busVars, BusInv, BusTypeOK
  <2>2. CASE BusNext
    BY <2>2, BusStep
  <2>3. CASE BusReset
    BY <2>3, BusResetStep
  <2> QED
    BY <2>1, <2>2, <2>3 DEF Next, machine_reset, vars
<1>3. BusInv => OneBusError
  BY BusTypeParts DEF BusInv, OneBusError
<1> QED
  BY <1>1, <1>2, <1>3, PTL DEF Spec

-----------------------------------------------------------------------------
(* The bank register *)

\* After a write through $0000 the RAM under it is the register; a handler that
\* began then holds the bank it interrupted.
BankInv ==
    /\ BankTypeOK
    /\ last = 0 => lowram[0] = m_bank_set
    /\ BankSurvivesIrq

\* A write through either address.
LEMMA BankWritten ==
    ASSUME BankTypeOK, NEW offset \in 0..1, NEW data \in Banks,
           bank_w(offset, data)
    PROVE  /\ m_bank_set' \in Banks /\ lowram' \in [0..1 -> Banks]
           /\ last' \in 0..2
           /\ last' = 0 => lowram'[0] = m_bank_set'
BY DEF BankTypeOK, bank_w

\* No bank write, interrupt or quickload breaks it.
LEMMA BankStep == BankInv /\ BankNext => BankInv'
<1> SUFFICES ASSUME BankInv, BankNext PROVE BankInv'
  OBVIOUS
<1> USE BankAssumption
<1>1. ASSUME NEW offset \in 0..1, NEW data \in Banks, SelectBank(offset, data)
      PROVE  BankInv'
  <2>1. bank_w(offset, data) /\ irq' = irq
    BY <1>1 DEF SelectBank
  <2> QED
    BY <2>1, BankWritten DEF BankInv, BankTypeOK, BankSurvivesIrq
<1>2. CASE IrqTaken
  BY <1>2 DEF IrqTaken, bank_r, BankInv, BankTypeOK, BankSurvivesIrq, HandlerType
<1>3. CASE IrqReturns
  <2>1. irq.saved \in Banks
    BY DEF BankInv, BankTypeOK, HandlerType
  <2>2. bank_w(0, irq.saved) /\ irq' = NoHandler
    BY <1>3 DEF IrqReturns
  <2> QED
    BY <2>1, <2>2, BankWritten
       DEF BankInv, BankTypeOK, BankSurvivesIrq, HandlerType, NoHandler
<1>4. CASE quickload_cb
  BY <1>4 DEF quickload_cb, BankInv, BankTypeOK, BankSurvivesIrq, HandlerType,
              NoHandler
<1> QED
  BY <1>1, <1>2, <1>3, <1>4 DEF BankNext

\* Nor does a machine reset.
LEMMA BankResetStep == BankInv /\ BankReset => BankInv'
BY BankAssumption DEF BankReset, BankInv, BankTypeOK, BankSurvivesIrq,
                      HandlerType, NoHandler

\* For every set of banks: an interrupt handler that saves and restores $0000
\* returns to the bank it interrupted, if the last bank write since the reset
\* went through $0000 (bank_r, bank_w and machine_reset of rosco_6502.cpp).
THEOREM BankCorrect == Spec => []BankSurvivesIrq
<1>1. Init => BankInv
  BY BankAssumption DEF Init, BankInit, BankInv, BankTypeOK, BankSurvivesIrq,
                        HandlerType, NoHandler
<1>2. BankInv /\ [Next]_vars => BankInv'
  <2> SUFFICES ASSUME BankInv, [Next]_vars PROVE BankInv'
    OBVIOUS
  <2>1. CASE UNCHANGED bankVars
    BY <2>1 DEF bankVars, BankInv, BankTypeOK, BankSurvivesIrq
  <2>2. CASE BankNext
    BY <2>2, BankStep
  <2>3. CASE BankReset
    BY <2>3, BankResetStep
  <2> QED
    BY <2>1, <2>2, <2>3 DEF Next, machine_reset, vars
<1>3. BankInv => BankSurvivesIrq
  BY DEF BankInv
<1> QED
  BY <1>1, <1>2, <1>3, PTL DEF Spec

-----------------------------------------------------------------------------
(* The SPI bus: arithmetic *)

\* The members of the next byte begin where those of this one end.
LEMMA ByteStarts ==
    ASSUME NEW k \in Nat, NEW q \in Nat
    PROVE  /\ W * k \in Nat
           /\ W * (k + 1) = W * k + W
           /\ k <= q => W * k <= W * q
<1> USE SpiAssumption
<1>1. W \in Nat /\ W * k \in Nat /\ W * (k + 1) = W * k + W
  OBVIOUS
<1>2. ASSUME k <= q PROVE W * k <= W * q
  <2>1. PICK d \in Nat : q = k + d
    <3>1. q - k \in Nat /\ q = k + (q - k)
      BY <1>2
    <3> QED
      BY <3>1
  <2>2. W * (k + d) = W * k + W * d /\ W * d \in Nat
    OBVIOUS
  <2> HIDE DEF SpiAssumption
  <2> QED
    BY <1>1, <2>1, <2>2
<1> QED
  BY <1>1, <1>2

\* How many whole bytes there are in q bytes and r bits.
LEMMA BytesAndBits ==
    ASSUME NEW q \in Nat, NEW r \in 0..(W - 1)
    PROVE  (W * q + r) \div W = q /\ (W * q + r) % W = r
<1> DEFINE n == W * q + r
           d == n \div W
           m == n % W
<1>1. W \in Nat /\ W > 0 /\ W * q \in Nat /\ r \in Nat /\ r < W
  BY SpiAssumption, ByteStarts
<1>2. n \in Nat
  BY <1>1
<1>3. d \in Nat /\ m \in 0..(W - 1) /\ n = W * d + m
  BY <1>1, <1>2
<1> HIDE DEF d, m
<1>4. ~(d < q)
  <2> SUFFICES ASSUME d < q PROVE FALSE
    OBVIOUS
  <2>1. d + 1 <= q /\ d + 1 \in Nat
    BY <1>3
  <2>2. W * (d + 1) <= W * q /\ W * (d + 1) = W * d + W /\ W * d \in Nat
    BY <1>3, <2>1, ByteStarts
  <2> QED
    BY <1>1, <1>3, <2>2
<1>5. ~(q < d)
  <2> SUFFICES ASSUME q < d PROVE FALSE
    OBVIOUS
  <2>1. q + 1 <= d /\ q + 1 \in Nat
    BY <1>3
  <2>2. W * (q + 1) <= W * d /\ W * (q + 1) = W * q + W /\ W * d \in Nat
    BY <1>3, <2>1, ByteStarts
  <2> QED
    BY <1>1, <1>3, <2>2
<1>6. d = q
  BY <1>3, <1>4, <1>5
<1>7. m = r
  BY <1>1, <1>3, <1>6
<1> QED
  BY <1>6, <1>7 DEF d, m

-----------------------------------------------------------------------------
(* The SPI bus: what the card has received *)

\* The bytes before the one in m_in_latch.
Begun(c) == IF c.cur_bit = W THEN Len(c.got) - 1 ELSE Len(c.got)

\* The invariant of the receiving half, for the bits ck clocked in this selection:
\* the received bytes and the bits in the latch are those of ck.  While the clock
\* is low the latch is already one place on.
Receiving(c, ck) ==
    /\ Begun(c) \in Nat
    /\ Len(ck) = W * Begun(c) + c.cur_bit
    /\ c.clk = 0 => c.cur_bit < W
    /\ \A k \in 1..Len(c.got), j \in 1..W :
         c.got[k][W - j] = ck[W * (k - 1) + j]
    /\ \A j \in 1..c.cur_bit :
         c.in_latch[c.cur_bit - j + (1 - c.clk)] = ck[W * Begun(c) + j]

\* The edges, as spi_clock_w passes them on.
Risen(c, reply) == [latch_in(c, reply) EXCEPT !.clk = 1]
Fallen(c)       == [shift_out(c) EXCEPT !.clk = 0]

\* The bits of every received byte have been clocked.
LEMMA ReceivedClocked ==
    ASSUME NEW c \in CardType, NEW ck \in Seq(0..1), Receiving(c, ck)
    PROVE  /\ Len(ck) >= W * Begun(c)
           /\ \A k \in 1..Len(c.got), j \in 1..W : W * (k - 1) + j \in 1..Len(ck)
           /\ \A j \in 1..c.cur_bit : W * Begun(c) + j \in 1..Len(ck)
<1> DEFINE b == Begun(c)
           n == Len(ck)
           r == c.cur_bit
           g == Len(c.got)
<1>1. W \in Nat /\ W > 1
  BY SpiAssumption
<1>2. b \in Nat /\ n \in Nat /\ r \in 0..W /\ g \in Nat /\ n = W * b + r
  BY <1>1 DEF CardType, Receiving
<1>3. g = IF r = W THEN b + 1 ELSE b
  BY <1>2 DEF Begun, CardType
<1>4. W * b \in Nat /\ W * (b + 1) = W * b + W
  BY <1>2, ByteStarts
<1>5. W * g <= n
  <2>1. CASE r = W
    <3>1. W * g = W * (b + 1)
      BY <1>3, <2>1
    <3> HIDE DEF b, n, r, g
    <3> QED
      BY <1>1, <1>2, <1>4, <2>1, <3>1
  <2>2. CASE r # W
    <3>1. W * g = W * b
      BY <1>3, <2>2
    <3> HIDE DEF b, n, r, g
    <3> QED
      BY <1>1, <1>2, <1>4, <3>1
  <2> QED
    BY <2>1, <2>2
<1> HIDE DEF b, n, r, g
<1>6. ASSUME NEW k \in 1..g, NEW j \in 1..W PROVE W * (k - 1) + j \in 1..n
  <2>1. k - 1 \in Nat /\ k \in Nat /\ (k - 1) + 1 = k /\ k <= g
    BY <1>2
  <2>2. W * (k - 1) \in Nat /\ W * ((k - 1) + 1) = W * (k - 1) + W
    BY <2>1, ByteStarts
  <2>3. W * k <= W * g
    BY <1>2, <2>1, ByteStarts
  <2>4. W * k = W * (k - 1) + W /\ W * k \in Nat
    BY <1>1, <2>1, <2>2
  <2>5. W * g \in Nat
    BY <1>2, ByteStarts
  <2> QED
    BY <1>1, <1>2, <1>5, <2>2, <2>3, <2>4, <2>5
<1>7. ASSUME NEW j \in 1..r PROVE W * b + j \in 1..n
  BY <1>2, <1>4
<1>8. n >= W * b
  BY <1>2, <1>4
<1> QED
  BY <1>6, <1>7, <1>8 DEF b, n, r, g

\* The card record after a rising edge.
LEMMA RisenIs ==
    ASSUME NEW c \in CardType, NEW reply \in Bytes \cup {NoByte}, c.cur_bit < W
    PROVE  LET d     == Risen(c, reply)
               latch == [c.in_latch EXCEPT ![0] = c.in_bit]
           IN  /\ d \in CardType
               /\ d.clk = 1 /\ d.ss = c.ss /\ d.in_bit = c.in_bit
               /\ d.out_latch = c.out_latch /\ d.miso = c.miso
               /\ d.cur_bit = c.cur_bit + 1
               /\ d.in_latch = latch /\ latch \in Bytes
               /\ d.got = IF c.cur_bit + 1 = W THEN Append(c.got, latch) ELSE c.got
               /\ d.ready = IF c.cur_bit + 1 = W THEN reply ELSE c.ready
<1> DEFINE latch == [c.in_latch EXCEPT ![0] = c.in_bit]
           whole == c.cur_bit + 1 = W
           d     == Risen(c, reply)
           got   == IF whole THEN Append(c.got, latch) ELSE c.got
           ready == IF whole THEN reply ELSE c.ready
<1>1. /\ c.ss \in 0..1 /\ c.in_bit \in 0..1 /\ c.in_latch \in Bytes
      /\ c.cur_bit \in 0..W /\ c.out_latch \in Bytes
      /\ c.ready \in Bytes \cup {NoByte} /\ c.miso \in 0..1
      /\ c.got \in Seq(Bytes)
  BY DEF CardType
<1>2. latch \in Bytes
  BY <1>1 DEF Bytes
<1>3. got \in Seq(Bytes) /\ ready \in Bytes \cup {NoByte}
  BY <1>1, <1>2
<1>4. c.cur_bit + 1 \in 0..W
  BY <1>1, SpiAssumption
<1>5. d = [ss |-> c.ss, clk |-> 1, in_bit |-> c.in_bit, in_latch |-> latch,
           cur_bit |-> c.cur_bit + 1, out_latch |-> c.out_latch,
           ready |-> ready, miso |-> c.miso, got |-> got]
  <2>1. d = [[c EXCEPT !.in_latch = latch, !.cur_bit = c.cur_bit + 1,
                       !.got = got, !.ready = ready] EXCEPT !.clk = 1]
    BY DEF Risen, latch_in
  <2> HIDE DEF latch, d, got, ready
  <2> QED
    BY <2>1 DEF CardType
<1> HIDE DEF latch, d, got, ready
<1>6. d \in CardType
  BY <1>1, <1>2, <1>3, <1>4, <1>5 DEF CardType
<1>7. /\ d.clk = 1 /\ d.ss = c.ss /\ d.in_bit = c.in_bit
      /\ d.out_latch = c.out_latch /\ d.miso = c.miso
      /\ d.cur_bit = c.cur_bit + 1
      /\ d.in_latch = latch /\ d.got = got /\ d.ready = ready
  BY <1>5
<1> QED
  BY <1>2, <1>6, <1>7 DEF latch, d, got, ready

\* The card record after a falling edge.
LEMMA FallenIs ==
    ASSUME NEW c \in CardType
    PROVE  LET d     == Fallen(c)
               n     == IF c.cur_bit = W THEN 0 ELSE c.cur_bit
               latch == IF n = 0 /\ c.ready # NoByte
                        THEN c.ready ELSE Shifted(c.out_latch, 1)
           IN  /\ d \in CardType /\ latch \in Bytes
               /\ d.clk = 0 /\ d.ss = c.ss /\ d.in_bit = c.in_bit /\ d.got = c.got
               /\ d.cur_bit = n /\ n \in 0..(W - 1)
               /\ d.in_latch = Shifted(c.in_latch, 0)
               /\ d.out_latch = latch /\ d.miso = latch[W - 1]
               /\ d.ready = IF n = 0 THEN NoByte ELSE c.ready
<1> DEFINE n == IF c.cur_bit = W THEN 0 ELSE c.cur_bit
           latch == IF n = 0 /\ c.ready # NoByte
                    THEN c.ready ELSE Shifted(c.out_latch, 1)
           d == Fallen(c)
           ready == IF n = 0 THEN NoByte ELSE c.ready
           in == Shifted(c.in_latch, 0)
<1>1. /\ c.ss \in 0..1 /\ c.in_bit \in 0..1 /\ c.in_latch \in Bytes
      /\ c.cur_bit \in 0..W /\ c.out_latch \in Bytes
      /\ c.ready \in Bytes \cup {NoByte} /\ c.miso \in 0..1
      /\ c.got \in Seq(Bytes)
  BY DEF CardType
<1>2. W \in Nat /\ W > 1 /\ n \in 0..(W - 1)
  BY <1>1, SpiAssumption
<1>3. Wrapped(c.cur_bit) = n
  <2>1. CASE c.cur_bit = W
    <3>1. W * 1 + 0 = W /\ 1 \in Nat /\ 0 \in 0..(W - 1)
      BY <1>2
    <3>2. W % W = 0
      BY <3>1, BytesAndBits
    <3> QED
      BY <2>1, <3>2 DEF Wrapped
  <2>2. CASE c.cur_bit # W
    <3>1. W * 0 + c.cur_bit = c.cur_bit /\ 0 \in Nat /\ c.cur_bit \in 0..(W - 1)
      BY <1>1, <1>2, <2>2
    <3>2. c.cur_bit % W = c.cur_bit
      BY <3>1, BytesAndBits
    <3> QED
      BY <2>2, <3>2 DEF Wrapped
  <2> QED
    BY <2>1, <2>2
<1>4. \A i \in Places : i # 0 => i - 1 \in Places
  BY <1>2 DEF Places
<1>5. in \in Bytes /\ Shifted(c.out_latch, 1) \in Bytes
  BY <1>1, <1>4 DEF Shifted, Bytes
<1>6. latch \in Bytes
  BY <1>1, <1>5
<1>7. latch[W - 1] \in 0..1
  BY <1>2, <1>6 DEF Bytes, Places
<1>8. ready \in Bytes \cup {NoByte}
  BY <1>1
<1>9. n \in 0..W
  BY <1>2
<1>10. d = [ss |-> c.ss, clk |-> 0, in_bit |-> c.in_bit, in_latch |-> in,
            cur_bit |-> n, out_latch |-> latch,
            ready |-> ready, miso |-> latch[W - 1], got |-> c.got]
  <2>1. d = [[c EXCEPT !.in_latch = in, !.cur_bit = n, !.out_latch = latch,
                       !.ready = ready, !.miso = latch[W - 1]] EXCEPT !.clk = 0]
    BY <1>3 DEF Fallen, shift_out
  <2> HIDE DEF n, latch, d, ready, in
  <2> QED
    BY <2>1 DEF CardType
<1> HIDE DEF n, latch, d, ready, in
<1>11. d \in CardType
  BY <1>1, <1>5, <1>6, <1>7, <1>8, <1>9, <1>10 DEF CardType
<1>12. /\ d.clk = 0 /\ d.ss = c.ss /\ d.in_bit = c.in_bit /\ d.got = c.got
       /\ d.cur_bit = n /\ d.in_latch = in /\ d.out_latch = latch
       /\ d.miso = latch[W - 1] /\ d.ready = ready
  BY <1>10
<1> QED
  BY <1>2, <1>6, <1>11, <1>12 DEF n, latch, d, ready, in

\* A rising edge takes one more bit.
LEMMA RisenReceives ==
    ASSUME NEW c \in CardType, NEW ck \in Seq(0..1),
           NEW reply \in Bytes \cup {NoByte}, c.clk = 0, Receiving(c, ck)
    PROVE  Receiving(Risen(c, reply), Append(ck, c.in_bit))
<1> DEFINE d  == Risen(c, reply)
           dk == Append(ck, c.in_bit)
           b  == Begun(c)
           r  == c.cur_bit
           g  == Len(c.got)
           latch == [c.in_latch EXCEPT ![0] = c.in_bit]
<1>0. W \in Nat /\ W > 1
  BY SpiAssumption
<1>1. /\ r \in 0..(W - 1) /\ r # W /\ b = g /\ g \in Nat
      /\ c.in_latch \in Bytes /\ c.in_bit \in 0..1 /\ c.got \in Seq(Bytes)
  BY <1>0 DEF Receiving, CardType, Begun
<1>2. /\ d.clk = 1 /\ d.cur_bit = r + 1 /\ d.in_latch = latch /\ latch \in Bytes
      /\ d.got = IF r + 1 = W THEN Append(c.got, latch) ELSE c.got
  BY <1>0, <1>1, RisenIs
<1>3. /\ Len(ck) \in Nat /\ Len(dk) = Len(ck) + 1 /\ dk[Len(ck) + 1] = c.in_bit
      /\ \A i \in 1..Len(ck) : dk[i] = ck[i]
  BY <1>1
<1>4. /\ \A k \in 1..g, j \in 1..W : W * (k - 1) + j \in 1..Len(ck)
      /\ \A j \in 1..r : W * b + j \in 1..Len(ck)
  BY ReceivedClocked
<1>5. Len(ck) = W * b + r /\ W * b \in Nat
  BY <1>1, ByteStarts DEF Receiving
<1>6. /\ r + 1 = W => Len(d.got) = g + 1
      /\ r + 1 # W => Len(d.got) = g
  BY <1>1, <1>2
<1> HIDE DEF d, dk, latch
<1>7. Begun(d) = b
  BY <1>1, <1>2, <1>6 DEF Begun
<1>8. Len(dk) = W * b + (r + 1)
  <2> HIDE DEF b, r, g
  <2> QED
    BY <1>0, <1>1, <1>3, <1>5
<1>9. ASSUME NEW j \in 1..(r + 1) PROVE latch[(r + 1) - j] = dk[W * b + j]
  <2>1. CASE j = r + 1
    <3>1. (r + 1) - j = 0 /\ W * b + j = Len(ck) + 1
      <4> HIDE DEF b, r, g
      <4> QED
        BY <1>0, <1>1, <1>5, <2>1
    <3>2. latch[0] = c.in_bit
      BY <1>0, <1>1 DEF latch, Bytes, Places
    <3> QED
      BY <1>3, <3>1, <3>2
  <2>2. CASE j # r + 1
    <3>1. j \in 1..r /\ (r + 1) - j \in Places /\ (r + 1) - j # 0
          /\ (r + 1) - j = r - j + (1 - 0)
      BY <1>0, <1>1, <2>2 DEF Places
    <3>2. latch[(r + 1) - j] = c.in_latch[(r + 1) - j]
      BY <1>1, <3>1 DEF latch, Bytes
    <3>3. c.in_latch[r - j + (1 - 0)] = ck[W * b + j]
      BY <3>1 DEF Receiving
    <3>4. dk[W * b + j] = ck[W * b + j]
      BY <1>3, <1>4, <3>1
    <3> QED
      BY <3>1, <3>2, <3>3, <3>4
  <2> QED
    BY <2>1, <2>2
<1>10. ASSUME NEW j \in 1..d.cur_bit
       PROVE  d.in_latch[d.cur_bit - j + (1 - d.clk)] = dk[W * Begun(d) + j]
  <2>1. j \in 1..(r + 1) /\ (r + 1) - j + (1 - 1) = (r + 1) - j
    BY <1>1, <1>2
  <2> QED
    BY <1>2, <1>7, <1>9, <2>1
<1>11. ASSUME NEW k \in 1..g, NEW j \in 1..W
       PROVE  c.got[k][W - j] = dk[W * (k - 1) + j]
  BY <1>3, <1>4 DEF Receiving
<1>12. ASSUME NEW k \in 1..Len(d.got), NEW j \in 1..W
       PROVE  d.got[k][W - j] = dk[W * (k - 1) + j]
  <2>1. CASE r + 1 # W
    BY <1>2, <1>6, <1>11, <2>1
  <2>2. CASE r + 1 = W
    <3>0. d.got = Append(c.got, latch) /\ Len(d.got) = g + 1
      BY <1>2, <1>6, <2>2
    <3>1. CASE k = g + 1
      <4>1. d.got[k] = latch
        BY <1>1, <3>0, <3>1
      <4>2. k - 1 = b /\ j \in 1..(r + 1) /\ W - j = (r + 1) - j
        BY <1>1, <2>2, <3>1
      <4> QED
        BY <1>9, <4>1, <4>2
    <3>2. CASE k # g + 1
      <4>1. k \in 1..g /\ d.got[k] = c.got[k]
        BY <1>1, <3>0, <3>2
      <4> QED
        BY <1>11, <4>1
    <3> QED
      BY <3>1, <3>2
  <2> QED
    BY <2>1, <2>2
<1>13. Receiving(d, dk)
  <2>1. Begun(d) \in Nat /\ Len(dk) = W * Begun(d) + d.cur_bit
    BY <1>1, <1>2, <1>7, <1>8
  <2>2. d.clk # 0
    BY <1>2
  <2> HIDE DEF b, r, g
  <2> QED
    BY <2>1, <2>2, <1>10, <1>12 DEF Receiving
<1> QED
  BY <1>13 DEF d, dk

\* A falling edge moves the bits of the latch up.
LEMMA FallenReceives ==
    ASSUME NEW c \in CardType, NEW ck \in Seq(0..1), c.clk = 1, Receiving(c, ck)
    PROVE  Receiving(Fallen(c), ck)
<1> DEFINE d == Fallen(c)
           b == Begun(c)
           r == c.cur_bit
<1>0. W \in Nat /\ W > 1
  BY SpiAssumption
<1>1. /\ r \in 0..W /\ b \in Nat /\ c.in_latch \in Bytes /\ Len(c.got) \in Nat
      /\ Len(ck) = W * b + r
  BY DEF Receiving, CardType
<1>2. /\ d.clk = 0 /\ d.cur_bit = (IF r = W THEN 0 ELSE r) /\ d.got = c.got
      /\ d.in_latch = Shifted(c.in_latch, 0)
  BY FallenIs
<1> HIDE DEF d
<1>3. \A k \in 1..Len(d.got), j \in 1..W : d.got[k][W - j] = ck[W * (k - 1) + j]
  BY <1>2 DEF Receiving
<1>4. CASE r = W
  <2>1. d.cur_bit = 0 /\ Begun(d) = b + 1
    BY <1>0, <1>1, <1>2, <1>4 DEF Begun
  <2>2. W * (b + 1) = W * b + W /\ W * b \in Nat
    BY <1>1, ByteStarts
  <2>3. Len(ck) = W * Begun(d) + d.cur_bit
    <3>1. W * Begun(d) = W * (b + 1)
      BY <2>1
    <3> HIDE DEF b, r
    <3> QED
      BY <1>0, <1>1, <1>4, <2>1, <2>2, <3>1
  <2> QED
    BY <1>0, <1>1, <1>2, <1>3, <2>1, <2>3 DEF Receiving, d
<1>5. CASE r # W
  <2>1. d.cur_bit = r /\ Begun(d) = b /\ r < W
    BY <1>0, <1>1, <1>2, <1>5 DEF Begun
  <2>2. ASSUME NEW j \in 1..r
        PROVE  d.in_latch[r - j + (1 - 0)] = ck[W * b + j]
    <3>1. r - j + (1 - 0) \in Places /\ r - j + (1 - 0) # 0
          /\ (r - j + (1 - 0)) - 1 = r - j + (1 - 1)
      BY <1>0, <1>1, <2>1 DEF Places
    <3>2. d.in_latch[r - j + (1 - 0)] = c.in_latch[(r - j + (1 - 0)) - 1]
      BY <1>2, <3>1 DEF Shifted
    <3>3. c.in_latch[r - j + (1 - 1)] = ck[W * b + j]
      BY DEF Receiving
    <3> QED
      BY <3>1, <3>2, <3>3
  <2> QED
    BY <1>1, <1>2, <1>3, <2>1, <2>2 DEF Receiving, d
<1> QED
  BY <1>4, <1>5

-----------------------------------------------------------------------------
(* The SPI bus: what the card answers *)

\* The invariant of the sending half: m_out_latch is the answer, shifted by the
\* bits sent with ones behind; ready is what is due.
Sent(c) == IF c.cur_bit = 0 THEN 0 ELSE c.cur_bit - c.clk
Replying(c, due, answer) ==
    /\ c.ready # NoByte => c.clk = 1 /\ c.cur_bit = W
    /\ due = IF c.ready = NoByte THEN Ones ELSE c.ready
    /\ c.clk = 1 /\ c.cur_bit = 0 => c.out_latch = Ones
    /\ \A i \in Places :
         c.out_latch[i] = IF i >= Sent(c) THEN answer[i - Sent(c)] ELSE 1

\* A rising edge: the answer to a whole byte is due.
LEMMA RisenReplies ==
    ASSUME NEW c \in CardType, NEW reply \in Bytes \cup {NoByte}, NEW due, NEW answer,
           c.clk = 0, c.cur_bit < W, Replying(c, due, answer)
    PROVE  Replying(Risen(c, reply),
                    IF c.cur_bit + 1 = W /\ reply # NoByte THEN reply ELSE due, answer)
<1> DEFINE d == Risen(c, reply)
           r == c.cur_bit
<1>0. W \in Nat /\ W > 1 /\ r \in 0..W
  BY SpiAssumption DEF CardType
<1>1. /\ d.clk = 1 /\ d.cur_bit = r + 1 /\ d.out_latch = c.out_latch
      /\ d.ready = IF r + 1 = W THEN reply ELSE c.ready
  BY RisenIs
<1>2. c.ready = NoByte /\ due = Ones
  BY DEF Replying
<1> HIDE DEF d
<1>3. Sent(d) = Sent(c) /\ d.cur_bit # 0
  BY <1>0, <1>1 DEF Sent
<1>4. d.ready # NoByte => d.cur_bit = W
  BY <1>1, <1>2
<1>5. Replying(d, IF r + 1 = W /\ reply # NoByte THEN reply ELSE due, answer)
  BY <1>1, <1>2, <1>3, <1>4 DEF Replying
<1> QED
  BY <1>5 DEF d

\* A falling edge: one more bit of the answer is out, or the answer that was due
\* takes its place.
LEMMA FallenReplies ==
    ASSUME NEW c \in CardType, NEW due, NEW answer,
           c.clk = 1, Replying(c, due, answer)
    PROVE  /\ Replying(Fallen(c), Ones,
                       IF c.cur_bit \in {0, W} THEN due ELSE answer)
           /\ Fallen(c).miso = Fallen(c).out_latch[W - 1]
<1> DEFINE d == Fallen(c)
           r == c.cur_bit
           n == IF r = W THEN 0 ELSE r
<1>0. W \in Nat /\ W > 1 /\ r \in 0..W /\ c.out_latch \in Bytes
  BY SpiAssumption DEF CardType
<1>1. /\ d.clk = 0 /\ d.cur_bit = n /\ d.miso = d.out_latch[W - 1]
      /\ d.out_latch = IF n = 0 /\ c.ready # NoByte
                       THEN c.ready ELSE Shifted(c.out_latch, 1)
      /\ d.ready = IF n = 0 THEN NoByte ELSE c.ready
  BY FallenIs
<1>2. n = 0 <=> r \in {0, W}
  BY <1>0
<1>3. d.ready = NoByte
  BY <1>0, <1>1 DEF Replying
<1> HIDE DEF d
<1>4. \A i \in Places : i \in Nat /\ i <= W - 1 /\ (i # 0 => i - 1 \in Places)
  BY <1>0 DEF Places
<1>5. CASE n = 0
  <2>1. d.out_latch = due
    <3>1. CASE c.ready # NoByte
      BY <1>1, <1>5, <3>1 DEF Replying
    <3>2. CASE c.ready = NoByte
      <4>1. due = Ones /\ d.out_latch = Shifted(c.out_latch, 1)
        BY <1>1, <1>5, <3>2 DEF Replying
      <4>2. ASSUME NEW i \in Places, i # 0 PROVE c.out_latch[i - 1] = 1
        <5>1. CASE r = 0
          BY <1>4, <4>2, <5>1 DEF Replying, Ones
        <5>2. CASE r = W
          <6>1. Sent(c) = W - 1 /\ ~(i - 1 >= W - 1) /\ i - 1 \in Places
            BY <1>0, <1>4, <4>2, <5>2 DEF Sent
          <6> QED
            BY <6>1 DEF Replying
        <5> QED
          BY <1>2, <1>5, <5>1, <5>2
      <4>3. Shifted(c.out_latch, 1) = Ones
        BY <4>2 DEF Shifted, Ones
      <4> QED
        BY <4>1, <4>3
    <3> QED
      BY <3>1, <3>2
  <2>2. Sent(d) = 0 /\ \A i \in Places : i >= 0 /\ i - 0 = i
    BY <1>1, <1>4, <1>5 DEF Sent
  <2>3. Replying(d, Ones, due)
    BY <1>1, <1>3, <2>1, <2>2 DEF Replying
  <2> QED
    BY <1>1, <1>2, <1>5, <2>3 DEF d
<1>6. CASE n # 0
  <2>1. /\ Sent(c) = r - 1 /\ Sent(d) = r /\ r \in 1..(W - 1)
        /\ d.out_latch = Shifted(c.out_latch, 1)
    BY <1>0, <1>1, <1>6 DEF Sent
  <2>2. ASSUME NEW i \in Places
        PROVE  d.out_latch[i] = IF i >= r THEN answer[i - r] ELSE 1
    <3>1. CASE i = 0
      <4>1. ~(i >= r) /\ d.out_latch[i] = 1
        BY <2>1, <3>1 DEF Shifted
      <4> QED
        BY <4>1
    <3>2. CASE i # 0
      <4>1. d.out_latch[i] = c.out_latch[i - 1] /\ i - 1 \in Places
        BY <1>4, <2>1, <3>2 DEF Shifted
      <4>2. /\ i - 1 >= r - 1 <=> i >= r
            /\ (i - 1) - (r - 1) = i - r
        BY <1>0, <1>4
      <4> QED
        BY <2>1, <4>1, <4>2 DEF Replying
    <3> QED
      BY <3>1, <3>2
  <2>3. Replying(d, Ones, answer)
    BY <1>1, <1>3, <2>1, <2>2 DEF Replying
  <2> QED
    BY <1>1, <1>2, <1>6, <2>3 DEF d
<1> QED
  BY <1>5, <1>6

-----------------------------------------------------------------------------
(* The SPI bus: the port writes *)

\* The select line: a card that is selected anew begins afresh.
Fresh(c) == /\ c.cur_bit = 0 /\ c.out_latch = Ones /\ c.ready = NoByte
            /\ c.got = <<>>

\* What spi_ss_w does to the card.
LEMMA SelectIs ==
    ASSUME NEW c \in CardType, NEW state \in 0..1
    PROVE  LET d == spi_ss_w(c, state)
           IN  /\ d \in CardType
               /\ d.ss = state /\ d.clk = c.clk /\ d.in_bit = c.in_bit
               /\ c.ss = 0 /\ state = 1 => Fresh(d)
               /\ c.ss = 1 /\ state = 1 => d = c
<1>1. Ones \in Bytes /\ Zeros \in Bytes /\ 0 \in 0..W /\ <<>> \in Seq(Bytes)
  BY SpiAssumption DEF Ones, Zeros, Bytes
<1>2. CASE c.ss = 0 /\ state = 1
  <2>1. spi_ss_w(c, state) =
          [ss |-> 1, clk |-> c.clk, in_bit |-> c.in_bit, in_latch |-> Zeros,
           cur_bit |-> 0, out_latch |-> Ones, ready |-> NoByte,
           miso |-> c.miso, got |-> <<>>]
    BY <1>2 DEF spi_ss_w, CardType
  <2>2. c.clk \in 0..1 /\ c.in_bit \in 0..1 /\ c.miso \in 0..1
    BY DEF CardType
  <2>3. spi_ss_w(c, state) \in CardType
    BY <1>1, <2>1, <2>2 DEF CardType
  <2> QED
    BY <1>2, <2>1, <2>3 DEF Fresh
<1>3. CASE ~(c.ss = 0 /\ state = 1)
  BY <1>3 DEF spi_ss_w, CardType
<1> QED
  BY <1>2, <1>3

\* A fresh card has received nothing and answers with ones.
LEMMA FreshStarts ==
    ASSUME NEW c \in CardType, Fresh(c)
    PROVE  Receiving(c, <<>>) /\ Replying(c, Ones, Ones)
<1>0. W \in Nat /\ W > 1
  BY SpiAssumption
<1>1. Begun(c) = 0 /\ W * 0 + 0 = 0
  BY <1>0 DEF Fresh, Begun
<1>2. Receiving(c, <<>>)
  BY <1>0, <1>1 DEF Fresh, Receiving
<1>3. Sent(c) = 0 /\ \A i \in Places : i >= 0 /\ i - 0 = i
  BY <1>0 DEF Fresh, Sent, Places
<1>4. Replying(c, Ones, Ones)
  BY <1>3 DEF Fresh, Replying
<1> QED
  BY <1>2, <1>4

\* The clock line: an edge that a selected card sees, or a new level only.
LEMMA ClockIs ==
    ASSUME NEW c \in CardType, NEW state \in 0..1, NEW reply
    PROVE  LET d == spi_clock_w(c, state, reply)
           IN  /\ c.ss = 1 /\ c.clk = 0 /\ state = 1 => d = Risen(c, reply)
               /\ c.ss = 1 /\ c.clk = 1 /\ state = 0 => d = Fallen(c)
               /\ state = c.clk => d = c
               /\ c.ss = 0 => d = [c EXCEPT !.clk = state]
<1>1. c.clk \in 0..1 /\ c.ss \in 0..1
  BY DEF CardType
<1>2. c.ss = 1 /\ c.clk = 0 /\ state = 1 => spi_clock_w(c, state, reply) = Risen(c, reply)
  BY DEF spi_clock_w, Risen
<1>3. c.ss = 1 /\ c.clk = 1 /\ state = 0 => spi_clock_w(c, state, reply) = Fallen(c)
  BY DEF spi_clock_w, Fallen
<1>4. c.ss = 0 => spi_clock_w(c, state, reply) = [c EXCEPT !.clk = state]
  BY DEF spi_clock_w
<1>5. state = c.clk => spi_clock_w(c, state, reply) = [c EXCEPT !.clk = c.clk]
  BY DEF spi_clock_w
<1>6. [c EXCEPT !.clk = c.clk] = c
  BY DEF CardType
<1> QED
  BY <1>2, <1>3, <1>4, <1>5, <1>6

\* The data line changes nothing but the bit the next edge will take.
LEMMA MosiIs ==
    ASSUME NEW c \in CardType, NEW state \in 0..1
    PROVE  LET d == spi_mosi_w(c, state)
           IN  /\ d \in CardType
               /\ d.in_bit = state /\ d.ss = c.ss /\ d.clk = c.clk
               /\ d.miso = c.miso /\ d.out_latch = c.out_latch
               /\ \A ck : Receiving(c, ck) => Receiving(d, ck)
               /\ \A due, answer : Replying(c, due, answer) => Replying(d, due, answer)
<1> DEFINE d == spi_mosi_w(c, state)
<1>1. /\ d \in CardType
      /\ d.in_bit = state /\ d.ss = c.ss /\ d.clk = c.clk
      /\ d.miso = c.miso /\ d.out_latch = c.out_latch
      /\ d.cur_bit = c.cur_bit /\ d.got = c.got /\ d.in_latch = c.in_latch
      /\ d.ready = c.ready
  BY DEF spi_mosi_w, CardType
<1> HIDE DEF d
<1>2. Begun(d) = Begun(c) /\ Sent(d) = Sent(c)
  BY <1>1 DEF Begun, Sent
<1>3. \A ck : Receiving(c, ck) => Receiving(d, ck)
  BY <1>1, <1>2 DEF Receiving
<1>4. \A due, answer : Replying(c, due, answer) => Replying(d, due, answer)
  BY <1>1, <1>2 DEF Replying
<1> QED
  BY <1>1, <1>3, <1>4 DEF d

\* The host counts whole bytes as the card does.
LEMMA WholeIs ==
    ASSUME NEW c \in CardType, NEW ck \in Seq(0..1), Receiving(c, ck)
    PROVE  /\ Len(ck) \div W = Len(c.got)
           /\ Len(ck) % W = IF c.cur_bit = W THEN 0 ELSE c.cur_bit
<1> DEFINE b == Begun(c)
           r == c.cur_bit
           n == Len(ck)
           g == Len(c.got)
<1>0. W \in Nat /\ W > 1 /\ r \in 0..W /\ b \in Nat /\ n = W * b + r /\ g \in Nat
  BY SpiAssumption DEF CardType, Receiving
<1>1. g = IF r = W THEN b + 1 ELSE b
  BY <1>0 DEF Begun
<1>2. W * (b + 1) = W * b + W /\ W * b \in Nat
  BY <1>0, ByteStarts
<1> HIDE DEF b, r, n, g
<1>3. CASE r = W
  <2>1. n = W * (b + 1) + 0 /\ b + 1 \in Nat /\ 0 \in 0..(W - 1)
    BY <1>0, <1>2, <1>3
  <2>2. n \div W = b + 1 /\ n % W = 0
    BY <2>1, BytesAndBits
  <2> QED
    BY <1>1, <1>3, <2>2 DEF n, r, g
<1>4. CASE r # W
  <2>1. r \in 0..(W - 1)
    BY <1>0, <1>4
  <2>2. n \div W = b /\ n % W = r
    BY <1>0, <2>1, BytesAndBits
  <2> QED
    BY <1>1, <1>4, <2>2 DEF n, r, g
<1> QED
  BY <1>3, <1>4

\* The inductive invariant: the card knows the pins, except for a clock that a
\* machine reset told it is low; a selected card receives and answers as above.
Levels(pn, c, settled) ==
    /\ c.ss = 1 - pn["cs"] /\ c.in_bit = pn["copi"]
    /\ settled = TRUE => c.clk = pn["sck"]
    /\ settled = FALSE => pn = High /\ c.clk = 0
Exchange(c, ck, h) ==
    /\ Receiving(c, ck) /\ Replying(c, h.due, h.answer)
    /\ c.clk = 0 /\ h.driven = TRUE => c.miso = c.out_latch[W - 1]
SpiInv ==
    /\ SpiTypeOK
    /\ Levels(pins, card, spi.settled)
    /\ card.ss = 1 => Exchange(card, Clocked, spi)

\* What the host sees of a port write: the history after it from the one before,
\* where a selection begins a new one.
LEMMA ObservedIs ==
    ASSUME spi \in SpiHistory, pins \in [Pins -> 0..1],
           NEW p \in [Pins -> 0..1], NEW reply \in Bytes \cup {NoByte}
    PROVE  LET o       == Observed(p, reply)
               selects == pins["cs"] = 1 /\ p["cs"] = 0
               rises   == p["cs"] = 0 /\ pins["sck"] = 0 /\ p["sck"] = 1
               falls   == p["cs"] = 0 /\ pins["sck"] = 1 /\ p["sck"] = 0
               phantom == selects /\ spi.settled = FALSE /\ p["sck"] = 1
               ck0     == IF selects THEN <<>> ELSE Clocked
               ck      == o.phantom \o o.bits
               due0    == IF selects THEN Ones ELSE spi.due
               answer0 == IF selects THEN Ones ELSE spi.answer
               whole   == Len(ck) % W = 0
           IN  /\ o \in SpiHistory /\ o.settled = TRUE
               /\ ck \in Seq(0..1) /\ ck0 \in Seq(0..1)
               /\ rises # phantom => ck = Append(ck0, pins["copi"])
               /\ ~rises /\ ~phantom => ck = ck0
               /\ o.driven = TRUE <=> \/ ~selects /\ spi.driven = TRUE
                                      \/ falls /\ spi.settled = TRUE
               /\ o.due = IF rises /\ whole /\ reply # NoByte THEN reply
                          ELSE IF falls THEN Ones ELSE due0
               /\ o.answer = IF falls /\ whole THEN due0 ELSE answer0
<1> DEFINE selects == pins["cs"] = 1 /\ p["cs"] = 0
           rises   == p["cs"] = 0 /\ pins["sck"] = 0 /\ p["sck"] = 1
           falls   == p["cs"] = 0 /\ pins["sck"] = 1 /\ p["sck"] = 0
           ph == IF ~selects THEN spi.phantom
                 ELSE IF ~spi.settled /\ p["sck"] = 1
                 THEN <<pins["copi"]>> ELSE <<>>
           bt == (IF selects THEN <<>> ELSE spi.bits)
                   \o (IF rises THEN <<pins["copi"]>> ELSE <<>>)
           whole0  == (Len(ph) + Len(bt)) % W = 0
           due0    == IF selects THEN Ones ELSE spi.due
           answer0 == IF selects THEN Ones ELSE spi.answer
           dr      == \/ ~selects /\ spi.driven
                      \/ falls /\ spi.settled
           due == IF rises /\ whole0 /\ reply # NoByte THEN reply
                  ELSE IF falls THEN Ones ELSE due0
           answer == IF falls /\ whole0 THEN due0 ELSE answer0
           o == Observed(p, reply)
           ck0 == IF selects THEN <<>> ELSE Clocked
<1>1. /\ spi.phantom \in Seq(0..1) /\ spi.bits \in Seq(0..1)
      /\ spi.settled \in BOOLEAN /\ spi.driven \in BOOLEAN
      /\ spi.due \in Bytes /\ spi.answer \in Bytes
  BY DEF SpiHistory
<1>2. Ones \in Bytes /\ pins["copi"] \in 0..1
  BY DEF Ones, Bytes, Pins
<1>3. o = [settled |-> TRUE, phantom |-> ph, bits |-> bt, driven |-> dr,
           due |-> due, answer |-> answer]
  <2>1. answer = IF falls /\ whole0 THEN due0
                 ELSE IF selects THEN Ones ELSE spi.answer
    OBVIOUS
  <2> QED
    BY <2>1 DEF Observed
<1>4. <<pins["copi"]>> \in Seq(0..1) /\ <<>> \in Seq(0..1)
  BY <1>2
<1>5. ph \in Seq(0..1) /\ bt \in Seq(0..1) /\ ck0 \in Seq(0..1)
  <2>1. /\ (IF selects THEN <<>> ELSE spi.bits) \in Seq(0..1)
        /\ (IF rises THEN <<pins["copi"]>> ELSE <<>>) \in Seq(0..1)
        /\ spi.phantom \o spi.bits \in Seq(0..1)
    <3> HIDE DEF selects, rises
    <3>1. (IF selects THEN <<>> ELSE spi.bits) \in Seq(0..1)
      BY <1>1, <1>4
    <3>2. (IF rises THEN <<pins["copi"]>> ELSE <<>>) \in Seq(0..1)
      BY <1>4, Zenon
    <3>3. spi.phantom \o spi.bits \in Seq(0..1)
      BY <1>1
    <3> QED
      BY <3>1, <3>2, <3>3
  <2>2. ASSUME NEW x \in Seq(0..1), NEW y \in Seq(0..1)
        PROVE  x \o y \in Seq(0..1)
    OBVIOUS
  <2>3. bt \in Seq(0..1)
    BY <2>1, <2>2
  <2>4. ph \in Seq(0..1)
    <3> HIDE DEF selects
    <3> QED
      BY <1>1, <1>4
  <2>5. ck0 \in Seq(0..1)
    <3> HIDE DEF selects
    <3> QED
      BY <1>4, <2>1 DEF Clocked
  <2> QED
    BY <2>3, <2>4, <2>5
<1>6. dr \in BOOLEAN /\ due \in Bytes /\ answer \in Bytes
  BY <1>1, <1>2
<1>7. ph \o bt \in Seq(0..1) /\ Len(ph \o bt) = Len(ph) + Len(bt)
  BY <1>5
<1>8. ASSUME rises, ~(selects /\ spi.settled = FALSE /\ p["sck"] = 1)
      PROVE  ph \o bt = Append(ck0, pins["copi"])
  <2>1. CASE selects
    <3>1. ph = <<>> /\ bt = <<>> \o <<pins["copi"]>> /\ ck0 = <<>>
      BY <1>1, <1>8, <2>1
    <3> HIDE DEF ph, bt, ck0
    <3> QED
      BY <1>2, <3>1
  <2>2. CASE ~selects
    <3>1. ph = spi.phantom /\ bt = spi.bits \o <<pins["copi"]>>
          /\ ck0 = spi.phantom \o spi.bits
      BY <1>8, <2>2 DEF Clocked
    <3> HIDE DEF ph, bt, ck0
    <3>2. ASSUME NEW x \in Seq(0..1), NEW y \in Seq(0..1), NEW z \in 0..1
          PROVE  x \o (y \o <<z>>) = Append(x \o y, z)
      OBVIOUS
    <3> QED
      BY <1>1, <1>2, <3>1, <3>2
  <2> QED
    BY <2>1, <2>2
<1>9. ASSUME ~rises, selects, spi.settled = FALSE, p["sck"] = 1
      PROVE  ph \o bt = Append(ck0, pins["copi"])
  <2>1. ph = <<pins["copi"]>> /\ bt = <<>> \o <<>> /\ ck0 = <<>>
    BY <1>9
  <2> HIDE DEF ph, bt, ck0
  <2> QED
    BY <1>2, <2>1
<1>10. ASSUME ~rises, ~(selects /\ spi.settled = FALSE /\ p["sck"] = 1)
       PROVE  ph \o bt = ck0
  <2>1. CASE selects
    <3>1. ph = <<>> /\ bt = <<>> \o <<>> /\ ck0 = <<>>
      BY <1>1, <1>10, <2>1
    <3> HIDE DEF ph, bt, ck0
    <3> QED
      BY <3>1
  <2>2. CASE ~selects
    <3>1. ph = spi.phantom /\ bt = spi.bits \o <<>>
          /\ ck0 = spi.phantom \o spi.bits
      BY <1>10, <2>2 DEF Clocked
    <3> HIDE DEF ph, bt, ck0
    <3> QED
      BY <1>1, <3>1
  <2> QED
    BY <2>1, <2>2
<1>11. dr = TRUE <=> \/ ~selects /\ spi.driven = TRUE
                     \/ falls /\ spi.settled = TRUE
  BY <1>1
<1> HIDE DEF o, ph, bt, ck0, dr, due, answer
<1>12. o \in SpiHistory
  BY <1>3, <1>5, <1>6 DEF SpiHistory
<1>13. /\ o.settled = TRUE /\ o.phantom = ph /\ o.bits = bt /\ o.driven = dr
       /\ o.due = due /\ o.answer = answer
  BY <1>3
<1>14. whole0 <=> Len(o.phantom \o o.bits) % W = 0
  BY <1>7, <1>13
<1> HIDE DEF whole0
<1>15. /\ o.due = IF rises /\ Len(o.phantom \o o.bits) % W = 0 /\ reply # NoByte
                  THEN reply ELSE IF falls THEN Ones ELSE due0
       /\ o.answer = IF falls /\ Len(o.phantom \o o.bits) % W = 0
                     THEN due0 ELSE answer0
  BY <1>13, <1>14 DEF due, answer
<1> QED
  BY <1>5, <1>7, <1>8, <1>9, <1>10, <1>11, <1>12, <1>13, <1>15 DEF o, ck0

\* A port write keeps the invariant.
LEMMA WriteStep ==
    ASSUME SpiInv, NEW p \in [Pins -> 0..1], NEW reply \in Bytes \cup {NoByte},
           pins' = p, card' = write_outport(card, p, reply), spi' = Observed(p, reply)
    PROVE  SpiInv'
<1> DEFINE selects == pins["cs"] = 1 /\ p["cs"] = 0
           rises   == p["cs"] = 0 /\ pins["sck"] = 0 /\ p["sck"] = 1
           falls   == p["cs"] = 0 /\ pins["sck"] = 1 /\ p["sck"] = 0
           phantom == selects /\ spi.settled = FALSE /\ p["sck"] = 1
           ck0     == IF selects THEN <<>> ELSE Clocked
           ck      == spi'.phantom \o spi'.bits
           due0    == IF selects THEN Ones ELSE spi.due
           answer0 == IF selects THEN Ones ELSE spi.answer
           whole   == Len(ck) % W = 0
           a == spi_ss_w(card, 1 - p["cs"])
           e == spi_clock_w(a, p["sck"], reply)
<1>t. /\ pins \in [Pins -> 0..1] /\ card \in CardType /\ spi \in SpiHistory
      /\ Levels(pins, card, spi.settled)
      /\ card.ss = 1 => Exchange(card, Clocked, spi)
  BY DEF SpiInv, SpiTypeOK
<1>p. /\ p["cs"] \in 0..1 /\ p["sck"] \in 0..1 /\ p["copi"] \in 0..1
      /\ pins["cs"] \in 0..1 /\ pins["sck"] \in 0..1 /\ pins["copi"] \in 0..1
      /\ 1 - p["cs"] \in 0..1
      /\ spi.settled \in BOOLEAN /\ spi.driven \in BOOLEAN
      /\ card.ss \in 0..1 /\ card.clk \in 0..1 /\ card.in_bit \in 0..1
  BY <1>t DEF Pins, SpiHistory, CardType
<1>w. W \in Nat /\ W > 1
  BY SpiAssumption
<1>o. /\ spi' \in SpiHistory /\ spi'.settled = TRUE
      /\ ck \in Seq(0..1) /\ ck0 \in Seq(0..1)
      /\ rises # phantom => ck = Append(ck0, pins["copi"])
      /\ ~rises /\ ~phantom => ck = ck0
      /\ spi'.driven = TRUE <=> \/ ~selects /\ spi.driven = TRUE
                                \/ falls /\ spi.settled = TRUE
      /\ spi'.due = IF rises /\ whole /\ reply # NoByte THEN reply
                    ELSE IF falls THEN Ones ELSE due0
      /\ spi'.answer = IF falls /\ whole THEN due0 ELSE answer0
  BY <1>t, ObservedIs
<1>l. /\ card.ss = 1 - pins["cs"] /\ card.in_bit = pins["copi"]
      /\ spi.settled = TRUE => card.clk = pins["sck"]
      /\ spi.settled = FALSE => pins["cs"] = 1 /\ pins["sck"] = 1 /\ card.clk = 0
  BY <1>t DEF Levels, High, Pins
<1>a. /\ a \in CardType /\ a.ss = 1 - p["cs"] /\ a.clk = card.clk
      /\ a.in_bit = card.in_bit
      /\ card.ss = 0 /\ 1 - p["cs"] = 1 => Fresh(a)
      /\ card.ss = 1 /\ 1 - p["cs"] = 1 => a = card
  BY <1>t, <1>p, SelectIs
<1>e. /\ a.ss = 1 /\ a.clk = 0 /\ p["sck"] = 1 => e = Risen(a, reply)
      /\ a.ss = 1 /\ a.clk = 1 /\ p["sck"] = 0 => e = Fallen(a)
      /\ p["sck"] = a.clk => e = a
      /\ a.ss = 0 => e = [a EXCEPT !.clk = p["sck"]]
  BY <1>a, <1>p, ClockIs
<1>c. card' = spi_mosi_w(e, p["copi"])
  BY DEF write_outport
<1> HIDE DEF a, e, ck0, ck, due0, answer0
<1>k. Clocked' = ck
  BY DEF Clocked, ck
\* Enough: the card after the clock line, before the data line.
<1>z. ASSUME e \in CardType, e.ss = 1 - p["cs"], e.clk = p["sck"],
             e.ss = 1 => Exchange(e, ck, spi')
      PROVE  SpiInv'
  <2> DEFINE d == spi_mosi_w(e, p["copi"])
  <2>1. /\ d \in CardType
        /\ d.in_bit = p["copi"] /\ d.ss = e.ss /\ d.clk = e.clk
        /\ d.miso = e.miso /\ d.out_latch = e.out_latch
        /\ Receiving(e, ck) => Receiving(d, ck)
        /\ Replying(e, spi'.due, spi'.answer) => Replying(d, spi'.due, spi'.answer)
    BY <1>z, <1>p, MosiIs
  <2>2. card' = d
    BY <1>c
  <2> HIDE DEF d
  <2>3. SpiTypeOK'
    BY <1>o, <2>1, <2>2 DEF SpiTypeOK
  <2>4. Levels(p, d, spi'.settled)
    BY <1>o, <1>z, <2>1 DEF Levels
  <2>5. d.ss = 1 => Exchange(d, ck, spi')
    BY <1>z, <2>1 DEF Exchange
  <2>6. Levels(pins, card, spi.settled)'
    BY <2>2, <2>4 DEF Levels, High, Pins
  <2>7. (card.ss = 1 => Exchange(card, Clocked, spi))'
    <3>1. ASSUME card'.ss = 1
          PROVE  /\ Receiving(card', ck) /\ Replying(card', spi'.due, spi'.answer)
                 /\ card'.clk = 0 /\ spi'.driven = TRUE
                      => card'.miso = card'.out_latch[W - 1]
      BY <2>2, <2>5, <3>1 DEF Exchange
    <3>2. Receiving(card', ck) = Receiving(card, Clocked)'
      BY <1>k DEF Receiving, Begun
    <3>3. Replying(card', spi'.due, spi'.answer) = Replying(card, spi.due, spi.answer)'
      BY DEF Replying, Sent
    <3> QED
      BY <3>1, <3>2, <3>3 DEF Exchange
  <2> QED
    BY <2>3, <2>6, <2>7 DEF SpiInv
<1>1. CASE p["cs"] = 1
  <2>1. a.ss = 0 /\ 1 - p["cs"] = 0
    BY <1>a, <1>1
  <2>2. e = [a EXCEPT !.clk = p["sck"]]
    BY <1>e, <2>1
  <2>3. e \in CardType /\ e.ss = 0 /\ e.clk = p["sck"]
    BY <1>a, <1>p, <2>1, <2>2 DEF CardType
  <2> QED
    BY <1>z, <2>1, <2>3
<1>2. CASE p["cs"] = 0
  <2>s. a.ss = 1 /\ 1 - p["cs"] = 1 /\ a.in_bit = pins["copi"] /\ a.clk = card.clk
    BY <1>a, <1>l, <1>2
  \* The card after the select line.
  <2>1. /\ Receiving(a, ck0) /\ Replying(a, due0, answer0)
        /\ a.clk = 0 /\ ~selects /\ spi.driven = TRUE
             => a.miso = a.out_latch[W - 1]
        /\ spi.settled = FALSE => selects
    <3>1. CASE selects
      <4>1. Fresh(a)
        BY <1>a, <1>l, <2>s, <3>1
      <4>2. ck0 = <<>> /\ due0 = Ones /\ answer0 = Ones
        BY <3>1 DEF ck0, due0, answer0
      <4> QED
        BY <1>a, <3>1, <4>1, <4>2, FreshStarts
    <3>2. CASE ~selects
      <4>1. pins["cs"] = 0 /\ card.ss = 1
        BY <1>2, <1>p, <1>l, <3>2
      <4>2. a = card /\ Exchange(card, Clocked, spi) /\ spi.settled = TRUE
        BY <1>a, <1>t, <1>p, <1>l, <2>s, <4>1
      <4>3. ck0 = Clocked /\ due0 = spi.due /\ answer0 = spi.answer
        BY <3>2 DEF ck0, due0, answer0
      <4> QED
        BY <4>2, <4>3 DEF Exchange
    <3> QED
      BY <3>1, <3>2
  <2>2. CASE p["sck"] = a.clk
    <3>1. e = a
      BY <1>e, <2>2
    <3>2. CASE spi.settled = TRUE
      <4>1. ~rises /\ ~falls /\ ~phantom
        BY <1>l, <2>s, <2>2, <3>2
      <4>2. ck = ck0 /\ spi'.due = due0 /\ spi'.answer = answer0
            /\ (spi'.driven = TRUE <=> ~selects /\ spi.driven = TRUE)
        BY <1>o, <4>1
      <4>3. Exchange(a, ck, spi')
        BY <2>1, <4>2 DEF Exchange
      <4> QED
        BY <1>a, <1>z, <2>2, <3>1, <4>3
    <3>3. CASE spi.settled = FALSE
      <4>1. selects /\ ~rises /\ falls /\ ~phantom
        BY <1>2, <1>l, <2>s, <2>1, <2>2, <3>3
      <4>2. ck = ck0 /\ spi'.due = Ones /\ due0 = Ones /\ answer0 = Ones
            /\ spi'.answer = Ones /\ spi'.driven # TRUE
        BY <1>o, <3>3, <4>1 DEF due0, answer0
      <4>3. Exchange(a, ck, spi')
        BY <2>1, <4>2 DEF Exchange
      <4> QED
        BY <1>a, <1>z, <2>2, <3>1, <4>3
    <3> QED
      BY <1>p, <3>2, <3>3
  <2>3. CASE a.clk = 0 /\ p["sck"] = 1
    <3>1. e = Risen(a, reply)
      BY <1>e, <2>s, <2>3
    <3>2. a.cur_bit < W /\ a.cur_bit \in 0..W
      BY <1>a, <2>1, <2>3 DEF Receiving, CardType
    <3>3. e \in CardType /\ e.ss = a.ss /\ e.clk = 1 /\ e.cur_bit = a.cur_bit + 1
      BY <1>a, <3>1, <3>2, RisenIs
    <3>4. rises # phantom /\ ~falls
      BY <1>2, <1>p, <1>l, <2>s, <2>1, <2>3
    <3>5. ck = Append(ck0, a.in_bit)
      BY <1>o, <2>s, <3>4
    <3>6. Receiving(e, ck)
      BY <1>a, <1>o, <2>1, <2>3, <3>1, <3>5, RisenReceives
    <3>7. whole <=> a.cur_bit + 1 = W
      BY <1>o, <1>w, <3>2, <3>3, <3>6, WholeIs
    <3>8. spi'.due = IF a.cur_bit + 1 = W /\ reply # NoByte THEN reply ELSE due0
      <4>1. CASE rises
        BY <1>o, <3>4, <3>7, <4>1
      <4>2. CASE phantom
        <5>1. Fresh(a) /\ ~rises
          BY <1>a, <1>l, <2>s, <3>4, <4>2
        <5>2. a.cur_bit + 1 # W
          BY <1>w, <5>1 DEF Fresh
        <5> QED
          BY <1>o, <3>4, <5>1, <5>2
      <4> QED
        BY <3>4, <4>1, <4>2
    <3>9. spi'.answer = answer0
      BY <1>o, <3>4
    <3>10. Replying(e, spi'.due, spi'.answer)
      BY <1>a, <2>1, <2>3, <3>1, <3>2, <3>8, <3>9, RisenReplies
    <3>11. Exchange(e, ck, spi')
      BY <3>3, <3>6, <3>10 DEF Exchange
    <3> QED
      BY <1>a, <1>z, <2>3, <3>3, <3>11
  <2>4. CASE a.clk = 1 /\ p["sck"] = 0
    <3>1. e = Fallen(a)
      BY <1>e, <2>s, <2>4
    <3>2. spi.settled = TRUE /\ falls /\ ~rises /\ ~phantom
      BY <1>2, <1>p, <1>l, <2>s, <2>4
    <3>3. e \in CardType /\ e.ss = a.ss /\ e.clk = 0
      BY <1>a, <3>1, FallenIs
    <3>4. ck = ck0
      BY <1>o, <3>2
    <3>5. Receiving(e, ck)
      BY <1>a, <1>o, <2>1, <2>4, <3>1, <3>4, FallenReceives
    <3>6. whole <=> a.cur_bit \in {0, W}
      BY <1>a, <1>o, <1>w, <2>1, <3>4, WholeIs
    <3>7. /\ spi'.due = Ones
          /\ spi'.answer = IF a.cur_bit \in {0, W} THEN due0 ELSE answer0
      BY <1>o, <3>2, <3>6
    <3>8. Replying(e, spi'.due, spi'.answer) /\ e.miso = e.out_latch[W - 1]
      BY <1>a, <2>1, <2>4, <3>1, <3>7, FallenReplies
    <3>9. Exchange(e, ck, spi')
      BY <3>5, <3>8 DEF Exchange
    <3> QED
      BY <1>a, <1>z, <2>4, <3>3, <3>9
  <2>5. a.clk \in 0..1
    BY <1>p, <2>s
  <2> QED
    BY <1>p, <2>2, <2>3, <2>4, <2>5
<1> QED
  BY <1>p, <1>1, <1>2

\* A machine reset deselects the card and tells it that the clock is low.
LEMMA SpiResetStep == SpiInv /\ SpiReset => SpiInv'
<1> SUFFICES ASSUME SpiInv, SpiReset PROVE SpiInv'
  OBVIOUS
<1> DEFINE a == spi_ss_w(card, 1 - High["cs"])
           b == spi_clock_w(a, High["sck"], NoByte)
           c == spi_mosi_w(b, High["copi"])
           d == spi_clock_w(c, 0, NoByte)
<1>0. High["cs"] = 1 /\ High["sck"] = 1 /\ High["copi"] = 1 /\ High \in [Pins -> 0..1]
  BY DEF High, Pins
<1>1. pins' = High /\ card' = d /\ spi' = [spi EXCEPT !.settled = FALSE]
  BY DEF SpiReset, write_outport
<1>2. card \in CardType /\ spi \in SpiHistory
  BY DEF SpiInv, SpiTypeOK
<1>3. a \in CardType /\ a.ss = 0
  <2>1. 1 - High["cs"] = 0 /\ 0 \in 0..1
    BY <1>0
  <2> QED
    BY <1>2, <2>1, SelectIs
<1> HIDE DEF a
<1>4. b \in CardType /\ b.ss = 0
  <2>1. b = [a EXCEPT !.clk = 1]
    BY <1>0, <1>3, ClockIs
  <2> HIDE DEF b
  <2> QED
    BY <1>3, <2>1 DEF CardType
<1> HIDE DEF b
<1>5. c \in CardType /\ c.ss = 0 /\ c.in_bit = 1
  BY <1>0, <1>4, MosiIs
<1> HIDE DEF c
<1>6. d \in CardType /\ d.ss = 0 /\ d.in_bit = 1 /\ d.clk = 0
  <2>1. d = [c EXCEPT !.clk = 0]
    BY <1>5, ClockIs
  <2> HIDE DEF d
  <2> QED
    BY <1>5, <2>1 DEF CardType
<1> HIDE DEF d
<1>7. spi' \in SpiHistory /\ spi'.settled = FALSE
  BY <1>1, <1>2 DEF SpiHistory
<1>8. SpiTypeOK'
  BY <1>0, <1>1, <1>6, <1>7 DEF SpiTypeOK
<1>9. Levels(pins, card, spi.settled)'
  BY <1>0, <1>1, <1>6, <1>7 DEF Levels, High
<1>10. card'.ss = 0
  BY <1>1, <1>6
<1> QED
  BY <1>8, <1>9, <1>10 DEF SpiInv

\* The state after the first reset has it.
LEMMA SpiInitStep == SpiInit => SpiInv
<1> SUFFICES ASSUME SpiInit PROVE SpiInv
  OBVIOUS
<1>1. /\ Ones \in Bytes /\ Zeros \in Bytes /\ 0 \in 0..W
      /\ <<>> \in Seq(Bytes) /\ <<>> \in Seq(0..1)
      /\ High["cs"] = 1 /\ High["copi"] = 1 /\ High \in [Pins -> 0..1]
  BY SpiAssumption DEF Ones, Zeros, Bytes, High, Pins
<1>2. card \in CardType
  BY <1>1 DEF SpiInit, CardType
<1>3. spi \in SpiHistory
  BY <1>1 DEF SpiInit, SpiHistory
<1>4. SpiTypeOK
  BY <1>1, <1>2, <1>3 DEF SpiInit, SpiTypeOK
<1>5. Levels(pins, card, spi.settled)
  BY <1>1 DEF SpiInit, Levels
<1>6. card.ss = 0
  BY DEF SpiInit
<1> QED
  BY <1>4, <1>5, <1>6 DEF SpiInv

\* The invariant holds on both boards, whatever else they do.
LEMMA SpiInvariant == Spec => []SpiInv
<1>1. Init => SpiInv
  BY SpiInitStep DEF Init
<1>2. SpiInv /\ [Next]_vars => SpiInv'
  <2> SUFFICES ASSUME SpiInv, [Next]_vars PROVE SpiInv'
    OBVIOUS
  <2>1. CASE UNCHANGED spiVars
    BY <2>1 DEF spiVars, SpiInv, SpiTypeOK, Levels, Exchange, Receiving, Begun,
                Replying, Sent, Clocked, High
  <2>2. CASE SpiNext
    <3>1. PICK level \in 0..1, S \in SUBSET Pins, reply \in Replies \cup {NoByte} :
            OutputBits(level, S, reply)
      BY <2>2 DEF SpiNext
    <3> DEFINE p == [q \in Pins |-> IF q \in S THEN level ELSE pins[q]]
    <3>2. p \in [Pins -> 0..1]
      BY DEF SpiInv, SpiTypeOK
    <3>3. reply \in Bytes \cup {NoByte}
      BY SpiAssumption
    <3>4. pins' = p /\ card' = write_outport(card, p, reply) /\ spi' = Observed(p, reply)
      BY <3>1 DEF OutputBits
    <3> HIDE DEF p
    <3> QED
      BY <3>2, <3>3, <3>4, WriteStep
  <2>3. CASE SpiReset
    BY <2>3, SpiResetStep
  <2> QED
    BY <2>1, <2>2, <2>3 DEF Next, machine_reset, vars
<1> QED
  BY <1>1, <1>2, PTL DEF Spec

\* For bytes of any length, any answers and any amount of traffic: the card
\* receives exactly the bytes the host clocked, however the changes of select,
\* clock and data are spread over port writes and wherever machine resets fall
\* (latch_in, shift_out and spi_ss_w of spi_sdcard.cpp, wired as in rosco_m68k.cpp
\* and rosco_6502.cpp).
THEOREM BytesCorrect == Spec => []BytesIntact
<1>1. SpiInv => BytesIntact
  <2> SUFFICES ASSUME SpiInv, card.ss = 1
               PROVE  /\ Len(card.got) = Len(Clocked) \div W
                      /\ \A k \in DOMAIN card.got, j \in 1..W :
                           card.got[k][W - j] = Clocked[W * (k - 1) + j]
    BY DEF BytesIntact
  <2>1. /\ card \in CardType /\ Receiving(card, Clocked)
        /\ Clocked \in Seq(0..1)
    BY DEF SpiInv, SpiTypeOK, Exchange, Clocked, SpiHistory
  <2>2. Len(Clocked) \div W = Len(card.got)
    BY <2>1, WholeIs
  <2>3. DOMAIN card.got = 1..Len(card.got)
    BY <2>1 DEF CardType
  <2> QED
    BY <2>1, <2>2, <2>3 DEF Receiving
<1> QED
  BY <1>1, SpiInvariant, PTL

\* For bytes of any length and any answers: before each rising edge the host reads
\* the bit of the card's answer that belongs to its place in the byte (shift_out,
\* and spi_clock_w after a selection or a machine reset).
THEOREM ReplyCorrect == Spec => []ReplyAligned
<1>1. SpiInv => ReplyAligned
  <2> SUFFICES ASSUME SpiInv, card.ss = 1, pins["sck"] = 0, spi.driven
               PROVE  card.miso = spi.answer[W - 1 - (Len(Clocked) % W)]
    BY DEF ReplyAligned
  <2>0. W \in Nat /\ W > 1
    BY SpiAssumption
  <2>1. /\ card \in CardType /\ Receiving(card, Clocked)
        /\ Replying(card, spi.due, spi.answer)
        /\ Clocked \in Seq(0..1) /\ spi.settled \in BOOLEAN /\ spi.driven = TRUE
    BY DEF SpiInv, SpiTypeOK, Exchange, Clocked, SpiHistory
  <2>2. card.clk = 0
    BY <2>1 DEF SpiInv, Levels
  <2>3. card.miso = card.out_latch[W - 1]
    BY <2>1, <2>2 DEF SpiInv, Exchange
  <2>4. card.cur_bit < W /\ card.cur_bit \in 0..W
    BY <2>1, <2>2 DEF Receiving, CardType
  <2>5. Len(Clocked) % W = card.cur_bit
    BY <2>0, <2>1, <2>4, WholeIs
  <2>6. Sent(card) = card.cur_bit
    BY <2>2, <2>4 DEF Sent
  <2>7. W - 1 \in Places /\ W - 1 >= card.cur_bit
    BY <2>0, <2>4 DEF Places
  <2>8. card.out_latch[W - 1] = spi.answer[W - 1 - card.cur_bit]
    BY <2>1, <2>6, <2>7 DEF Replying
  <2> QED
    BY <2>3, <2>5, <2>8
<1> QED
  BY <1>1, SpiInvariant, PTL
=============================================================================
