---------------------------- MODULE AtaDiskProofs ----------------------------
(***************************************************************************)
(* Proofs about AtaDisk, for every host, sector size, number of sectors,   *)
(* address range and timing.                                               *)
(*                                                                         *)
(* A handler maps the record of a device to a new one, through several     *)
(* others.  For each there is a lemma about its effect: that the result is *)
(* a device, which fields it may differ in (Agree), and what matters of    *)
(* the others.  The lemmas build on one another the way the handlers do,   *)
(* and no proof above them opens a handler again.                          *)
(*                                                                         *)
(*  - Sound(r) is the inductive invariant of a device on its own: types,   *)
(*    BSY and timer, the buffer's offset, and the counts of a transfer.    *)
(*    Effect sums up what a step can do to each device.                    *)
(*  - Cable relates the two devices whatever the host does; Order is the   *)
(*    reset protocol over DASP and PDIAG, Placing the address of a         *)
(*    transfer and Selection the drive select, each for the hosts that     *)
(*    the property is about.                                               *)
(***************************************************************************)
EXTENDS AtaDisk, TLAPS

Fields ==
    {"bsy", "drq", "err", "device1", "command", "param", "left", "irq", "irqout",
     "drv", "count", "lba", "srst", "nien", "single", "resetting", "ident",
     "remaining", "block", "untilint", "offset", "bytewide", "dasp", "pdiag",
     "base", "want", "moved", "signals", "mixed"}

\* q differs from r at most in the fields of S.
Agree(r, q, S) == \A f \in Fields \ S : q[f] = r[f]

\* Two handlers in a row change at most the fields that either changes.
LEMMA AgreeTrans ==
    ASSUME NEW r, NEW q, NEW s, NEW S, NEW T, Agree(r, q, S), Agree(q, s, T)
    PROVE  Agree(r, s, S \cup T)
BY DEF Agree

\* The interrupt line is what irq, select and nIEN make it.
Wired(c, r) == r.irqout = (r.irq /\ Selected(c, r) /\ ~r.nien)

\* The line is never up without the interrupt; reset relies on that much.
Honest(r) == r.irqout => r.irq

Linked(c, r, q) == (Wired(c, r) => Wired(c, q)) /\ (Honest(r) => Honest(q))

Irqs  == {"irq", "irqout"}
Timer == {"bsy", "left", "param"}

-----------------------------------------------------------------------------
(* The building blocks *)

\* update_irq changes only the line, and makes it what it should be.
LEMMA UpdateIrq ==
    ASSUME NEW c, NEW r \in Device
    PROVE  LET q == update_irq(c, r)
           IN  q \in Device /\ Agree(r, q, {"irqout"}) /\ Wired(c, q)
<1> DEFINE o == r.irq /\ r.drv = c /\ ~r.nien
           q == [r EXCEPT !.irqout = o]
<1>1. o \in BOOLEAN
  BY DEF Device
<1>2. q \in Device /\ Agree(r, q, {"irqout"}) /\ q.irqout = o
  <2> HIDE DEF o
  <2> QED
    BY <1>1 DEF Device, Agree, Fields
<1>3. update_irq(c, r) = q
  BY DEF update_irq, Selected
<1> HIDE DEF q
<1>4. Wired(c, q)
  BY <1>2 DEF Linked, Honest, Wired, Selected, Agree, Fields
<1> QED
  BY <1>2, <1>3, <1>4

\* set_irq changes the interrupt and the line, and keeps the two together.
LEMMA SetIrq ==
    ASSUME NEW c, NEW r \in Device, NEW state \in BOOLEAN
    PROVE  LET q == set_irq(c, r, state)
           IN  /\ q \in Device /\ Agree(r, q, Irqs) /\ q.irq = state
               /\ Linked(c, r, q)
<1> DEFINE p == [r EXCEPT !.irq = state]
           q == update_irq(c, p)
<1>1. p \in Device /\ Agree(r, p, {"irq"}) /\ p.irq = state
  BY DEF Device, Agree, Fields
<1> HIDE DEF p
<1>2. q \in Device /\ Agree(p, q, {"irqout"}) /\ Wired(c, q)
  BY <1>1, UpdateIrq
<1>3. set_irq(c, r, state) = IF r.irq = state THEN r ELSE q
  BY DEF set_irq, p
<1> HIDE DEF q
<1>4. Agree(r, q, Irqs) /\ q.irq = state
  BY <1>1, <1>2 DEF Agree, Fields, Irqs
<1>5. Agree(r, r, Irqs)
  BY DEF Agree
<1> QED
  BY <1>2, <1>3, <1>4, <1>5 DEF Linked, Honest, Wired

\* start_busy changes BSY and the timer.
LEMMA StartBusy ==
    ASSUME NEW r \in Device, NEW time \in Nat \cup {Never}, NEW param \in Params
    PROVE  LET q == start_busy(r, time, param)
           IN  /\ q \in Device /\ Agree(r, q, Timer)
               /\ q.bsy = TRUE /\ q.left = time /\ q.param = param
BY DEF start_busy, Device, Agree, Fields, Timer

\* stop_busy changes BSY and the timer.
LEMMA StopBusy ==
    ASSUME NEW r \in Device
    PROVE  LET q == stop_busy(r)
           IN  /\ q \in Device /\ Agree(r, q, Timer)
               /\ q.bsy = FALSE /\ q.left = Never /\ q.param = "reset"
BY DEF stop_busy, Device, Agree, Fields, Timer, Params

\* The times a command takes, and the bound of a count.
LEMMA Times == /\ DiagTime \in Nat /\ DiagTime # Never /\ DiagTime # 0
               /\ CommandTime \in Nat /\ CommandTime # Never
               /\ 1 \in 0..MaxSectors
BY AtaAssumption DEF Never

\* A count fits its register, where MaxSectors reads as 0.
LEMMA CountFits ==
    ASSUME NEW n \in 0..MaxSectors PROVE n % MaxSectors \in 0..(MaxSectors - 1)
BY AtaAssumption

\* A sector address wraps into its registers.
LEMMA AddrFits ==
    ASSUME NEW n \in Nat PROVE n % AddrSpace \in 0..(AddrSpace - 1)
BY AtaAssumption

\* A sector is taken off the number of those remaining.
LEMMA OneLessEffect ==
    ASSUME NEW r \in Device
    PROVE  LET q == OneLess(r)
           IN  /\ q \in Device /\ Agree(r, q, {"remaining", "count"})
               /\ q.remaining = IF r.remaining > 0 THEN r.remaining - 1 ELSE 0
<1>1. CASE r.remaining = 0
  BY <1>1 DEF OneLess, Agree
<1>2. CASE r.remaining # 0
  <2> DEFINE n == r.remaining - 1
             q == [r EXCEPT !.remaining = n, !.count = n % MaxSectors]
  <2>1. n \in 0..MaxSectors /\ r.remaining > 0
    BY <1>2, AtaAssumption DEF Device
  <2>2. OneLess(r) = q
    BY <1>2 DEF OneLess
  <2>3. q \in Device /\ Agree(r, q, {"remaining", "count"}) /\ q.remaining = n
    <3> HIDE DEF n
    <3> QED
      BY <2>1, CountFits DEF Device, Agree, Fields
  <2> HIDE DEF q
  <2> QED
    BY <2>1, <2>2, <2>3
<1> QED
  BY <1>1, <1>2

\* m_sectors_until_int wraps into its width.
LEMMA DecFits == ASSUME NEW n \in 0..(IntWrap - 1) PROVE Dec(n) \in 0..(IntWrap - 1)
BY AtaAssumption DEF Dec

\* The task file goes on to the next sector, except after the last.
LEMMA AdvanceEffect ==
    ASSUME NEW r \in Device, ~r.mixed => r.moved < MaxSectors
    PROVE  LET q == Advance(r)
           IN  /\ q \in Device /\ Agree(r, q, {"lba", "dasp", "untilint", "moved"})
               /\ q.lba = IF r.remaining # 1 THEN (r.lba + 1) % AddrSpace ELSE r.lba
               /\ q.untilint = Dec(r.untilint)
               /\ q.moved = IF r.mixed THEN r.moved ELSE r.moved + 1
<1> DEFINE a == IF r.remaining # 1 THEN (r.lba + 1) % AddrSpace ELSE r.lba
           u == Dec(r.untilint)
           m == IF r.mixed THEN r.moved ELSE r.moved + 1
           q == [r EXCEPT !.lba = a, !.dasp = FALSE, !.untilint = u, !.moved = m]
           n == IF r.remaining # 1 THEN next_sector(r) ELSE r
           s == [n EXCEPT !.dasp = FALSE, !.untilint = Dec(@),
                          !.moved = IF r.mixed THEN @ ELSE @ + 1]
<1>1. a \in 0..(AddrSpace - 1) /\ u \in 0..(IntWrap - 1) /\ m \in 0..MaxSectors
  <2>1. r.lba \in 0..(AddrSpace - 1) /\ r.untilint \in 0..(IntWrap - 1)
        /\ r.moved \in 0..MaxSectors
    BY DEF Device
  <2>2. r.lba + 1 \in Nat
    BY <2>1, AtaAssumption
  <2>3. m \in 0..MaxSectors
    BY <2>1, AtaAssumption
  <2> QED
    BY <2>1, <2>2, <2>3, AddrFits, DecFits
<1>2. q \in Device /\ Agree(r, q, {"lba", "dasp", "untilint", "moved"})
      /\ q.lba = a /\ q.untilint = u /\ q.moved = m
  <2> HIDE DEF a, u, m
  <2> QED
    BY <1>1 DEF Device, Agree, Fields
<1>3. n = [r EXCEPT !.lba = a]
  BY DEF next_sector, Device
<1>4. n.untilint = r.untilint /\ n.moved = r.moved
  BY <1>3 DEF Device
<1>5. s = [n EXCEPT !.dasp = FALSE, !.untilint = u, !.moved = m]
  BY <1>4 DEF Device
<1>6. s = q
  <2> HIDE DEF a, u, m
  <2> QED
    BY <1>3, <1>5 DEF Device
<1>7. Advance(r) = s
  BY DEF Advance
<1> HIDE DEF q, s, n
<1> QED
  BY <1>2, <1>6, <1>7

\* What Signal does.
Signalled(c, r, q, multiple, due) ==
    /\ q \in Device /\ Agree(r, q, {"irq", "irqout", "untilint", "signals"})
    /\ Linked(c, r, q)
    /\ q.irq = (r.irq \/ due)
    /\ q.untilint = IF due THEN IF multiple THEN r.block ELSE 1 ELSE r.untilint
    /\ q.signals = IF due /\ ~r.mixed THEN r.signals + 1 ELSE r.signals

\* The interrupt of a transfer, when it is due.
LEMMA SignalEffect ==
    ASSUME NEW c, NEW r \in Device, NEW multiple \in BOOLEAN, NEW due \in BOOLEAN,
           ~r.mixed => r.signals < MaxSectors
    PROVE  Signalled(c, r, Signal(c, r, multiple, due), multiple, due)
<1> DEFINE u == IF multiple THEN r.block ELSE 1
           g == IF r.mixed THEN r.signals ELSE r.signals + 1
           p == [r EXCEPT !.untilint = u, !.signals = g]
           q == set_irq(c, p, TRUE)
<1>1. u \in 0..(IntWrap - 1) /\ g \in 0..MaxSectors
  BY AtaAssumption DEF Device
<1>2. /\ p \in Device /\ Agree(r, p, {"untilint", "signals"})
      /\ p.untilint = u /\ p.signals = g
  <2> HIDE DEF u, g
  <2> QED
    BY <1>1 DEF Device, Agree, Fields
<1>3. Signal(c, r, multiple, due) = IF due THEN q ELSE r
  BY DEF Signal
<1>4. r.irq \in BOOLEAN /\ r.mixed \in BOOLEAN
  BY DEF Device
<1> HIDE DEF u, g, p
<1>5. /\ q \in Device /\ Agree(p, q, Irqs) /\ q.irq = TRUE
      /\ Linked(c, p, q)
  BY <1>2, SetIrq
<1> HIDE DEF q
<1>6. Linked(c, r, p)
  BY <1>2 DEF Linked, Honest, Wired, Selected, Agree, Fields
<1>7. Agree(r, q, {"irq", "irqout", "untilint", "signals"})
      /\ q.untilint = u /\ q.signals = g
  BY <1>2, <1>5 DEF Agree, Fields, Irqs
<1>8. Agree(r, r, {"irq", "irqout", "untilint", "signals"})
  BY DEF Agree
<1>9. CASE due
  BY <1>3, <1>4, <1>5, <1>6, <1>7, <1>9 DEF u, g, Signalled, Linked
<1>10. CASE ~due
  BY <1>3, <1>4, <1>8, <1>10 DEF Signalled, Linked
<1> QED
  BY <1>9, <1>10

\* The fields a sector that was moved changes, and how: the pointers go on and
\* the interrupt is given when it is due.
Moves == {"irq", "irqout", "lba", "dasp", "untilint", "moved", "signals"}

Stepped(c, r, q, multiple, due) ==
    /\ q \in Device /\ Agree(r, q, Moves)
    /\ Linked(c, r, q)
    /\ q.irq = (r.irq \/ due)
    /\ q.lba = IF r.remaining # 1 THEN (r.lba + 1) % AddrSpace ELSE r.lba
    /\ q.untilint = IF due THEN IF multiple THEN r.block ELSE 1
                           ELSE Dec(r.untilint)
    /\ q.moved = IF r.mixed THEN r.moved ELSE r.moved + 1
    /\ q.signals = IF due /\ ~r.mixed THEN r.signals + 1 ELSE r.signals

\* A sector was moved: the task file goes on and the interrupt is given if due.
LEMMA MoveEffect ==
    ASSUME NEW c, NEW r \in Device, NEW multiple \in BOOLEAN, NEW due \in BOOLEAN,
           ~r.mixed => r.moved < MaxSectors /\ r.signals < MaxSectors
    PROVE  Stepped(c, r, Signal(c, Advance(r), multiple, due), multiple, due)
<1> DEFINE a == Advance(r)
           q == Signal(c, a, multiple, due)
<1>1. /\ a \in Device /\ Agree(r, a, {"lba", "dasp", "untilint", "moved"})
      /\ a.lba = IF r.remaining # 1 THEN (r.lba + 1) % AddrSpace ELSE r.lba
      /\ a.untilint = Dec(r.untilint)
      /\ a.moved = IF r.mixed THEN r.moved ELSE r.moved + 1
  BY AdvanceEffect
<1> HIDE DEF a
<1>2. /\ a.mixed = r.mixed /\ a.signals = r.signals /\ a.irq = r.irq
      /\ a.block = r.block
      /\ Linked(c, r, a)
  BY <1>1 DEF Agree, Fields, Linked, Honest, Wired, Selected
<1>3. Signalled(c, a, q, multiple, due)
  <2>1. a \in Device /\ (~a.mixed => a.signals < MaxSectors)
    BY <1>1, <1>2
  <2>2. Signalled(c, a, Signal(c, a, multiple, due), multiple, due)
    BY <2>1, SignalEffect
  <2> QED
    BY <2>2 DEF q
<1> HIDE DEF q
<1>4. Agree(r, q, Moves) /\ q.lba = a.lba /\ q.moved = a.moved
  <2>1. Agree(a, q, {"irq", "irqout", "untilint", "signals"})
    BY <1>3 DEF Signalled
  <2> QED
    BY <1>1, <2>1 DEF Agree, Fields, Moves
<1>5. Stepped(c, r, q, multiple, due)
  BY <1>1, <1>2, <1>3, <1>4 DEF Signalled, Stepped, Linked
<1> QED
  BY <1>5 DEF q, a

-----------------------------------------------------------------------------
(* Arithmetic *)

\* How quotient and remainder by the block count go on with one more sector.
LEMMA DivStep ==
    ASSUME NEW k \in Nat, NEW b \in Nat \ {0}
    PROVE  IF k % b = b - 1
           THEN (k + 1) % b = 0 /\ (k + 1) \div b = (k \div b) + 1
           ELSE (k + 1) % b = (k % b) + 1 /\ (k + 1) \div b = k \div b
OBVIOUS

\* The remainder by the block count lies below it.
LEMMA DivRange ==
    ASSUME NEW k \in Nat, NEW b \in Nat \ {0}
    PROVE  k % b \in 0..(b - 1) /\ k \div b \in Nat
OBVIOUS

\* Quotient and remainder by the block count at the ends of its range.
LEMMA DivLow ==
    ASSUME NEW b \in Nat \ {0}
    PROVE  (b - 1) % b = b - 1 /\ (b - 1) \div b = 0 /\ 0 % b = 0 /\ 0 \div b = 0
OBVIOUS

\* Wrapping at once and wrapping at every step come to the same address.
LEMMA ModSucc ==
    ASSUME NEW x \in Nat, NEW A \in Nat \ {0}
    PROVE  ((x % A) + 1) % A = (x + 1) % A
<1>1. x % A \in 0..(A - 1)
  OBVIOUS
<1>2. ASSUME NEW m \in 0..(A - 1)
      PROVE  IF m = A - 1 THEN (m + 1) % A = 0 ELSE (m + 1) % A = m + 1
  OBVIOUS
<1>3. IF x % A = A - 1 THEN (x + 1) % A = 0 ELSE (x + 1) % A = (x % A) + 1
  BY DivStep
<1> QED
  BY <1>1, <1>2, <1>3

-----------------------------------------------------------------------------
(* The schedule of the interrupts *)

DataCmds  == ReadCmds \cup WriteCmds
ImageCmds == DataCmds \ {"readbuf", "writebuf"}
BlockCmds == {"readmul", "writemul"}

\* How many sectors until the next interrupt, after k of n in blocks of b.  A
\* block count of 0 lets m_sectors_until_int run below zero, and IntWrap is more
\* than any transfer brings it back to.
Until(cmd, k, n, b) ==
    CASE cmd \in {"read", "write"}  -> 1
      [] cmd = "readmul" /\ b > 0   -> b - ((k + b - 1) % b)
      [] cmd = "writemul" /\ b > 0  -> b - (k % b)
      [] cmd = "readmul" /\ b = 0   -> IF k = 0 THEN 1
                                       ELSE IF k = 1 THEN 0 ELSE IntWrap - (k - 1)
      [] cmd = "writemul" /\ b = 0  -> IF k = 0 THEN 0 ELSE IntWrap - k
      [] OTHER                      -> n - k

Dues(cmd, k, n, u) == Dec(u) = 0 \/ (n - k = 1 /\ cmd # "readmul")

\* The commands that move sectors of the image, as the schedule tells them apart.
LEMMA CmdSets ==
    ASSUME NEW cmd \in ImageCmds
    PROVE  \/ cmd \in {"read", "write"} \/ cmd = "readmul" \/ cmd = "writemul"
           \/ cmd \in {"readdma", "writedma", "verify"}
BY DEF ImageCmds, DataCmds, ReadCmds, WriteCmds

\* One more sector: the count of interrupts and the distance to the next one.
LEMMA ScheduleStep ==
    ASSUME NEW cmd \in ImageCmds, NEW n \in 1..MaxSectors, NEW k \in 0..(n - 1),
           NEW b \in 0..MaxSectors
    PROVE  LET u   == Until(cmd, k, n, b)
               due == Dues(cmd, k, n, u)
           IN  /\ Expected(cmd, k + 1, n, b) =
                    Expected(cmd, k, n, b) + (IF due THEN 1 ELSE 0)
               /\ k + 1 < n =>
                    Until(cmd, k + 1, n, b) =
                      IF due THEN IF cmd \in BlockCmds THEN b ELSE 1 ELSE Dec(u)
<1>0. /\ MaxSectors \in Nat /\ IntWrap \in Nat /\ IntWrap > MaxSectors + 1
      /\ n \in Nat /\ k \in Nat /\ k < n /\ n <= MaxSectors /\ b \in Nat
  BY AtaAssumption
<1>1. CASE cmd \in {"read", "write"}
  BY <1>0, <1>1 DEF Until, Dues, Expected, Dec, BlockCmds
<1>2. CASE cmd \in {"readdma", "writedma", "verify"}
  <2>1. Until(cmd, k, n, b) = n - k /\ Until(cmd, k + 1, n, b) = n - (k + 1)
    BY <1>2 DEF Until
  <2>2. /\ Expected(cmd, k, n, b) = IF k = n THEN 1 ELSE 0
        /\ Expected(cmd, k + 1, n, b) = IF k + 1 = n THEN 1 ELSE 0
    BY <1>2 DEF Expected
  <2> QED
    BY <1>0, <1>2, <2>1, <2>2 DEF Dues, Dec, BlockCmds
<1>3. CASE cmd = "readmul"
  <2>1. CASE b = 0
    BY <1>0, <1>3, <2>1 DEF Until, Dues, Expected, Dec, BlockCmds
  <2>2. CASE b > 0
    <3> DEFINE j == k + b - 1
    <3>1. j \in Nat /\ j + 1 = k + 1 + b - 1 /\ b \in Nat \ {0}
      BY <1>0, <2>2
    <3>2. /\ j % b \in 0..(b - 1) /\ j \div b \in Nat
          /\ IF j % b = b - 1
             THEN (j + 1) % b = 0 /\ (j + 1) \div b = (j \div b) + 1
             ELSE (j + 1) % b = (j % b) + 1 /\ (j + 1) \div b = j \div b
      BY <3>1, DivStep, DivRange
    <3>3. /\ Until(cmd, k, n, b) = b - (j % b)
          /\ Until(cmd, k + 1, n, b) = b - ((j + 1) % b)
          /\ Expected(cmd, k, n, b) = j \div b
          /\ Expected(cmd, k + 1, n, b) = (j + 1) \div b
      BY <1>3, <2>2, <3>1 DEF Until, Expected
    <3> HIDE DEF j
    <3> QED
      BY <1>0, <1>3, <2>2, <3>1, <3>2, <3>3 DEF Dues, Dec, BlockCmds
  <2> QED
    BY <1>0, <2>1, <2>2
<1>4. CASE cmd = "writemul"
  <2>1. CASE b = 0
    BY <1>0, <1>4, <2>1 DEF Until, Dues, Expected, Dec, BlockCmds
  <2>2. CASE b > 0
    <3>1. b \in Nat \ {0}
      BY <1>0, <2>2
    <3>2. /\ k % b \in 0..(b - 1) /\ k \div b \in Nat
          /\ IF k % b = b - 1
             THEN (k + 1) % b = 0 /\ (k + 1) \div b = (k \div b) + 1
             ELSE (k + 1) % b = (k % b) + 1 /\ (k + 1) \div b = k \div b
      BY <1>0, <3>1, DivStep, DivRange
    <3>3. /\ Until(cmd, k, n, b) = b - (k % b)
          /\ Until(cmd, k + 1, n, b) = b - ((k + 1) % b)
          /\ Expected(cmd, k, n, b) = k \div b
          /\ Expected(cmd, k + 1, n, b) =
               ((k + 1) \div b) + IF k + 1 = n /\ (k + 1) % b # 0 THEN 1 ELSE 0
      <4>1. /\ Until(cmd, k, n, b) = b - (k % b)
            /\ Until(cmd, k + 1, n, b) = b - ((k + 1) % b)
        BY <1>4, <2>2, <3>1 DEF Until
      <4>2. /\ Expected(cmd, k, n, b) =
                 (k \div b) + IF k = n /\ k % b # 0 THEN 1 ELSE 0
            /\ Expected(cmd, k + 1, n, b) =
                 ((k + 1) \div b) + IF k + 1 = n /\ (k + 1) % b # 0 THEN 1 ELSE 0
        BY <1>4, <2>2, <3>1 DEF Expected
      <4> QED
        BY <1>0, <3>2, <4>1, <4>2
    <3> QED
      BY <1>0, <1>4, <2>2, <3>1, <3>2, <3>3 DEF Dues, Dec, BlockCmds
  <2> QED
    BY <1>0, <2>1, <2>2
<1> QED
  BY <1>1, <1>2, <1>3, <1>4, CmdSets

-----------------------------------------------------------------------------
(* The invariant of one device *)

Waits(r) == r.bsy /\ r.param = "command"

\* BSY, the timer, SRST and the reset.
TimerOK(r) ==
    /\ r.left # Never => r.bsy
    /\ r.bsy => r.left # Never \/ (r.srst /\ r.param = "reset")
    /\ (r.drq /\ r.bsy) => r.srst /\ r.param = "reset" /\ r.left = Never
    /\ r.resetting => /\ r.bsy /\ r.left # Never /\ ~r.drq
                      /\ r.param \in {"detect", "diagnostic", "pdiag"}
    /\ (r.bsy /\ r.param = "detect") => r.resetting

\* Which commands have a data phase and which wait, and the place in the buffer.
CommandOK(r) ==
    /\ Waits(r) => /\ r.offset = 0
                   /\ r.command \in DataCmds \cup TimedCmds \cup {"disablepw"}
    /\ r.drq => /\ r.command \in (DataCmds \ {"verify"}) \cup {"identify", "disablepw"}
                /\ r.offset < SectorSize
                /\ r.bytewide \/ r.offset % 2 = 0

\* What a transfer has done so far, also when it is over.
Totals(r) ==
    (r.command \in DataCmds /\ ~r.mixed) =>
        /\ r.want >= 1 /\ r.moved <= r.want
        /\ r.command \in ImageCmds =>
             r.signals = Expected(r.command, r.moved, r.want, r.block)

\* What it still has to do; held sectors were moved and are still counted.
Ahead(r, held) ==
    /\ r.remaining >= 1
    /\ ~r.mixed =>
         /\ r.remaining + r.moved = r.want + held
         /\ (r.command \in ImageCmds /\ r.moved < r.want) =>
              r.untilint = Until(r.command, r.moved, r.want, r.block)

HeldIn(r) == IF r.drq /\ r.command \in ReadCmds THEN 1 ELSE 0

Moving(r) ==
    (r.command \in DataCmds /\ (r.drq \/ Waits(r))) => Ahead(r, HeldIn(r))

Sound(r) ==
    /\ r \in Device /\ TimerOK(r) /\ CommandOK(r)
    /\ Totals(r) /\ Moving(r) /\ r.signals <= r.moved

\* The task file points at the sector that is next.
Seen(r) == IF r.moved < r.want THEN r.moved ELSE r.want - 1
Spot(r) == ~r.mixed => r.lba = (r.base + Seen(r)) % AddrSpace
Placed(r) == (r.command \in DataCmds /\ (r.drq \/ Waits(r))) => Spot(r)

\* A device at rest.
Resting(r) ==
    /\ r \in Device /\ ~r.bsy /\ r.left = Never /\ ~r.drq /\ ~r.resetting
    /\ Totals(r) /\ r.signals <= r.moved

\* A device at rest satisfies the invariant, whatever its other fields.
LEMMA RestingSound == ASSUME NEW r, Resting(r) PROVE Sound(r) /\ Placed(r)
BY DEF Resting, Sound, TimerOK, CommandOK, Moving, Waits, Placed

\* A device about to move a sector.
Due(r) ==
    /\ Resting(r) /\ r.offset = 0 /\ r.command \in DataCmds /\ Ahead(r, 0)

\* The fields of a device that count here.
LEMMA DeviceTypes ==
    ASSUME NEW r \in Device
    PROVE  /\ r.left \in Nat \cup {Never}
           /\ r.remaining \in 0..MaxSectors /\ r.block \in 0..MaxSectors
           /\ r.want \in 0..MaxSectors /\ r.moved \in 0..MaxSectors
           /\ r.signals \in 0..MaxSectors /\ r.offset \in 0..SectorSize
           /\ r.untilint \in 0..(IntWrap - 1)
           /\ r.lba \in 0..(AddrSpace - 1) /\ r.base \in 0..(AddrSpace - 1)
           /\ r.command \in AllCmds /\ r.param \in Params
           /\ r.count \in 0..(MaxSectors - 1) /\ r.drv \in {0, 1}
BY DEF Device

\* The Boolean fields of a device.
LEMMA DeviceFlags ==
    ASSUME NEW r \in Device
    PROVE  /\ r.bsy \in BOOLEAN /\ r.drq \in BOOLEAN /\ r.mixed \in BOOLEAN
           /\ r.irq \in BOOLEAN /\ r.irqout \in BOOLEAN /\ r.nien \in BOOLEAN
           /\ r.srst \in BOOLEAN /\ r.resetting \in BOOLEAN
           /\ r.bytewide \in BOOLEAN /\ r.ident \in BOOLEAN
           /\ r.single \in BOOLEAN /\ r.device1 \in BOOLEAN
           /\ r.dasp \in BOOLEAN /\ r.pdiag \in BOOLEAN
BY DEF Device

\* A sector has been moved: the totals are right, one is held, and the task file
\* points at the next.
LEMMA SectorMoved ==
    ASSUME NEW c, NEW r, NEW q, NEW multiple \in BOOLEAN, NEW due \in BOOLEAN,
           Due(r), Stepped(c, r, q, multiple, due),
           multiple <=> r.command \in BlockCmds,
           due <=> (Dec(r.untilint) = 0 \/ (r.remaining = 1 /\ r.command # "readmul"))
    PROVE  /\ Totals(q) /\ Ahead(q, 1) /\ q.signals <= q.moved
           /\ Spot(r) => Spot(q)
<1>1. /\ q.command = r.command /\ q.mixed = r.mixed /\ q.remaining = r.remaining
      /\ q.want = r.want /\ q.block = r.block /\ q.base = r.base
  BY DEF Stepped, Agree, Fields, Moves
<1>2. /\ q.lba = IF r.remaining # 1 THEN (r.lba + 1) % AddrSpace ELSE r.lba
      /\ q.untilint = IF due THEN IF multiple THEN r.block ELSE 1
                             ELSE Dec(r.untilint)
      /\ q.moved = IF r.mixed THEN r.moved ELSE r.moved + 1
      /\ q.signals = IF due /\ ~r.mixed THEN r.signals + 1 ELSE r.signals
  BY DEF Stepped
<1>3. /\ r.remaining \in 0..MaxSectors /\ r.block \in 0..MaxSectors
      /\ r.want \in 0..MaxSectors /\ r.moved \in 0..MaxSectors
      /\ r.signals \in 0..MaxSectors /\ r.untilint \in 0..(IntWrap - 1)
      /\ r.lba \in 0..(AddrSpace - 1) /\ r.base \in 0..(AddrSpace - 1)
  BY DeviceTypes DEF Due, Resting
<1>4. Totals(r) /\ r.signals <= r.moved /\ r.command \in DataCmds /\ Ahead(r, 0)
  BY DEF Due, Resting
<1>5. CASE r.mixed
  BY <1>1, <1>2, <1>3, <1>4, <1>5, AtaAssumption DEF Totals, Ahead, Spot
<1>6. CASE ~r.mixed
  <2> DEFINE n == r.want
             k == r.moved
             b == r.block
             cmd == r.command
  <2>1. /\ n \in 1..MaxSectors /\ k \in 0..(n - 1) /\ b \in 0..MaxSectors
        /\ r.remaining = n - k /\ q.moved = k + 1
    BY <1>2, <1>3, <1>4, <1>6, AtaAssumption DEF Totals, Ahead
  <2>2. q.signals <= q.moved
    BY <1>2, <1>3, <1>4, <1>6
  <2>3. /\ q.remaining >= 1 /\ q.remaining + q.moved = q.want + 1
        /\ q.want >= 1 /\ q.moved <= q.want
    BY <1>1, <2>1, AtaAssumption
  <2>4. ASSUME cmd \in ImageCmds
        PROVE  /\ q.signals = Expected(cmd, k + 1, n, b)
               /\ k + 1 < n => q.untilint = Until(cmd, k + 1, n, b)
    <3>1. r.untilint = Until(cmd, k, n, b) /\ r.signals = Expected(cmd, k, n, b)
      BY <1>4, <1>6, <2>1, <2>4, AtaAssumption DEF Totals, Ahead
    <3>2. due <=> Dues(cmd, k, n, Until(cmd, k, n, b))
      BY <2>1, <3>1 DEF Dues
    <3>3. /\ Expected(cmd, k + 1, n, b) =
               Expected(cmd, k, n, b) + (IF due THEN 1 ELSE 0)
          /\ k + 1 < n =>
               Until(cmd, k + 1, n, b) =
                 IF due THEN IF multiple THEN b ELSE 1
                        ELSE Dec(Until(cmd, k, n, b))
      BY <2>1, <2>4, <3>2, ScheduleStep
    <3> QED
      BY <1>2, <1>3, <1>6, <3>1, <3>3
  <2>5. Totals(q) /\ Ahead(q, 1)
    BY <1>1, <1>6, <2>1, <2>3, <2>4 DEF Totals, Ahead
  <2>6. ASSUME Spot(r) PROVE Spot(q)
    <3>1. r.lba = (r.base + k) % AddrSpace /\ r.base + k \in Nat
      BY <1>3, <1>6, <2>1, <2>6, AtaAssumption DEF Spot, Seen
    <3>2. (((r.base + k) % AddrSpace) + 1) % AddrSpace = (r.base + k + 1) % AddrSpace
      BY <3>1, ModSucc, AtaAssumption
    <3>3. CASE k + 1 < n
      <4>1. q.lba = (r.base + k + 1) % AddrSpace
        BY <1>2, <2>1, <3>1, <3>2, <3>3, AtaAssumption
      <4>2. Seen(q) = k + 1 /\ r.base + k + 1 = r.base + (k + 1)
        BY <1>1, <1>3, <2>1, <3>3, AtaAssumption DEF Seen
      <4> QED
        BY <1>1, <4>1, <4>2 DEF Spot
    <3>4. CASE ~(k + 1 < n)
      <4>1. q.lba = r.lba
        BY <1>2, <2>1, <3>4, AtaAssumption
      <4>2. Seen(q) = k
        BY <1>1, <2>1, <3>4, AtaAssumption DEF Seen
      <4> QED
        BY <1>1, <3>1, <4>1, <4>2 DEF Spot
    <3> QED
      BY <3>3, <3>4
  <2> QED
    BY <2>2, <2>5, <2>6
<1> QED
  BY <1>5, <1>6

-----------------------------------------------------------------------------
(* Sectors *)

\* What no command touches but the diagnostic.
Fixed == {"drv", "nien", "single", "ident", "pdiag", "srst", "resetting", "command"}

Keeps(c, r, q) ==
    /\ \A f \in Fixed : q[f] = r[f]
    /\ q.device1 => r.device1
    /\ Linked(c, r, q)

\* What the timer is left at: as it was, or waiting for the command.
Times2 == {CommandTime, DiagTime}
TimerKept(r, q) ==
    \/ q.bsy = r.bsy /\ q.left = r.left /\ q.param = r.param
    \/ q.bsy /\ q.left \in Times2 /\ q.param = "command"

\* Two handlers in a row that keep what Keeps lists keep it.
LEMMA KeepsTrans ==
    ASSUME NEW c, NEW r, NEW q, NEW s, Keeps(c, r, q), Keeps(c, q, s)
    PROVE  Keeps(c, r, s)
BY DEF Keeps, Linked

\* A handler that leaves the listed fields alone keeps them.
LEMMA AgreeKeeps ==
    ASSUME NEW c, NEW r, NEW q, NEW S,
           Agree(r, q, S), S \cap (Fixed \cup {"device1", "irq", "irqout"}) = {}
    PROVE  Keeps(c, r, q)
<1>1. /\ Fixed \subseteq Fields
      /\ {"device1", "irq", "irqout", "drv", "nien"} \subseteq Fields
      /\ {"drv", "nien"} \subseteq Fixed
  BY DEF Fields, Fixed
<1>2. \A f \in Fixed : q[f] = r[f]
  BY <1>1 DEF Agree
<1>3. /\ q["device1"] = r["device1"] /\ q["irq"] = r["irq"]
      /\ q["irqout"] = r["irqout"]
  BY <1>1 DEF Agree
<1>4. q["drv"] = r["drv"] /\ q["nien"] = r["nien"]
  BY <1>1, <1>2
<1> QED
  BY <1>2, <1>3, <1>4 DEF Keeps, Linked, Honest, Wired, Selected

\* An interrupt keeps what Keeps lists.
LEMMA IrqKeeps ==
    ASSUME NEW c, NEW r \in Device, NEW state \in BOOLEAN
    PROVE  Keeps(c, r, set_irq(c, r, state))
<1> DEFINE q == set_irq(c, r, state)
<1>1. Agree(r, q, Irqs) /\ (Linked(c, r, q))
  BY SetIrq
<1> HIDE DEF q
<1>2. Keeps(c, r, q)
  BY <1>1 DEF Agree, Fields, Fixed, Keeps, Irqs
<1> QED
  BY <1>2 DEF q

\* Releasing DASP changes nothing else.
LEMMA DaspEffect ==
    ASSUME NEW c, NEW r \in Device, NEW v \in BOOLEAN
    PROVE  LET q == [r EXCEPT !.dasp = v]
           IN  q \in Device /\ Agree(r, q, {"dasp"}) /\ Keeps(c, r, q)
<1> DEFINE q == [r EXCEPT !.dasp = v]
<1>1. q \in Device /\ Agree(r, q, {"dasp"})
  BY DEF Device, Agree, Fields
<1>2. {"dasp"} \cap (Fixed \cup {"device1", "irq", "irqout"}) = {}
  BY DEF Fixed
<1> HIDE DEF q
<1>3. Keeps(c, r, q)
  BY <1>1, <1>2, AgreeKeeps
<1> QED
  BY <1>1, <1>3 DEF q

\* start_busy for a command keeps what Keeps lists.
LEMMA StartKeeps ==
    ASSUME NEW c, NEW r \in Device, NEW time \in Nat \cup {Never}, NEW param \in Params
    PROVE  Keeps(c, r, start_busy(r, time, param))
<1>1. Agree(r, start_busy(r, time, param), Timer)
  BY StartBusy
<1>2. Timer \cap (Fixed \cup {"device1", "irq", "irqout"}) = {}
  BY DEF Fixed, Timer
<1> QED
  BY <1>1, <1>2, AgreeKeeps

\* After a sector that is not the last the next one is fetched, in due time.
LEMMA FillLaterEffect ==
    ASSUME NEW c, NEW r, Resting(r), r.offset = 0,
           r.command \in DataCmds \cup {"disablepw"},
           r.command \in DataCmds => Ahead(r, 1)
    PROVE  LET q == FillLater(c, r)
           IN  /\ Sound(q) /\ Keeps(c, r, q) /\ TimerKept(r, q)
               /\ Spot(r) => Placed(q)
               /\ r.remaining > 1 => q.bsy
               /\ q.bsy \/ q.irq = r.irq
<1> DEFINE p == OneLess(r)
           i == set_irq(c, p, FALSE)
           d == [i EXCEPT !.dasp = TRUE]
           b == start_busy(d, CommandTime, "command")
<1>1. /\ p \in Device /\ Agree(r, p, {"remaining", "count"})
      /\ p.remaining = IF r.remaining > 0 THEN r.remaining - 1 ELSE 0
  BY OneLessEffect DEF Resting
<1>2. FillLater(c, r) = IF p.remaining > 0 THEN b ELSE p
  BY DEF FillLater
<1> HIDE DEF p
<1>3. i \in Device /\ Agree(p, i, Irqs) /\ Keeps(c, p, i)
  BY <1>1, SetIrq, IrqKeeps
<1> HIDE DEF i
<1>4. d \in Device /\ Agree(i, d, {"dasp"}) /\ Keeps(c, i, d)
  BY <1>3, DaspEffect
<1> HIDE DEF d
<1>5. /\ b \in Device /\ Agree(d, b, Timer) /\ Keeps(c, d, b)
      /\ b.bsy = TRUE /\ b.left = CommandTime /\ b.param = "command"
  <2>1. CommandTime \in Nat \cup {Never} /\ "command" \in Params
    BY Times DEF Params
  <2> QED
    BY <1>4, <2>1, StartBusy, StartKeeps
<1> HIDE DEF b
<1>6. Keeps(c, r, p)
  <2>1. {"remaining", "count"} \cap (Fixed \cup {"device1", "irq", "irqout"}) = {}
    BY DEF Fixed
  <2> QED
    BY <1>1, <2>1, AgreeKeeps
<1>7. Keeps(c, r, b)
  BY <1>3, <1>4, <1>5, <1>6, KeepsTrans
<1>8. r.remaining \in 0..MaxSectors /\ r.want \in 0..MaxSectors
      /\ r.moved \in 0..MaxSectors
  BY DeviceTypes DEF Resting
<1>9. CASE p.remaining > 0
  <2>1. Agree(r, b, {"remaining", "count", "irq", "irqout", "dasp", "bsy", "left",
                     "param"})
    BY <1>1, <1>3, <1>4, <1>5 DEF Agree, Fields, Irqs, Timer
  <2>2. /\ b.drq = r.drq /\ b.resetting = r.resetting /\ b.offset = r.offset
        /\ b.command = r.command /\ b.mixed = r.mixed /\ b.want = r.want
        /\ b.moved = r.moved /\ b.signals = r.signals /\ b.block = r.block
        /\ b.untilint = r.untilint /\ b.lba = r.lba /\ b.base = r.base
    BY <2>1 DEF Agree, Fields
  <2>3. b.remaining = p.remaining
    BY <1>3, <1>4, <1>5 DEF Agree, Fields, Irqs, Timer
  <2>4. b.remaining = r.remaining - 1 /\ r.remaining > 1
    BY <1>1, <1>8, <1>9, <2>3, AtaAssumption
  <2>5. TimerOK(b) /\ CommandOK(b)
    BY <1>5, <2>2, Times DEF TimerOK, CommandOK, Waits, Resting
  <2>6. Totals(b) /\ b.signals <= b.moved
    BY <2>2 DEF Totals, Resting
  <2>7. Moving(b)
    BY <1>8, <2>2, <2>4, AtaAssumption DEF Moving, HeldIn, Ahead, Resting
  <2>8. Spot(r) => Placed(b)
    BY <2>2 DEF Spot, Seen, Placed
  <2>9. Sound(b) /\ TimerKept(r, b)
    BY <1>5, <2>5, <2>6, <2>7 DEF Sound, TimerKept, Times2
  <2> QED
    BY <1>2, <1>5, <1>7, <1>9, <2>8, <2>9
<1>10. CASE ~(p.remaining > 0)
  <2>1. ~(r.remaining > 1)
    BY <1>1, <1>8, <1>10, AtaAssumption
  <2>2. Resting(p) /\ p.irq = r.irq /\ TimerKept(r, p)
    BY <1>1 DEF Resting, Agree, Fields, TimerKept, Totals
  <2>3. Sound(p) /\ Placed(p)
    BY <2>2, RestingSound
  <2> QED
    BY <1>2, <1>6, <1>10, <2>1, <2>2, <2>3
<1> QED
  BY <1>9, <1>10

\* The fields that decide whether a device rests.
LEMMA RestingAgree ==
    ASSUME NEW r, NEW q \in Device, NEW S, Resting(r), Agree(r, q, S),
           S \cap {"bsy", "left", "drq", "resetting", "command", "mixed", "want",
                   "moved", "signals", "block"} = {}
    PROVE  Resting(q)
<1>1. /\ q["bsy"] = r["bsy"] /\ q["left"] = r["left"] /\ q["drq"] = r["drq"]
      /\ q["resetting"] = r["resetting"] /\ q["command"] = r["command"]
      /\ q["mixed"] = r["mixed"] /\ q["want"] = r["want"]
      /\ q["moved"] = r["moved"] /\ q["signals"] = r["signals"]
      /\ q["block"] = r["block"]
  BY DEF Agree, Fields
<1> QED
  BY <1>1 DEF Resting, Totals

\* A command that ends with an interrupt and nothing else.
LEMMA IrqRests ==
    ASSUME NEW c, NEW r, Resting(r)
    PROVE  LET q == set_irq(c, r, TRUE)
           IN  /\ Resting(q) /\ Sound(q) /\ Placed(q) /\ Keeps(c, r, q)
               /\ TimerKept(r, q) /\ q.irq
<1> DEFINE q == set_irq(c, r, TRUE)
<1>1. q \in Device /\ Agree(r, q, Irqs) /\ q.irq = TRUE /\ Keeps(c, r, q)
  BY SetIrq, IrqKeeps DEF Resting
<1> HIDE DEF q
<1>2. Resting(q)
  BY <1>1, RestingAgree DEF Irqs
<1>3. TimerKept(r, q)
  BY <1>1 DEF TimerKept, Agree, Fields, Irqs
<1>4. Sound(q) /\ Placed(q)
  BY <1>2, RestingSound
<1> QED
  BY <1>1, <1>2, <1>3, <1>4 DEF q

\* A command that fails ends with ERR and an interrupt, at rest.
LEMMA FailedEffect ==
    ASSUME NEW c, NEW r, Resting(r)
    PROVE  LET q == Failed(c, r)
           IN  /\ Sound(q) /\ Placed(q) /\ Keeps(c, r, q)
               /\ TimerKept(r, q) /\ q.irq
<1> DEFINE e == [r EXCEPT !.err = TRUE, !.device1 = FALSE]
           q == set_irq(c, e, TRUE)
<1>1. e \in Device /\ Agree(r, e, {"err", "device1"}) /\ e.device1 = FALSE
  BY DEF Device, Agree, Fields, Resting
<1>2. Failed(c, r) = q
  BY DEF Failed
<1> HIDE DEF e
<1>3. Resting(e)
  BY <1>1, RestingAgree
<1>4. Keeps(c, r, e) /\ TimerKept(r, e)
  BY <1>1 DEF Keeps, Agree, Fields, Fixed, Linked, Honest, Wired, Selected, TimerKept
<1>5. /\ Sound(q) /\ Placed(q) /\ Keeps(c, e, q) /\ TimerKept(e, q) /\ q.irq
  BY <1>3, IrqRests
<1> HIDE DEF q
<1>6. Keeps(c, r, q) /\ TimerKept(r, q)
  BY <1>4, <1>5, KeepsTrans DEF TimerKept
<1> QED
  BY <1>2, <1>5, <1>6

\* finished_read: a sector has been read, or the read has failed.
LEMMA FinishedReadEffect ==
    ASSUME NEW c, NEW r, NEW ok, Due(r), r.command \in ReadCmds
    PROVE  LET q == finished_read(c, r, ok)
           IN  /\ Sound(q) /\ Keeps(c, r, q) /\ TimerKept(r, q)
               /\ Spot(r) => Placed(q)
               /\ q.irq \/ q.drq \/ q.bsy
<1> DEFINE u == Dec(r.untilint)
           due == u = 0 \/ (r.remaining = 1 /\ r.command # "readmul")
           mul == r.command = "readmul"
           b == Signal(c, Advance(r), mul, due)
           f == [r EXCEPT !.dasp = FALSE]
           v == [b EXCEPT !.offset = 0, !.drq = FALSE]
           w == [b EXCEPT !.drq = TRUE]
<1>0. /\ Resting(r) /\ r \in Device /\ r.offset = 0 /\ r.command \in DataCmds
      /\ Ahead(r, 0) /\ r.signals <= r.moved
  BY DEF Due, Resting
<1>1. /\ r.remaining \in 0..MaxSectors /\ r.want \in 0..MaxSectors
      /\ r.moved \in 0..MaxSectors /\ r.signals \in 0..MaxSectors
      /\ r.mixed \in BOOLEAN
  BY <1>0, DeviceTypes, DeviceFlags
<1>2. ~r.mixed => r.moved < MaxSectors /\ r.signals < MaxSectors
  BY <1>0, <1>1, AtaAssumption DEF Ahead
<1>3. Advance(r).untilint = u
  BY <1>0, <1>2, AdvanceEffect
<1>4. finished_read(c, r, ok) =
        IF ~Done(r, ok) THEN Failed(c, f)
        ELSE IF r.command = "verify" THEN FillLater(c, v) ELSE w
  BY <1>3 DEF finished_read
<1>5. mul \in BOOLEAN /\ due \in BOOLEAN
  OBVIOUS
<1>6. Stepped(c, r, b, mul, due)
  <2> HIDE DEF mul, due, b
  <2>1. Stepped(c, r, Signal(c, Advance(r), mul, due), mul, due)
    BY <1>0, <1>2, <1>5, MoveEffect
  <2> QED
    BY <2>1 DEF b
<1>7. mul <=> r.command \in BlockCmds
  BY DEF BlockCmds, ReadCmds
<1> HIDE DEF b, mul
<1>8. Totals(b) /\ Ahead(b, 1) /\ b.signals <= b.moved /\ (Spot(r) => Spot(b))
  <2>1. due <=> (Dec(r.untilint) = 0 \/ (r.remaining = 1 /\ r.command # "readmul"))
    OBVIOUS
  <2> HIDE DEF due
  <2> QED
    BY <1>5, <1>6, <1>7, <2>1, SectorMoved
<1>9. /\ b \in Device /\ Agree(r, b, Moves) /\ (Linked(c, r, b))
      /\ b.irq = (r.irq \/ due)
  <2> HIDE DEF due
  <2> QED
    BY <1>6 DEF Stepped
<1>10. Keeps(c, r, b)
  BY <1>9 DEF Keeps, Agree, Fields, Fixed, Moves
<1>11. /\ b.bsy = r.bsy /\ b.left = r.left /\ b.param = r.param /\ b.drq = r.drq
       /\ b.resetting = r.resetting /\ b.command = r.command /\ b.offset = r.offset
       /\ b.remaining = r.remaining
  BY <1>9 DEF Agree, Fields, Moves
<1>12. Resting(b)
  BY <1>0, <1>8, <1>9, <1>11 DEF Resting
<1>13. CASE ~Done(r, ok)
  <2>1. f \in Device /\ Agree(r, f, {"dasp"}) /\ Keeps(c, r, f)
    BY <1>0, DaspEffect
  <2> HIDE DEF f
  <2>2. Resting(f) /\ TimerKept(r, f)
    <3>1. Resting(f)
      BY <1>0, <2>1, RestingAgree
    <3>2. TimerKept(r, f)
      BY <2>1 DEF TimerKept, Agree, Fields
    <3> QED
      BY <3>1, <3>2
  <2>3. /\ Sound(Failed(c, f)) /\ Placed(Failed(c, f)) /\ Keeps(c, f, Failed(c, f))
        /\ TimerKept(f, Failed(c, f)) /\ Failed(c, f).irq
    BY <2>2, FailedEffect
  <2>4. Keeps(c, r, Failed(c, f)) /\ TimerKept(r, Failed(c, f))
    BY <2>1, <2>2, <2>3, KeepsTrans DEF TimerKept
  <2> QED
    BY <1>4, <1>13, <2>3, <2>4
<1>14. CASE Done(r, ok) /\ r.command = "verify"
  <2>1. v \in Device /\ Agree(b, v, {"offset", "drq"}) /\ v.offset = 0 /\ ~v.drq
    <3>1. b \in Device /\ 0 \in 0..SectorSize
      BY <1>9, AtaAssumption
    <3> QED
      BY <3>1 DEF Device, Agree, Fields
  <2> HIDE DEF v
  <2>2. /\ v.bsy = b.bsy /\ v.left = b.left /\ v.param = b.param
        /\ v.resetting = b.resetting /\ v.command = b.command
        /\ v.remaining = b.remaining /\ v.mixed = b.mixed /\ v.want = b.want
        /\ v.moved = b.moved /\ v.signals = b.signals /\ v.block = b.block
        /\ v.untilint = b.untilint /\ v.lba = b.lba /\ v.base = b.base
        /\ v.irq = b.irq
    BY <2>1 DEF Agree, Fields
  <2>3. Resting(v) /\ Ahead(v, 1) /\ (Spot(b) => Spot(v))
    BY <1>8, <1>12, <2>1, <2>2 DEF Resting, Ahead, Totals, Spot, Seen
  <2>4. Keeps(c, b, v)
    BY <2>1 DEF Keeps, Agree, Fields, Fixed, Linked, Honest, Wired, Selected
  <2>5. v.command \in DataCmds
    BY <1>0, <1>11, <2>2
  <2> DEFINE q == FillLater(c, v)
  <2>6. /\ Sound(q) /\ Keeps(c, v, q) /\ TimerKept(v, q)
        /\ Spot(v) => Placed(q)
        /\ v.remaining > 1 => q.bsy
        /\ q.bsy \/ q.irq = v.irq
    BY <2>1, <2>3, <2>5, FillLaterEffect
  <2> HIDE DEF q
  <2>7. Keeps(c, r, q) /\ TimerKept(r, q)
    BY <1>10, <1>11, <2>2, <2>4, <2>6, KeepsTrans DEF TimerKept
  <2>8. q.irq \/ q.bsy
    <3>1. CASE r.remaining = 1
      <4>1. due = TRUE
        BY <1>14, <3>1
      <4>2. b.irq
        BY <1>9, <4>1
      <4> QED
        BY <2>2, <2>6, <4>2
    <3>2. CASE r.remaining # 1
      <4>1. v.remaining > 1
        BY <1>0, <1>1, <1>11, <2>2, <3>2, AtaAssumption DEF Ahead
      <4> QED
        BY <2>6, <4>1
    <3> QED
      BY <3>1, <3>2
  <2> QED
    BY <1>4, <1>8, <1>14, <2>3, <2>6, <2>7, <2>8 DEF q
<1>15. CASE Done(r, ok) /\ r.command # "verify"
  <2>1. w \in Device /\ Agree(b, w, {"drq"}) /\ w.drq = TRUE
    BY <1>9 DEF Device, Agree, Fields
  <2> HIDE DEF w
  <2>2. /\ w.bsy = b.bsy /\ w.left = b.left /\ w.param = b.param
        /\ w.resetting = b.resetting /\ w.command = b.command
        /\ w.remaining = b.remaining /\ w.mixed = b.mixed /\ w.want = b.want
        /\ w.moved = b.moved /\ w.signals = b.signals /\ w.block = b.block
        /\ w.untilint = b.untilint /\ w.lba = b.lba /\ w.base = b.base
        /\ w.offset = b.offset
    BY <2>1 DEF Agree, Fields
  <2>3. TimerOK(w) /\ Totals(w) /\ Moving(w) /\ w.signals <= w.moved
    BY <1>8, <1>11, <1>12, <2>1, <2>2
       DEF Resting, TimerOK, Totals, Moving, HeldIn, Ahead
  <2>4. CommandOK(w)
    BY <1>0, <1>11, <1>12, <1>15, <2>1, <2>2, AtaAssumption
       DEF CommandOK, Waits, Resting
  <2>5. Spot(b) => Placed(w)
    BY <2>2 DEF Spot, Seen, Placed
  <2>6. Keeps(c, b, w)
    BY <2>1 DEF Keeps, Agree, Fields, Fixed, Linked, Honest, Wired, Selected
  <2>7. Keeps(c, r, w) /\ TimerKept(r, w)
    BY <1>10, <1>11, <2>2, <2>6, KeepsTrans DEF TimerKept
  <2> QED
    BY <1>4, <1>8, <1>15, <2>1, <2>3, <2>4, <2>5, <2>7 DEF Sound
<1> QED
  BY <1>13, <1>14, <1>15

\* finished_write: a sector has been written, or the write has failed.
LEMMA FinishedWriteEffect ==
    ASSUME NEW c, NEW r, NEW ok, Due(r), r.command \in WriteCmds
    PROVE  LET q == finished_write(c, r, ok)
           IN  /\ Sound(q) /\ Keeps(c, r, q) /\ TimerKept(r, q)
               /\ Spot(r) => Placed(q)
               /\ q.irq \/ q.drq
<1> DEFINE u == Dec(r.untilint)
           due == u = 0 \/ r.remaining = 1
           mul == r.command = "writemul"
           b == Signal(c, Advance(r), mul, due)
           f == [r EXCEPT !.dasp = FALSE]
           o == OneLess(b)
           g == o.drq \/ o.remaining > 0
           w == [o EXCEPT !.drq = g]
<1>0. /\ Resting(r) /\ r \in Device /\ r.offset = 0 /\ r.command \in DataCmds
      /\ Ahead(r, 0) /\ r.signals <= r.moved
  BY DEF Due, Resting
<1>1. /\ r.remaining \in 0..MaxSectors /\ r.want \in 0..MaxSectors
      /\ r.moved \in 0..MaxSectors /\ r.signals \in 0..MaxSectors
      /\ r.mixed \in BOOLEAN
  BY <1>0, DeviceTypes, DeviceFlags
<1>2. ~r.mixed => r.moved < MaxSectors /\ r.signals < MaxSectors
  BY <1>0, <1>1, AtaAssumption DEF Ahead
<1>3. Advance(r).untilint = u
  BY <1>0, <1>2, AdvanceEffect
<1>4. finished_write(c, r, ok) = IF ~Done(r, ok) THEN Failed(c, f) ELSE w
  BY <1>3 DEF finished_write
<1>5. mul \in BOOLEAN /\ due \in BOOLEAN
  OBVIOUS
<1>6. Stepped(c, r, b, mul, due)
  <2> HIDE DEF mul, due, b
  <2>1. Stepped(c, r, Signal(c, Advance(r), mul, due), mul, due)
    BY <1>0, <1>2, <1>5, MoveEffect
  <2> QED
    BY <2>1 DEF b
<1>7. (mul <=> r.command \in BlockCmds) /\ r.command # "readmul"
  BY DEF BlockCmds, WriteCmds
<1> HIDE DEF b, mul
<1>8. Totals(b) /\ Ahead(b, 1) /\ b.signals <= b.moved /\ (Spot(r) => Spot(b))
  <2>1. due <=> (Dec(r.untilint) = 0 \/ (r.remaining = 1 /\ r.command # "readmul"))
    BY <1>7
  <2> HIDE DEF due
  <2> QED
    BY <1>5, <1>6, <1>7, <2>1, SectorMoved
<1>9. /\ b \in Device /\ Agree(r, b, Moves) /\ (Linked(c, r, b))
      /\ b.irq = (r.irq \/ due)
  <2> HIDE DEF due
  <2> QED
    BY <1>6 DEF Stepped
<1>10. Keeps(c, r, b)
  BY <1>9 DEF Keeps, Agree, Fields, Fixed, Moves
<1>11. /\ b.bsy = r.bsy /\ b.left = r.left /\ b.param = r.param /\ b.drq = r.drq
       /\ b.resetting = r.resetting /\ b.command = r.command /\ b.offset = r.offset
       /\ b.remaining = r.remaining
  BY <1>9 DEF Agree, Fields, Moves
<1>12. Resting(b)
  BY <1>0, <1>8, <1>9, <1>11 DEF Resting
<1>13. CASE ~Done(r, ok)
  <2>1. f \in Device /\ Agree(r, f, {"dasp"}) /\ Keeps(c, r, f)
    BY <1>0, DaspEffect
  <2> HIDE DEF f
  <2>2. Resting(f) /\ TimerKept(r, f)
    <3>1. Resting(f)
      BY <1>0, <2>1, RestingAgree
    <3>2. TimerKept(r, f)
      BY <2>1 DEF TimerKept, Agree, Fields
    <3> QED
      BY <3>1, <3>2
  <2>3. /\ Sound(Failed(c, f)) /\ Placed(Failed(c, f)) /\ Keeps(c, f, Failed(c, f))
        /\ TimerKept(f, Failed(c, f)) /\ Failed(c, f).irq
    BY <2>2, FailedEffect
  <2>4. Keeps(c, r, Failed(c, f)) /\ TimerKept(r, Failed(c, f))
    BY <2>1, <2>2, <2>3, KeepsTrans DEF TimerKept
  <2> QED
    BY <1>4, <1>13, <2>3, <2>4
<1>14. CASE Done(r, ok)
  <2>1. /\ o \in Device /\ Agree(b, o, {"remaining", "count"})
        /\ o.remaining = IF b.remaining > 0 THEN b.remaining - 1 ELSE 0
    BY <1>9, OneLessEffect
  <2> HIDE DEF o
  <2>2. w \in Device /\ Agree(o, w, {"drq"}) /\ w.drq = g
    <3>1. g \in BOOLEAN
      OBVIOUS
    <3> HIDE DEF g
    <3> QED
      BY <2>1, <3>1 DEF Device, Agree, Fields
  <2> HIDE DEF w
  <2>3. Agree(b, w, {"remaining", "count", "drq"}) /\ w.remaining = o.remaining
        /\ o.drq = b.drq
    BY <2>1, <2>2 DEF Agree, Fields
  <2>4. /\ w.bsy = b.bsy /\ w.left = b.left /\ w.param = b.param
        /\ w.resetting = b.resetting /\ w.command = b.command
        /\ w.mixed = b.mixed /\ w.want = b.want
        /\ w.moved = b.moved /\ w.signals = b.signals /\ w.block = b.block
        /\ w.untilint = b.untilint /\ w.lba = b.lba /\ w.base = b.base
        /\ w.offset = b.offset /\ w.irq = b.irq
    BY <2>3 DEF Agree, Fields
  <2>5. /\ w.remaining = r.remaining - 1 /\ r.remaining >= 1
        /\ w.drq = (w.remaining > 0)
    <3>1. ~r.drq /\ r.remaining >= 1
      BY <1>0 DEF Resting, Ahead
    <3>2. o.remaining = r.remaining - 1
      BY <1>1, <1>11, <2>1, <3>1, AtaAssumption
    <3>3. ~o.drq
      BY <1>11, <2>3, <3>1
    <3> QED
      BY <2>2, <2>3, <3>1, <3>2, <3>3
  <2>6. TimerOK(w) /\ Totals(w) /\ w.signals <= w.moved
    BY <1>8, <1>12, <2>4 DEF Resting, TimerOK, Totals
  <2>7. CommandOK(w)
    BY <1>0, <1>11, <1>12, <2>4, AtaAssumption
       DEF CommandOK, Waits, Resting, WriteCmds
  <2>8. Moving(w)
    <3> SUFFICES ASSUME w.drq \/ Waits(w) PROVE Ahead(w, HeldIn(w))
      BY DEF Moving
    <3>1. w.remaining > 0
      BY <1>12, <2>4, <2>5 DEF Waits, Resting
    <3>2. w.command \notin ReadCmds
      BY <1>11, <2>4 DEF WriteCmds, ReadCmds
    <3>3. /\ b.moved \in 0..MaxSectors /\ b.want \in 0..MaxSectors
          /\ b.remaining \in 0..MaxSectors
      BY <1>9, DeviceTypes
    <3>4. Ahead(w, 0)
      BY <1>1, <1>8, <1>11, <2>4, <2>5, <3>1, <3>3, AtaAssumption DEF Ahead
    <3> QED
      BY <3>2, <3>4 DEF HeldIn
  <2>9. Spot(b) => Placed(w)
    BY <2>4 DEF Spot, Seen, Placed
  <2>10. Keeps(c, b, w)
    BY <2>3 DEF Keeps, Agree, Fields, Fixed, Linked, Honest, Wired, Selected
  <2>11. Keeps(c, r, w) /\ TimerKept(r, w)
    BY <1>10, <1>11, <2>4, <2>10, KeepsTrans DEF TimerKept
  <2>12. w.irq \/ w.drq
    <3>1. CASE r.remaining = 1
      <4>1. due = TRUE
        BY <3>1
      <4> QED
        BY <1>9, <2>4, <4>1
    <3>2. CASE r.remaining # 1
      <4>1. w.remaining > 0
        BY <1>1, <2>5, <3>2, AtaAssumption
      <4> QED
        BY <2>5, <4>1
    <3> QED
      BY <3>1, <3>2
  <2> QED
    BY <1>4, <1>8, <1>14, <2>2, <2>6, <2>7, <2>8, <2>9, <2>11, <2>12 DEF Sound
<1> QED
  BY <1>13, <1>14

\* The buffer has been read out.
LEMMA FillBufferEffect ==
    ASSUME NEW c, NEW r, NEW ok, Resting(r), r.offset = 0,
           r.command \in DataCmds \cup {"identify", "disablepw"},
           r.command \in DataCmds => Ahead(r, 1)
    PROVE  LET q == fill_buffer(c, r, ok)
           IN  /\ Sound(q) /\ Keeps(c, r, q) /\ TimerKept(r, q)
               /\ Spot(r) => Placed(q)
<1> DEFINE o == OneLess(r)
<1>0. r \in Device /\ Sound(r) /\ Placed(r) /\ Keeps(c, r, r) /\ TimerKept(r, r)
  BY RestingSound DEF Resting, Keeps, TimerKept, Linked
<1>1. CASE r.command = "identify"
  <2>1. fill_buffer(c, r, ok) = r
    BY <1>1 DEF fill_buffer
  <2> QED
    BY <1>0, <2>1
<1>2. CASE r.command = "readbuf"
  <2>1. fill_buffer(c, r, ok) = set_irq(c, r, TRUE)
    BY <1>2 DEF fill_buffer
  <2> QED
    BY <2>1, IrqRests
<1>3. CASE r.command = "readmul"
  <2>1. fill_buffer(c, r, ok) =
          IF o.remaining > 0 THEN finished_read(c, o, ok) ELSE o
    BY <1>3 DEF fill_buffer
  <2>2. /\ o \in Device /\ Agree(r, o, {"remaining", "count"})
        /\ o.remaining = IF r.remaining > 0 THEN r.remaining - 1 ELSE 0
    BY <1>0, OneLessEffect
  <2> HIDE DEF o
  <2>3. Resting(o)
    BY <2>2, RestingAgree
  <2>4. Keeps(c, r, o) /\ TimerKept(r, o)
    BY <2>2 DEF Keeps, TimerKept, Agree, Fields, Fixed, Linked, Honest, Wired, Selected
  <2>5. CASE o.remaining > 0
    <3>1. /\ r.remaining \in 0..MaxSectors /\ r.want \in 0..MaxSectors
          /\ r.moved \in 0..MaxSectors
      BY <1>0, DeviceTypes
    <3>2. /\ o.offset = r.offset /\ o.command = r.command /\ o.mixed = r.mixed
          /\ o.want = r.want /\ o.moved = r.moved /\ o.block = r.block
          /\ o.untilint = r.untilint /\ o.lba = r.lba /\ o.base = r.base
      BY <2>2 DEF Agree, Fields
    <3>3. r.command \in DataCmds /\ r.command \in ReadCmds /\ Ahead(r, 1)
      BY <1>3 DEF DataCmds, ReadCmds
    <3>4. Ahead(o, 0) /\ (Spot(r) => Spot(o))
      BY <2>2, <2>5, <3>1, <3>2, <3>3, AtaAssumption DEF Ahead, Spot, Seen
    <3>5. Due(o) /\ o.command \in ReadCmds
      BY <2>3, <3>2, <3>3, <3>4 DEF Due
    <3> DEFINE q == finished_read(c, o, ok)
    <3>6. /\ Sound(q) /\ Keeps(c, o, q) /\ TimerKept(o, q)
          /\ Spot(o) => Placed(q)
      BY <3>5, FinishedReadEffect
    <3> HIDE DEF q
    <3>7. Keeps(c, r, q) /\ TimerKept(r, q)
      BY <2>4, <3>6, KeepsTrans DEF TimerKept
    <3> QED
      BY <2>1, <2>5, <3>4, <3>6, <3>7 DEF q
  <2>6. CASE ~(o.remaining > 0)
    BY <2>1, <2>3, <2>4, <2>6, RestingSound
  <2> QED
    BY <2>5, <2>6
<1>4. CASE r.command \notin {"identify", "readbuf", "readmul"}
  <2>1. fill_buffer(c, r, ok) = FillLater(c, r)
    BY <1>4 DEF fill_buffer
  <2>2. r.command \in DataCmds \cup {"disablepw"}
    BY <1>4
  <2> QED
    BY <2>1, <2>2, FillLaterEffect
<1> QED
  BY <1>1, <1>2, <1>3, <1>4

\* The buffer has been filled.
LEMMA ProcessBufferEffect ==
    ASSUME NEW c, NEW r, NEW ok, Resting(r), r.offset = 0,
           r.command \in DataCmds \cup {"identify", "disablepw"},
           r.command \in DataCmds => Ahead(r, 0)
    PROVE  LET q == process_buffer(c, r, ok)
           IN  /\ Sound(q) /\ Keeps(c, r, q) /\ TimerKept(r, q)
               /\ Spot(r) => Placed(q)
<1> DEFINE d == [r EXCEPT !.dasp = TRUE]
           b == start_busy(d, CommandTime, "command")
<1>0. r \in Device /\ Sound(r) /\ Placed(r) /\ Keeps(c, r, r) /\ TimerKept(r, r)
  BY RestingSound DEF Resting, Keeps, TimerKept, Linked
<1>1. CASE r.command = "disablepw"
  <2>1. process_buffer(c, r, ok) = r
    BY <1>1 DEF process_buffer
  <2> QED
    BY <1>0, <2>1
<1>2. CASE r.command = "writebuf"
  <2>1. process_buffer(c, r, ok) = set_irq(c, r, TRUE)
    BY <1>2 DEF process_buffer
  <2> QED
    BY <2>1, IrqRests
<1>3. d \in Device /\ Agree(r, d, {"dasp"}) /\ Keeps(c, r, d)
  BY <1>0, DaspEffect
<1>4. CASE r.command = "writemul" /\ r.untilint # 1
  <2>1. process_buffer(c, r, ok) = finished_write(c, d, ok)
    BY <1>4 DEF process_buffer
  <2> HIDE DEF d
  <2>2. Resting(d)
    BY <1>3, RestingAgree
  <2>3. /\ d.offset = r.offset /\ d.command = r.command /\ d.mixed = r.mixed
        /\ d.want = r.want /\ d.moved = r.moved /\ d.block = r.block
        /\ d.untilint = r.untilint /\ d.lba = r.lba /\ d.base = r.base
        /\ d.remaining = r.remaining
        /\ d.bsy = r.bsy /\ d.left = r.left /\ d.param = r.param
    BY <1>3 DEF Agree, Fields
  <2>4. r.command \in DataCmds /\ r.command \in WriteCmds /\ Ahead(r, 0)
    BY <1>4 DEF DataCmds, WriteCmds
  <2>5. Due(d) /\ d.command \in WriteCmds /\ (Spot(r) => Spot(d))
    BY <2>2, <2>3, <2>4 DEF Due, Ahead, Spot, Seen
  <2> DEFINE q == finished_write(c, d, ok)
  <2>6. /\ Sound(q) /\ Keeps(c, d, q) /\ TimerKept(d, q)
        /\ Spot(d) => Placed(q)
    BY <2>5, FinishedWriteEffect
  <2> HIDE DEF q
  <2>7. Keeps(c, r, q) /\ TimerKept(r, q)
    BY <1>3, <2>3, <2>6, KeepsTrans DEF TimerKept
  <2> QED
    BY <2>1, <2>5, <2>6, <2>7 DEF q
<1>5. CASE /\ r.command \notin {"disablepw", "writebuf"}
           /\ ~(r.command = "writemul" /\ r.untilint # 1)
  <2>1. process_buffer(c, r, ok) = b
    BY <1>5 DEF process_buffer
  <2> HIDE DEF d
  <2>2. /\ b \in Device /\ Agree(d, b, Timer) /\ Keeps(c, d, b)
        /\ b.bsy = TRUE /\ b.left = CommandTime /\ b.param = "command"
    <3>1. CommandTime \in Nat \cup {Never} /\ "command" \in Params
      BY Times DEF Params
    <3> QED
      BY <1>3, <3>1, StartBusy, StartKeeps
  <2> HIDE DEF b
  <2>3. Agree(r, b, {"dasp", "bsy", "left", "param"}) /\ Keeps(c, r, b)
    <3>1. Agree(r, b, {"dasp", "bsy", "left", "param"})
      BY <1>3, <2>2 DEF Agree, Fields, Timer
    <3> QED
      BY <1>3, <2>2, <3>1, KeepsTrans
  <2>4. /\ b.drq = r.drq /\ b.resetting = r.resetting /\ b.offset = r.offset
        /\ b.command = r.command /\ b.mixed = r.mixed /\ b.want = r.want
        /\ b.moved = r.moved /\ b.signals = r.signals /\ b.block = r.block
        /\ b.untilint = r.untilint /\ b.lba = r.lba /\ b.base = r.base
        /\ b.remaining = r.remaining
    BY <2>3 DEF Agree, Fields
  <2>5. TimerOK(b)
    BY <2>2, <2>4, Times DEF TimerOK, Resting
  <2>6. CommandOK(b)
    BY <1>5, <2>2, <2>4 DEF CommandOK, Resting, TimedCmds
  <2>7. Totals(b) /\ b.signals <= b.moved
    BY <2>4 DEF Totals, Resting
  <2>8. Moving(b)
    BY <2>4 DEF Moving, HeldIn, Ahead, Resting
  <2>9. (Spot(r) => Placed(b)) /\ TimerKept(r, b)
    BY <2>2, <2>4 DEF Spot, Seen, Placed, TimerKept, Times2
  <2> QED
    BY <2>1, <2>2, <2>3, <2>5, <2>6, <2>7, <2>8, <2>9 DEF Sound
<1> QED
  BY <1>1, <1>2, <1>3, <1>4, <1>5

\* A whole number of words fits the buffer.
LEMMA WordFits ==
    ASSUME NEW x \in Nat, NEW S \in Nat, x % 2 = 0, S % 2 = 0, x < S
    PROVE  x + 2 <= S /\ (x + 2) % 2 = 0
OBVIOUS

\* An access, of one byte or two, leaves the offset inside the buffer.
LEMMA StepFits ==
    ASSUME NEW r, Sound(r), r.drq
    PROVE  /\ r.offset + Step(r) \in 0..SectorSize
           /\ r.bytewide \/ (r.offset + Step(r)) % 2 = 0
<1>1. /\ r.offset \in 0..SectorSize /\ r.offset < SectorSize
      /\ r.bytewide \/ r.offset % 2 = 0
  BY DeviceTypes DEF Sound, CommandOK
<1>2. CASE r.bytewide
  BY <1>1, <1>2, AtaAssumption DEF Step
<1>3. CASE ~r.bytewide
  <2>1. r.offset + 2 <= SectorSize /\ (r.offset + 2) % 2 = 0
    BY <1>1, <1>3, AtaAssumption, WordFits
  <2> QED
    BY <1>1, <1>3, <2>1, AtaAssumption DEF Step
<1> QED
  BY <1>2, <1>3

\* One access to the data register, m telling whether it goes the wrong way.
LEMMA AccessEffect ==
    ASSUME NEW c, NEW r, NEW m \in BOOLEAN, Sound(r), ~r.bsy, r.drq
    PROVE  LET x == [Moved(r) EXCEPT !.mixed = @ \/ m]
               e == Emptied(x)
           IN  /\ x.offset < SectorSize =>
                    /\ Sound(x) /\ Keeps(c, r, x) /\ TimerKept(r, x)
                    /\ Placed(r) => Placed(x)
               /\ Resting(e) /\ e.offset = 0 /\ Keeps(c, r, e) /\ TimerKept(r, e)
               /\ e.command \in DataCmds \cup {"identify", "disablepw"}
               /\ (e.command \in DataCmds /\ ~m) =>
                    Ahead(e, IF e.command \in ReadCmds THEN 1 ELSE 0)
               /\ (e.command \in DataCmds /\ m) => Ahead(e, 0) /\ Ahead(e, 1)
               /\ (e.command \in DataCmds /\ Placed(r)) => Spot(e)
<1> DEFINE v == r.offset + Step(r)
           g == r.mixed \/ m
           y == [r EXCEPT !.offset = v, !.mixed = g]
           x == [Moved(r) EXCEPT !.mixed = @ \/ m]
           e == Emptied(x)
<1>0. /\ r \in Device /\ r.left = Never /\ ~r.resetting
      /\ r.command \in (DataCmds \ {"verify"}) \cup {"identify", "disablepw"}
      /\ r.mixed \in BOOLEAN /\ r.drq \in BOOLEAN
  BY DeviceFlags DEF Sound, TimerOK, CommandOK
<1>1. v \in 0..SectorSize /\ (r.bytewide \/ v % 2 = 0)
  BY StepFits
<1>2. g \in BOOLEAN
  OBVIOUS
<1>3. y \in Device /\ Agree(r, y, {"offset", "mixed"}) /\ y.offset = v /\ y.mixed = g
  <2> HIDE DEF v, g
  <2> QED
    BY <1>0, <1>1, <1>2 DEF Device, Agree, Fields
<1>4. x = y
  <2>1. Moved(r) = [r EXCEPT !.offset = v]
    BY DEF Moved
  <2>2. Moved(r).mixed = r.mixed
    BY <1>0, <2>1 DEF Device
  <2>3. x = [Moved(r) EXCEPT !.mixed = g]
    BY <2>2
  <2> HIDE DEF v, g
  <2> QED
    BY <2>1, <2>3 DEF Moved
<1>5. e \in Device /\ Agree(x, e, {"offset", "drq"}) /\ e.offset = 0 /\ e.drq = FALSE
  <2>1. x \in Device /\ 0 \in 0..SectorSize
    BY <1>3, <1>4, AtaAssumption
  <2> HIDE DEF x
  <2> QED
    BY <2>1 DEF Emptied, Device, Agree, Fields
<1> HIDE DEF v, g, x, y, e
<1>6. Agree(r, x, {"offset", "mixed"}) /\ x.offset = v /\ x.mixed = g /\ x \in Device
  BY <1>3, <1>4
<1>7. Agree(r, e, {"offset", "mixed", "drq"}) /\ e.mixed = g
  BY <1>5, <1>6 DEF Agree, Fields
<1>8. /\ e.bsy = r.bsy /\ e.left = r.left /\ e.param = r.param
      /\ e.resetting = r.resetting /\ e.command = r.command
      /\ e.remaining = r.remaining /\ e.want = r.want
      /\ e.moved = r.moved /\ e.signals = r.signals /\ e.block = r.block
      /\ e.untilint = r.untilint /\ e.lba = r.lba /\ e.base = r.base
  BY <1>7 DEF Agree, Fields
<1>9. /\ x.bsy = r.bsy /\ x.left = r.left /\ x.param = r.param /\ x.drq = r.drq
      /\ x.resetting = r.resetting /\ x.command = r.command
      /\ x.remaining = r.remaining /\ x.want = r.want
      /\ x.moved = r.moved /\ x.signals = r.signals /\ x.block = r.block
      /\ x.untilint = r.untilint /\ x.lba = r.lba /\ x.base = r.base
      /\ x.bytewide = r.bytewide /\ x.srst = r.srst
  BY <1>6 DEF Agree, Fields
<1>10. /\ Totals(r) /\ r.signals <= r.moved
       /\ r.command \in DataCmds => Ahead(r, HeldIn(r))
  BY DEF Sound, Moving
<1>11. Keeps(c, r, x) /\ Keeps(c, r, e)
  <2>1. /\ {"offset", "mixed"} \cap (Fixed \cup {"device1", "irq", "irqout"}) = {}
        /\ {"offset", "mixed", "drq"} \cap (Fixed \cup {"device1", "irq", "irqout"}) = {}
    BY DEF Fixed
  <2> QED
    BY <1>6, <1>7, <2>1, AgreeKeeps
<1>12. TimerKept(r, x) /\ TimerKept(r, e)
  BY <1>8, <1>9 DEF TimerKept
<1>13. ASSUME x.offset < SectorSize PROVE Sound(x) /\ (Placed(r) => Placed(x))
  <2>1. TimerOK(x)
    BY <1>9 DEF Sound, TimerOK
  <2>2. CommandOK(x)
    BY <1>0, <1>1, <1>6, <1>9, <1>13 DEF CommandOK, Waits
  <2>3. Totals(x) /\ x.signals <= x.moved
    BY <1>2, <1>6, <1>9, <1>10 DEF Totals, g
  <2>4. Moving(x)
    BY <1>6, <1>9, <1>10 DEF Moving, Ahead, HeldIn, g
  <2>5. Placed(r) => Placed(x)
    BY <1>6, <1>9 DEF Placed, Spot, Seen, g, Waits
  <2> QED
    BY <1>6, <2>1, <2>2, <2>3, <2>4, <2>5 DEF Sound
<1>14. Resting(e)
  BY <1>0, <1>5, <1>7, <1>8, <1>10 DEF Resting, Totals, g
<1>15. e.command \in DataCmds =>
         /\ ~m => Ahead(e, IF e.command \in ReadCmds THEN 1 ELSE 0)
         /\ m => Ahead(e, 0) /\ Ahead(e, 1)
  BY <1>7, <1>8, <1>10 DEF Ahead, HeldIn, g
<1>16. (e.command \in DataCmds /\ Placed(r)) => Spot(e)
  BY <1>7, <1>8 DEF Placed, Spot, Seen, g
<1> QED
  BY <1>0, <1>5, <1>8, <1>11, <1>12, <1>13, <1>14, <1>15, <1>16 DEF e, x

\* The accesses to the data register keep the invariant.
LEMMA DataEffect ==
    ASSUME NEW c, NEW r, NEW ok, Sound(r), ~r.bsy, r.drq
    PROVE  \A q \in {read_data(c, r, ok), write_data(c, r, ok)} :
               /\ Sound(q) /\ Keeps(c, r, q) /\ TimerKept(r, q)
               /\ Placed(r) => Placed(q)
<1> SUFFICES ASSUME NEW q \in {read_data(c, r, ok), write_data(c, r, ok)}
             PROVE  /\ Sound(q) /\ Keeps(c, r, q) /\ TimerKept(r, q)
                    /\ Placed(r) => Placed(q)
  OBVIOUS
<1>1. CASE q = read_data(c, r, ok)
  <2> DEFINE m == r.command \in WriteCmds
             x == [Moved(r) EXCEPT !.mixed = @ \/ m]
             e == Emptied(x)
             f == fill_buffer(c, e, ok)
  <2>1. q = IF x.offset >= SectorSize THEN f ELSE x
    BY <1>1 DEF read_data
  <2>2. m \in BOOLEAN
    OBVIOUS
  <2>3. /\ x.offset < SectorSize =>
             /\ Sound(x) /\ Keeps(c, r, x) /\ TimerKept(r, x)
             /\ Placed(r) => Placed(x)
        /\ Resting(e) /\ e.offset = 0 /\ Keeps(c, r, e) /\ TimerKept(r, e)
        /\ e.command \in DataCmds \cup {"identify", "disablepw"}
        /\ (e.command \in DataCmds /\ ~m) =>
             Ahead(e, IF e.command \in ReadCmds THEN 1 ELSE 0)
        /\ (e.command \in DataCmds /\ m) => Ahead(e, 0) /\ Ahead(e, 1)
        /\ (e.command \in DataCmds /\ Placed(r)) => Spot(e)
    <3> HIDE DEF m
    <3> QED
      BY <2>2, AccessEffect
  <2>4. e.command = r.command
    BY <2>3 DEF Keeps, Fixed
  <2>5. x.offset \in Int
    <3>1. x.offset = r.offset + Step(r)
      BY DEF Moved, Device, Sound
    <3> QED
      BY <3>1, StepFits, AtaAssumption
  <2> HIDE DEF x, e
  <2>6. e.command \in DataCmds => Ahead(e, 1)
    BY <2>3, <2>4 DEF DataCmds
  <2>7. /\ Sound(f) /\ Keeps(c, e, f) /\ TimerKept(e, f)
        /\ Spot(e) => Placed(f)
    BY <2>3, <2>6, FillBufferEffect
  <2> HIDE DEF f
  <2>8. Keeps(c, r, f) /\ TimerKept(r, f)
    BY <2>3, <2>7, KeepsTrans DEF TimerKept
  <2>9. Placed(r) => Placed(f)
    <3>1. f.command = e.command
      BY <2>7 DEF Keeps, Fixed
    <3> QED
      BY <2>3, <2>7, <3>1 DEF Placed
  <2>10. x.offset >= SectorSize \/ x.offset < SectorSize
    BY <2>5, AtaAssumption
  <2> QED
    BY <2>1, <2>3, <2>7, <2>8, <2>9, <2>10
<1>2. CASE q = write_data(c, r, ok)
  <2> DEFINE m == r.command \in ReadCmds
             x == [Moved(r) EXCEPT !.mixed = @ \/ m]
             e == Emptied(x)
             f == process_buffer(c, e, ok)
  <2>1. q = IF x.offset >= SectorSize THEN f ELSE x
    BY <1>2 DEF write_data
  <2>2. m \in BOOLEAN
    OBVIOUS
  <2>3. /\ x.offset < SectorSize =>
             /\ Sound(x) /\ Keeps(c, r, x) /\ TimerKept(r, x)
             /\ Placed(r) => Placed(x)
        /\ Resting(e) /\ e.offset = 0 /\ Keeps(c, r, e) /\ TimerKept(r, e)
        /\ e.command \in DataCmds \cup {"identify", "disablepw"}
        /\ (e.command \in DataCmds /\ ~m) =>
             Ahead(e, IF e.command \in ReadCmds THEN 1 ELSE 0)
        /\ (e.command \in DataCmds /\ m) => Ahead(e, 0) /\ Ahead(e, 1)
        /\ (e.command \in DataCmds /\ Placed(r)) => Spot(e)
    <3> HIDE DEF m
    <3> QED
      BY <2>2, AccessEffect
  <2>4. e.command = r.command
    BY <2>3 DEF Keeps, Fixed
  <2>5. x.offset \in Int
    <3>1. x.offset = r.offset + Step(r)
      BY DEF Moved, Device, Sound
    <3> QED
      BY <3>1, StepFits, AtaAssumption
  <2> HIDE DEF x, e
  <2>6. e.command \in DataCmds => Ahead(e, 0)
    BY <2>3, <2>4
  <2>7. /\ Sound(f) /\ Keeps(c, e, f) /\ TimerKept(e, f)
        /\ Spot(e) => Placed(f)
    BY <2>3, <2>6, ProcessBufferEffect
  <2> HIDE DEF f
  <2>8. Keeps(c, r, f) /\ TimerKept(r, f)
    BY <2>3, <2>7, KeepsTrans DEF TimerKept
  <2>9. Placed(r) => Placed(f)
    <3>1. f.command = e.command
      BY <2>7 DEF Keeps, Fixed
    <3> QED
      BY <2>3, <2>7, <3>1 DEF Placed
  <2>10. x.offset >= SectorSize \/ x.offset < SectorSize
    BY <2>5, AtaAssumption
  <2> QED
    BY <2>1, <2>3, <2>7, <2>8, <2>9, <2>10
<1> QED
  BY <1>1, <1>2

-----------------------------------------------------------------------------
(* Commands *)

\* A device that takes a command.
Ready(r) ==
    /\ r \in Device /\ ~r.bsy /\ r.left = Never /\ ~r.drq /\ ~r.resetting
    /\ r.offset = 0 /\ r.signals <= r.moved

\* A sector count of 0 stands for MaxSectors, so a transfer has at least one.
LEMMA SectorsRange ==
    ASSUME NEW r \in Device PROVE sectors_remaining(r) \in 1..MaxSectors
BY AtaAssumption DEF sectors_remaining, Device

\* The schedule at the start of a transfer.
LEMMA ScheduleStart ==
    ASSUME NEW r \in Device, r.command \in ImageCmds
    PROVE  LET n == sectors_remaining(r)
           IN  /\ UntilInt(r) = Until(r.command, 0, n, r.block)
               /\ Expected(r.command, 0, n, r.block) = 0
<1> DEFINE n == sectors_remaining(r)
           b == r.block
           cmd == r.command
<1>0. n \in 1..MaxSectors /\ b \in 0..MaxSectors /\ MaxSectors \in Nat
  BY SectorsRange, AtaAssumption DEF Device
<1> HIDE DEF n
<1>1. CASE cmd \in {"read", "write"}
  BY <1>0, <1>1 DEF UntilInt, Until, Expected
<1>2. CASE cmd \in {"readdma", "writedma", "verify"}
  <2>1. UntilInt(r) = n
    BY <1>2 DEF UntilInt, n
  <2>2. Until(cmd, 0, n, b) = n - 0 /\ Expected(cmd, 0, n, b) = IF 0 = n THEN 1 ELSE 0
    BY <1>2 DEF Until, Expected
  <2> QED
    BY <1>0, <2>1, <2>2 DEF n
<1>3. CASE cmd = "readmul"
  <2>1. UntilInt(r) = 1
    BY <1>3 DEF UntilInt
  <2>2. CASE b = 0
    BY <1>3, <2>1, <2>2 DEF Until, Expected, n
  <2>3. CASE b > 0
    <3>1. (b - 1) % b = b - 1 /\ (b - 1) \div b = 0 /\ 0 + b - 1 = b - 1
      BY <1>0, <2>3, DivLow
    <3>2. /\ Until(cmd, 0, n, b) = b - ((0 + b - 1) % b)
          /\ Expected(cmd, 0, n, b) = (0 + b - 1) \div b
      BY <1>0, <1>3, <2>3 DEF Until, Expected
    <3> QED
      BY <1>0, <2>1, <3>1, <3>2 DEF n
  <2> QED
    BY <1>0, <2>2, <2>3
<1>4. CASE cmd = "writemul"
  <2>1. UntilInt(r) = b
    BY <1>4 DEF UntilInt
  <2>2. CASE b = 0
    BY <1>0, <1>4, <2>1, <2>2 DEF Until, Expected, n
  <2>3. CASE b > 0
    <3>1. 0 % b = 0 /\ 0 \div b = 0
      BY <1>0, <2>3, DivLow
    <3>2. /\ Until(cmd, 0, n, b) = b - (0 % b)
          /\ Expected(cmd, 0, n, b) =
               (0 \div b) + IF 0 = n /\ 0 % b # 0 THEN 1 ELSE 0
      BY <1>0, <1>4, <2>3 DEF Until, Expected
    <3> QED
      BY <1>0, <2>1, <3>1, <3>2 DEF n
  <2> QED
    BY <1>0, <2>2, <2>3
<1> QED
  BY <1>1, <1>2, <1>3, <1>4, CmdSets

\* The start of a transfer.
LEMMA TransferEffect ==
    ASSUME NEW c, NEW r, Ready(r), r.command \in DataCmds
    PROVE  LET q == Transfer(r)
           IN  /\ Due(q) /\ Spot(q) /\ Keeps(c, r, q)
               /\ q.bsy = r.bsy /\ q.left = r.left /\ q.param = r.param
<1> DEFINE n == sectors_remaining(r)
           u == UntilInt(r)
           q == [r EXCEPT !.remaining = n, !.untilint = u, !.base = r.lba, !.want = n,
                          !.moved = 0, !.signals = 0, !.mixed = FALSE]
<1>0. r \in Device
  BY DEF Ready
<1>1. n \in 1..MaxSectors /\ n \in 0..MaxSectors /\ 0 \in 0..MaxSectors
      /\ r.lba \in 0..(AddrSpace - 1)
  BY <1>0, SectorsRange, DeviceTypes, AtaAssumption
<1>2. u \in 0..(IntWrap - 1)
  <2>1. r.block \in 0..MaxSectors
    BY <1>0, DeviceTypes
  <2>2. u \in {n, r.block, 1}
    BY DEF UntilInt
  <2> HIDE DEF n, u
  <2> QED
    BY <1>1, <2>1, <2>2, AtaAssumption
<1>3. Transfer(r) = q
  BY DEF Transfer
<1>4. r.command \in ImageCmds =>
        u = Until(r.command, 0, n, r.block) /\ Expected(r.command, 0, n, r.block) = 0
  BY <1>0, ScheduleStart
<1> HIDE DEF n, u
<1>5. /\ q \in Device
      /\ Agree(r, q, {"remaining", "untilint", "base", "want", "moved", "signals",
                      "mixed"})
      /\ q.remaining = n /\ q.untilint = u /\ q.base = r.lba /\ q.want = n
      /\ q.moved = 0 /\ q.signals = 0 /\ q.mixed = FALSE
  BY <1>0, <1>1, <1>2 DEF Device, Agree, Fields
<1> HIDE DEF q
<1>6. /\ q.bsy = r.bsy /\ q.left = r.left /\ q.param = r.param /\ q.drq = r.drq
      /\ q.resetting = r.resetting /\ q.command = r.command /\ q.offset = r.offset
      /\ q.block = r.block /\ q.lba = r.lba
  BY <1>5 DEF Agree, Fields
<1>7. Keeps(c, r, q)
  <2>1. {"remaining", "untilint", "base", "want", "moved", "signals", "mixed"}
          \cap (Fixed \cup {"device1", "irq", "irqout"}) = {}
    BY DEF Fixed
  <2> QED
    BY <1>5, <2>1, AgreeKeeps
<1>8. Totals(q) /\ Ahead(q, 0) /\ q.signals <= q.moved
  BY <1>1, <1>4, <1>5, <1>6, AtaAssumption DEF Totals, Ahead
<1>9. Spot(q)
  <2>1. Seen(q) = 0
    BY <1>1, <1>5, AtaAssumption DEF Seen
  <2>2. r.lba + 0 = r.lba /\ r.lba % AddrSpace = r.lba
    BY <1>1, AtaAssumption
  <2> QED
    BY <1>5, <1>6, <2>1, <2>2 DEF Spot
<1>10. Resting(q)
  BY <1>5, <1>6, <1>8 DEF Resting, Ready
<1> QED
  BY <1>3, <1>5, <1>6, <1>7, <1>8, <1>9, <1>10 DEF Due, Ready

\* A command without data that is over at once.
LEMMA AtOnceEffect ==
    ASSUME NEW c, NEW r, NEW x \in Device, Ready(r), r.command \notin DataCmds,
           Agree(r, x, {"untilint", "block", "err", "device1"}),
           x.device1 => r.device1
    PROVE  LET q == set_irq(c, x, TRUE)
           IN  Sound(q) /\ Placed(q) /\ Keeps(c, r, q) /\ TimerKept(r, q)
<1> DEFINE q == set_irq(c, x, TRUE)
<1>1. /\ x.bsy = r.bsy /\ x.left = r.left /\ x.param = r.param /\ x.drq = r.drq
      /\ x.resetting = r.resetting /\ x.command = r.command
      /\ x.signals = r.signals /\ x.moved = r.moved
  BY DEF Agree, Fields
<1>2. Resting(x)
  BY <1>1 DEF Resting, Ready, Totals
<1>3. Keeps(c, r, x)
  BY DEF Keeps, Agree, Fields, Fixed, Linked, Honest, Wired, Selected
<1>4. Sound(q) /\ Placed(q) /\ Keeps(c, x, q) /\ TimerKept(x, q)
  BY <1>2, IrqRests
<1> HIDE DEF q
<1>5. Keeps(c, r, q) /\ TimerKept(r, q)
  BY <1>1, <1>3, <1>4, KeepsTrans DEF TimerKept
<1> QED
  BY <1>4, <1>5 DEF q

\* process_command: what becomes of the selected device.
LEMMA ProcessCommandEffect ==
    ASSUME NEW c, NEW r, Ready(r)
    PROVE  LET q == process_command(c, r)
           IN  Sound(q) /\ Placed(q) /\ Keeps(c, r, q) /\ TimerKept(r, q)
<1>0. r \in Device /\ r.signals <= r.moved
  BY DEF Ready
<1>t. "command" \in Params /\ CommandTime \in Nat \cup {Never}
      /\ DiagTime \in Nat \cup {Never}
  BY Times DEF Params
<1>1. CASE r.command \in ReadCmds
  <2> DEFINE t == Transfer(r)
             d == [t EXCEPT !.dasp = TRUE]
             b == start_busy(d, CommandTime, "command")
  <2>1. process_command(c, r) = b
    BY <1>1 DEF process_command, ReadCmds, WriteCmds, TimedCmds, Features
  <2>2. /\ Due(t) /\ Spot(t) /\ Keeps(c, r, t) /\ t.param = r.param
        /\ t.bsy = r.bsy /\ t.left = r.left /\ t \in Device
    BY <1>1, TransferEffect DEF DataCmds, Due, Resting
  <2> HIDE DEF t
  <2>3. d \in Device /\ Agree(t, d, {"dasp"}) /\ Keeps(c, t, d)
    BY <2>2, DaspEffect
  <2> HIDE DEF d
  <2>4. /\ b \in Device /\ Agree(d, b, Timer) /\ Keeps(c, d, b)
        /\ b.bsy = TRUE /\ b.left = CommandTime /\ b.param = "command"
    BY <1>t, <2>3, StartBusy, StartKeeps
  <2> HIDE DEF b
  <2>5. Agree(t, b, {"dasp", "bsy", "left", "param"})
    BY <2>3, <2>4 DEF Agree, Fields, Timer
  <2>6. /\ b.drq = t.drq /\ b.resetting = t.resetting /\ b.offset = t.offset
        /\ b.command = t.command /\ b.mixed = t.mixed /\ b.want = t.want
        /\ b.moved = t.moved /\ b.signals = t.signals /\ b.block = t.block
        /\ b.untilint = t.untilint /\ b.lba = t.lba /\ b.base = t.base
        /\ b.remaining = t.remaining
    BY <2>5 DEF Agree, Fields
  <2>7. Keeps(c, r, b)
    BY <2>2, <2>3, <2>4, KeepsTrans
  <2>8. TimerOK(b) /\ CommandOK(b)
    BY <2>2, <2>4, <2>6, Times DEF TimerOK, CommandOK, Due, Resting
  <2>9. Totals(b) /\ Moving(b) /\ b.signals <= b.moved
    BY <2>2, <2>6 DEF Totals, Moving, HeldIn, Ahead, Due, Resting
  <2>10. Placed(b) /\ TimerKept(r, b)
    BY <2>2, <2>4, <2>6 DEF Placed, Spot, Seen, TimerKept, Times2
  <2> QED
    BY <2>1, <2>4, <2>7, <2>8, <2>9, <2>10 DEF Sound
<1>2. CASE r.command \in WriteCmds
  <2> DEFINE t == Transfer(r)
             w == [t EXCEPT !.drq = TRUE]
  <2>1. process_command(c, r) = w
    BY <1>2 DEF process_command, ReadCmds, WriteCmds, TimedCmds, Features
  <2>2. /\ Due(t) /\ Spot(t) /\ Keeps(c, r, t) /\ t.param = r.param
        /\ t.bsy = r.bsy /\ t.left = r.left /\ t \in Device
    BY <1>2, TransferEffect DEF DataCmds, Due, Resting
  <2>3. t.command \in WriteCmds
    BY <1>2, <2>2 DEF Keeps, Fixed
  <2> HIDE DEF t
  <2>4. w \in Device /\ Agree(t, w, {"drq"}) /\ w.drq = TRUE
    BY <2>2 DEF Device, Agree, Fields
  <2> HIDE DEF w
  <2>5. /\ w.bsy = t.bsy /\ w.left = t.left /\ w.param = t.param
        /\ w.resetting = t.resetting /\ w.offset = t.offset
        /\ w.command = t.command /\ w.mixed = t.mixed /\ w.want = t.want
        /\ w.moved = t.moved /\ w.signals = t.signals /\ w.block = t.block
        /\ w.untilint = t.untilint /\ w.lba = t.lba /\ w.base = t.base
        /\ w.remaining = t.remaining
    BY <2>4 DEF Agree, Fields
  <2>6. Keeps(c, t, w)
    BY <2>4 DEF Keeps, Agree, Fields, Fixed, Linked, Honest, Wired, Selected
  <2>7. Keeps(c, r, w)
    BY <2>2, <2>6, KeepsTrans
  <2>8. TimerOK(w) /\ CommandOK(w)
    BY <2>2, <2>3, <2>4, <2>5, AtaAssumption
       DEF TimerOK, CommandOK, Waits, Due, Resting, DataCmds, WriteCmds
  <2>9. Totals(w) /\ w.signals <= w.moved
    BY <2>2, <2>5 DEF Totals, Due, Resting
  <2>10. Moving(w)
    <3>1. w.command \notin ReadCmds
      BY <2>3, <2>5 DEF WriteCmds, ReadCmds
    <3> QED
      BY <2>2, <2>5, <3>1 DEF Moving, HeldIn, Ahead, Due
  <2>11. Placed(w) /\ TimerKept(r, w)
    BY <2>2, <2>5 DEF Placed, Spot, Seen, TimerKept
  <2> QED
    BY <2>1, <2>4, <2>7, <2>8, <2>9, <2>10, <2>11 DEF Sound
<1>3. CASE r.command = "disablepw"
  <2> DEFINE x == [r EXCEPT !.untilint = 0, !.drq = TRUE]
             q == set_irq(c, x, TRUE)
  <2>1. process_command(c, r) = q
    BY <1>3 DEF process_command, ReadCmds, WriteCmds, TimedCmds, Features
  <2>2. x \in Device /\ Agree(r, x, {"untilint", "drq"}) /\ x.drq = TRUE
    <3>1. 0 \in 0..(IntWrap - 1)
      BY AtaAssumption
    <3> QED
      BY <1>0, <3>1 DEF Device, Agree, Fields
  <2> HIDE DEF x
  <2>3. q \in Device /\ Agree(x, q, Irqs) /\ Keeps(c, x, q)
    BY <2>2, SetIrq, IrqKeeps
  <2> HIDE DEF q
  <2>4. Agree(r, q, {"untilint", "drq", "irq", "irqout"}) /\ q.drq = TRUE
    BY <2>2, <2>3 DEF Agree, Fields, Irqs
  <2>5. /\ q.bsy = r.bsy /\ q.left = r.left /\ q.param = r.param
        /\ q.resetting = r.resetting /\ q.offset = r.offset
        /\ q.command = r.command /\ q.moved = r.moved /\ q.signals = r.signals
    BY <2>4 DEF Agree, Fields
  <2>6. Keeps(c, r, x)
    BY <2>2 DEF Keeps, Agree, Fields, Fixed, Linked, Honest, Wired, Selected
  <2>7. Keeps(c, r, q)
    BY <2>3, <2>6, KeepsTrans
  <2>8. r.command \notin DataCmds
    BY <1>3 DEF DataCmds, ReadCmds, WriteCmds
  <2>9. TimerOK(q) /\ CommandOK(q)
    BY <1>3, <2>4, <2>5, AtaAssumption DEF TimerOK, CommandOK, Waits, Ready
  <2>10. Totals(q) /\ Moving(q) /\ q.signals <= q.moved /\ Placed(q) /\ TimerKept(r, q)
    BY <1>0, <2>5, <2>8 DEF Totals, Moving, Placed, TimerKept
  <2> QED
    BY <2>1, <2>3, <2>7, <2>9, <2>10 DEF Sound
<1>4. CASE r.command = "setblock"
  <2> DEFINE n == sectors_remaining(r)
             x == [r EXCEPT !.untilint = 0, !.block = n]
  <2>1. process_command(c, r) = set_irq(c, x, TRUE)
    BY <1>4 DEF process_command, ReadCmds, WriteCmds, TimedCmds, Features
  <2>2. n \in 0..MaxSectors /\ 0 \in 0..(IntWrap - 1)
    BY <1>0, SectorsRange, AtaAssumption
  <2> HIDE DEF n
  <2>3. x \in Device /\ Agree(r, x, {"untilint", "block", "err", "device1"})
        /\ x.device1 = r.device1
    BY <1>0, <2>2 DEF Device, Agree, Fields
  <2>4. r.command \notin DataCmds
    BY <1>4 DEF DataCmds, ReadCmds, WriteCmds
  <2> HIDE DEF x
  <2> QED
    BY <2>1, <2>3, <2>4, AtOnceEffect
<1>5. CASE r.command = "idle"
  <2> DEFINE x == [r EXCEPT !.untilint = 0]
  <2>1. process_command(c, r) = set_irq(c, x, TRUE)
    BY <1>5 DEF process_command, ReadCmds, WriteCmds, TimedCmds, Features
  <2>2. 0 \in 0..(IntWrap - 1)
    BY AtaAssumption
  <2>3. x \in Device /\ Agree(r, x, {"untilint", "block", "err", "device1"})
        /\ x.device1 = r.device1
    BY <1>0, <2>2 DEF Device, Agree, Fields
  <2>4. r.command \notin DataCmds
    BY <1>5 DEF DataCmds, ReadCmds, WriteCmds
  <2> HIDE DEF x
  <2> QED
    BY <2>1, <2>3, <2>4, AtOnceEffect
<1>6. CASE r.command \in TimedCmds
  <2> DEFINE x == [r EXCEPT !.untilint = 0]
             time == IF r.command = "diagnostic" THEN DiagTime ELSE CommandTime
             b == start_busy(x, time, "command")
  <2>1. process_command(c, r) = b
    BY <1>6 DEF process_command, ReadCmds, WriteCmds, TimedCmds, Features
  <2>2. 0 \in 0..(IntWrap - 1)
    BY AtaAssumption
  <2>3. x \in Device /\ Agree(r, x, {"untilint"})
    BY <1>0, <2>2 DEF Device, Agree, Fields
  <2>4. r.command \notin DataCmds
    BY <1>6 DEF DataCmds, ReadCmds, WriteCmds, TimedCmds, Features
  <2>5. time \in Nat \cup {Never} /\ time \in Times2 /\ time # Never
    BY Times DEF Times2
  <2> HIDE DEF x, time
  <2>6. /\ b \in Device /\ Agree(x, b, Timer) /\ Keeps(c, x, b)
        /\ b.bsy = TRUE /\ b.left = time /\ b.param = "command"
    BY <1>t, <2>3, <2>5, StartBusy, StartKeeps
  <2> HIDE DEF b
  <2>7. Agree(r, b, {"untilint", "bsy", "left", "param"})
    BY <2>3, <2>6 DEF Agree, Fields, Timer
  <2>8. /\ b.drq = r.drq /\ b.resetting = r.resetting /\ b.offset = r.offset
        /\ b.command = r.command /\ b.moved = r.moved /\ b.signals = r.signals
    BY <2>7 DEF Agree, Fields
  <2>9. Keeps(c, r, x)
    BY <2>3 DEF Keeps, Agree, Fields, Fixed, Linked, Honest, Wired, Selected
  <2>10. Keeps(c, r, b)
    BY <2>6, <2>9, KeepsTrans
  <2>11. TimerOK(b) /\ CommandOK(b)
    BY <1>6, <2>5, <2>6, <2>8 DEF TimerOK, CommandOK, Ready
  <2>12. Totals(b) /\ Moving(b) /\ b.signals <= b.moved /\ Placed(b) /\ TimerKept(r, b)
    BY <1>0, <2>4, <2>5, <2>6, <2>8 DEF Totals, Moving, Placed, TimerKept
  <2> QED
    BY <2>1, <2>6, <2>10, <2>11, <2>12 DEF Sound
<1>7. CASE /\ r.command \notin ReadCmds /\ r.command \notin WriteCmds
           /\ r.command \notin TimedCmds
           /\ r.command \notin {"disablepw", "setblock", "idle"}
  <2> DEFINE x == [r EXCEPT !.untilint = 0, !.err = TRUE, !.device1 = FALSE]
  <2>1. process_command(c, r) = set_irq(c, x, TRUE)
    BY <1>7 DEF process_command
  <2>2. 0 \in 0..(IntWrap - 1)
    BY AtaAssumption
  <2>3. x \in Device /\ Agree(r, x, {"untilint", "block", "err", "device1"})
        /\ x.device1 = FALSE
    BY <1>0, <2>2 DEF Device, Agree, Fields
  <2>4. r.command \notin DataCmds
    BY <1>7 DEF DataCmds
  <2> HIDE DEF x
  <2> QED
    BY <2>1, <2>3, <2>4, AtOnceEffect
<1> QED
  BY <1>1, <1>2, <1>3, <1>4, <1>5, <1>6, <1>7

\* set_irq on a device at rest, after fields that do not matter for it.
LEMMA LooseEffect ==
    ASSUME NEW c, NEW r, NEW x \in Device, Resting(r),
           Agree(r, x, {"bytewide", "err", "device1"}), x.device1 => r.device1
    PROVE  LET q == set_irq(c, x, TRUE)
           IN  /\ Sound(q) /\ Placed(q) /\ Keeps(c, r, q) /\ TimerKept(r, q)
               /\ q.irq
<1> DEFINE q == set_irq(c, x, TRUE)
<1>1. Resting(x)
  BY RestingAgree
<1>2. Keeps(c, r, x) /\ TimerKept(r, x)
  BY DEF Keeps, TimerKept, Agree, Fields, Fixed, Linked, Honest, Wired, Selected
<1>3. Sound(q) /\ Placed(q) /\ Keeps(c, x, q) /\ TimerKept(x, q) /\ q.irq
  BY <1>1, IrqRests
<1> HIDE DEF q
<1>4. Keeps(c, r, q) /\ TimerKept(r, q)
  BY <1>2, <1>3, KeepsTrans DEF TimerKept
<1> QED
  BY <1>3, <1>4 DEF q

\* The updates of SET FEATURES and of the security commands keep the types.
LEMMA FlagUpdates ==
    ASSUME NEW r \in Device
    PROVE  /\ LET x == [r EXCEPT !.drq = TRUE]
              IN  x \in Device /\ Agree(r, x, {"drq"}) /\ x.drq = TRUE
           /\ LET x == [r EXCEPT !.err = TRUE, !.device1 = FALSE]
              IN  /\ x \in Device /\ Agree(r, x, {"bytewide", "err", "device1"})
                  /\ x.device1 = FALSE
           /\ \A v \in BOOLEAN :
                LET x == [r EXCEPT !.bytewide = v]
                IN  /\ x \in Device /\ Agree(r, x, {"bytewide", "err", "device1"})
                    /\ x.device1 = r.device1
<1>1. LET x == [r EXCEPT !.drq = TRUE]
      IN  x \in Device /\ Agree(r, x, {"drq"}) /\ x.drq = TRUE
  BY DEF Device, Agree, Fields
<1>2. LET x == [r EXCEPT !.err = TRUE, !.device1 = FALSE]
      IN  /\ x \in Device /\ Agree(r, x, {"bytewide", "err", "device1"})
          /\ x.device1 = FALSE
  BY DEF Device, Agree, Fields
<1>3. ASSUME NEW v \in BOOLEAN
      PROVE  LET x == [r EXCEPT !.bytewide = v]
             IN  /\ x \in Device /\ Agree(r, x, {"bytewide", "err", "device1"})
                 /\ x.device1 = r.device1
  BY DEF Device, Agree, Fields
<1> QED
  BY <1>1, <1>2, <1>3

\* The expiry of a command's timer keeps the invariant.
LEMMA CommandEndEffect ==
    ASSUME NEW c, NEW r, NEW ok, Resting(r), r.offset = 0,
           r.command \in DataCmds \cup TimedCmds \cup {"disablepw"},
           r.command \in DataCmds => Ahead(r, 0)
    PROVE  LET q == CommandEnd(c, r, ok)
           IN  /\ Sound(q) /\ Keeps(c, r, q) /\ TimerKept(r, q)
               /\ Spot(r) => Placed(q)
               /\ r.command \notin {"disablepw", "diagnostic"} =>
                    q.irq \/ q.drq \/ q.bsy
<1>0. r \in Device
  BY DEF Resting
<1>1. CASE r.command \in ReadCmds
  <2>1. CommandEnd(c, r, ok) = finished_read(c, r, ok)
    BY <1>1 DEF CommandEnd, ReadCmds, WriteCmds
  <2>2. Due(r)
    BY <1>1 DEF Due, DataCmds
  <2> QED
    BY <1>1, <2>1, <2>2, FinishedReadEffect
<1>2. CASE r.command \in WriteCmds
  <2>1. CommandEnd(c, r, ok) = finished_write(c, r, ok)
    BY <1>2 DEF CommandEnd, ReadCmds, WriteCmds
  <2>2. Due(r)
    BY <1>2 DEF Due, DataCmds
  <2> QED
    BY <1>2, <2>1, <2>2, FinishedWriteEffect
<1>3. CASE r.command = "identify" /\ r.ident
  <2> DEFINE x == [r EXCEPT !.drq = TRUE]
             q == set_irq(c, x, TRUE)
  <2>1. CommandEnd(c, r, ok) = q
    BY <1>3 DEF CommandEnd, ReadCmds, WriteCmds
  <2>2. x \in Device /\ Agree(r, x, {"drq"}) /\ x.drq = TRUE
    BY <1>0, FlagUpdates
  <2> HIDE DEF x
  <2>3. q \in Device /\ Agree(x, q, Irqs) /\ Keeps(c, x, q) /\ q.irq = TRUE
    BY <2>2, SetIrq, IrqKeeps
  <2> HIDE DEF q
  <2>4. Agree(r, q, {"drq", "irq", "irqout"}) /\ q.drq = TRUE
    BY <2>2, <2>3 DEF Agree, Fields, Irqs
  <2>5. /\ q.bsy = r.bsy /\ q.left = r.left /\ q.param = r.param
        /\ q.resetting = r.resetting /\ q.offset = r.offset
        /\ q.command = r.command /\ q.moved = r.moved /\ q.signals = r.signals
    BY <2>4 DEF Agree, Fields
  <2>6. Keeps(c, r, x)
    BY <2>2 DEF Keeps, Agree, Fields, Fixed, Linked, Honest, Wired, Selected
  <2>7. Keeps(c, r, q)
    BY <2>3, <2>6, KeepsTrans
  <2>8. r.command \notin DataCmds
    BY <1>3 DEF DataCmds, ReadCmds, WriteCmds
  <2>9. TimerOK(q) /\ CommandOK(q)
    BY <1>3, <2>4, <2>5, AtaAssumption DEF TimerOK, CommandOK, Waits, Resting
  <2>10. Totals(q) /\ Moving(q) /\ q.signals <= q.moved /\ Placed(q) /\ TimerKept(r, q)
    BY <2>5, <2>8 DEF Totals, Moving, Placed, TimerKept, Resting
  <2> QED
    BY <2>1, <2>3, <2>7, <2>9, <2>10 DEF Sound
<1>4. CASE (r.command = "identify" /\ ~r.ident) \/ r.command = "badfeatures"
  <2> DEFINE x == [r EXCEPT !.err = TRUE, !.device1 = FALSE]
  <2>1. CommandEnd(c, r, ok) = set_irq(c, x, TRUE)
    BY <1>4 DEF CommandEnd, ReadCmds, WriteCmds
  <2>2. x \in Device /\ Agree(r, x, {"bytewide", "err", "device1"}) /\ x.device1 = FALSE
    BY <1>0, FlagUpdates
  <2> HIDE DEF x
  <2> QED
    BY <2>1, <2>2, LooseEffect
<1>5. CASE r.command = "features8"
  <2> DEFINE x == [r EXCEPT !.bytewide = TRUE]
  <2>1. CommandEnd(c, r, ok) = set_irq(c, x, TRUE)
    BY <1>5 DEF CommandEnd, ReadCmds, WriteCmds
  <2>2. /\ x \in Device /\ Agree(r, x, {"bytewide", "err", "device1"})
        /\ x.device1 = r.device1
    BY <1>0, FlagUpdates
  <2> HIDE DEF x
  <2> QED
    BY <2>1, <2>2, LooseEffect
<1>6. CASE r.command = "features16"
  <2> DEFINE x == [r EXCEPT !.bytewide = FALSE]
  <2>1. CommandEnd(c, r, ok) = set_irq(c, x, TRUE)
    BY <1>6 DEF CommandEnd, ReadCmds, WriteCmds
  <2>2. /\ x \in Device /\ Agree(r, x, {"bytewide", "err", "device1"})
        /\ x.device1 = r.device1
    BY <1>0, FlagUpdates
  <2> HIDE DEF x
  <2> QED
    BY <2>1, <2>2, LooseEffect
<1>7. CASE r.command \in {"recalibrate", "features"}
  <2>1. CommandEnd(c, r, ok) = set_irq(c, r, TRUE)
    BY <1>7 DEF CommandEnd, ReadCmds, WriteCmds
  <2> QED
    BY <2>1, IrqRests
<1>8. CASE r.command \in {"disablepw", "diagnostic"}
  <2>1. CommandEnd(c, r, ok) = r
    BY <1>8 DEF CommandEnd, ReadCmds, WriteCmds
  <2>2. Sound(r) /\ Placed(r) /\ Keeps(c, r, r) /\ TimerKept(r, r)
    BY RestingSound DEF Keeps, TimerKept, Linked
  <2> QED
    BY <1>8, <2>1, <2>2
<1> QED
  BY <1>1, <1>2, <1>3, <1>4, <1>5, <1>6, <1>7, <1>8 DEF DataCmds, TimedCmds, Features

-----------------------------------------------------------------------------
(* Accesses of the host *)

\* The fields the invariant of a device looks at.
Looks == {"bsy", "left", "param", "srst", "resetting", "drq", "command", "offset",
          "bytewide", "remaining", "want", "moved", "signals", "block", "untilint",
          "mixed"}

\* The invariant depends on these fields only.
LEMMA SoundAgree ==
    ASSUME NEW r, NEW q \in Device, NEW S, Sound(r), Agree(r, q, S), S \cap Looks = {}
    PROVE  /\ Sound(q)
           /\ (S \cap {"lba", "base"} = {} /\ Placed(r)) => Placed(q)
<1>1. /\ q["bsy"] = r["bsy"] /\ q["left"] = r["left"] /\ q["drq"] = r["drq"]
      /\ q["param"] = r["param"] /\ q["srst"] = r["srst"]
      /\ q["resetting"] = r["resetting"] /\ q["command"] = r["command"]
      /\ q["offset"] = r["offset"] /\ q["bytewide"] = r["bytewide"]
  BY DEF Agree, Fields, Looks
<1>2. /\ q["remaining"] = r["remaining"] /\ q["untilint"] = r["untilint"]
      /\ q["mixed"] = r["mixed"] /\ q["want"] = r["want"]
      /\ q["moved"] = r["moved"] /\ q["signals"] = r["signals"]
      /\ q["block"] = r["block"]
  BY DEF Agree, Fields, Looks
<1>3. TimerOK(q) /\ CommandOK(q)
  BY <1>1 DEF Sound, TimerOK, CommandOK, Waits
<1>4. Totals(q) /\ Moving(q) /\ q.signals <= q.moved
  BY <1>1, <1>2 DEF Sound, Totals, Moving, Waits, HeldIn, Ahead
<1>5. ASSUME S \cap {"lba", "base"} = {}, Placed(r) PROVE Placed(q)
  <2>1. q["lba"] = r["lba"] /\ q["base"] = r["base"]
    BY <1>5 DEF Agree, Fields
  <2> QED
    BY <1>1, <1>2, <1>5, <2>1 DEF Placed, Spot, Seen, Waits
<1> QED
  BY <1>3, <1>4, <1>5 DEF Sound

\* What a data phase that is broken off leaves.
Stopped(q) == ~q.bsy /\ q.left = Never /\ q.param = "reset"

\* A write to the task file in a data phase ends the transfer.
LEMMA AbortedEffect ==
    ASSUME NEW c, NEW r, Sound(r)
    PROVE  LET q == Aborted(r)
           IN  /\ Sound(q) /\ Keeps(c, r, q) /\ ~q.drq
               /\ Placed(r) => Placed(q)
               /\ IF r.drq THEN Stopped(q) ELSE q = r
<1>0. r \in Device
  BY DEF Sound
<1>1. CASE ~r.drq
  <2>1. Aborted(r) = r
    BY <1>1 DEF Aborted
  <2> QED
    BY <1>1, <2>1 DEF Keeps, Linked
<1>2. CASE r.drq
  <2> DEFINE k == stop_busy(r)
             q == [k EXCEPT !.drq = FALSE, !.err = TRUE, !.device1 = FALSE]
  <2>1. Aborted(r) = q
    BY <1>2 DEF Aborted
  <2>2. /\ k \in Device /\ Agree(r, k, Timer)
        /\ k.bsy = FALSE /\ k.left = Never /\ k.param = "reset"
    BY <1>0, StopBusy
  <2> HIDE DEF k
  <2>3. /\ q \in Device /\ Agree(k, q, {"drq", "err", "device1"})
        /\ q.drq = FALSE /\ q.device1 = FALSE
    <3>1. k \in Device
      BY <2>2
    <3> QED
      BY <3>1 DEF Device, Agree, Fields
  <2> HIDE DEF q
  <2>4. Agree(r, q, {"bsy", "left", "param", "drq", "err", "device1"}) /\ Stopped(q)
    BY <2>2, <2>3 DEF Agree, Fields, Timer, Stopped
  <2>5. Keeps(c, r, q)
    BY <2>3, <2>4 DEF Keeps, Agree, Fields, Fixed, Linked, Honest, Wired, Selected
  <2>6. /\ q.resetting = r.resetting /\ q.command = r.command /\ q.mixed = r.mixed
        /\ q.want = r.want /\ q.moved = r.moved /\ q.signals = r.signals
        /\ q.block = r.block
    BY <2>4 DEF Agree, Fields
  <2>7. Resting(q)
    BY <1>2, <2>3, <2>4, <2>6 DEF Resting, Stopped, Sound, TimerOK, Totals
  <2>8. Sound(q) /\ Placed(q)
    BY <2>7, RestingSound
  <2> QED
    BY <1>2, <2>1, <2>3, <2>4, <2>5, <2>8
<1> QED
  BY <1>1, <1>2

\* The effect of a write to the task file.
TimerWritten(r, q) ==
    \/ q.bsy = r.bsy /\ q.left = r.left /\ q.param = r.param
    \/ r.drq /\ Stopped(q)

Written(c, r, q) ==
    /\ Sound(q) /\ Keeps(c, r, q) /\ TimerWritten(r, q)
    /\ Placed(r) => Placed(q)
    /\ q.bsy => q = r

\* A write to the sector count or to the address.
LEMMA WriteEffect ==
    ASSUME NEW c, NEW r0, Sound(r0)
    PROVE  LET r == Aborted(r0)
           IN  /\ Written(c, r0, r)
               /\ \A n \in 0..(MaxSectors - 1) :
                    Written(c, r0, IF r.bsy THEN r ELSE [r EXCEPT !.count = n])
               /\ \A a \in 0..(AddrSpace - 1) :
                    Written(c, r0, IF r.bsy THEN r ELSE [r EXCEPT !.lba = a])
<1> DEFINE r == Aborted(r0)
<1>1. /\ Sound(r) /\ Keeps(c, r0, r) /\ ~r.drq
      /\ Placed(r0) => Placed(r)
      /\ IF r0.drq THEN Stopped(r) ELSE r = r0
  BY AbortedEffect
<1> HIDE DEF r
<1>2. Written(c, r0, r)
  BY <1>1 DEF Written, TimerWritten, Stopped
<1>3. r \in Device
  BY <1>1 DEF Sound
<1>4. ASSUME NEW q \in Device, Agree(r, q, {"count", "lba"}), ~r.bsy
      PROVE  Written(c, r0, q)
  <2>1. Sound(q)
    <3>1. {"count", "lba"} \cap Looks = {}
      BY DEF Looks
    <3> QED
      BY <1>1, <1>4, <3>1, SoundAgree
  <2>2. Keeps(c, r, q)
    <3>1. {"count", "lba"} \cap (Fixed \cup {"device1", "irq", "irqout"}) = {}
      BY DEF Fixed
    <3> QED
      BY <1>4, <3>1, AgreeKeeps
  <2>3. q.bsy = r.bsy /\ q.left = r.left /\ q.param = r.param /\ q.drq = r.drq
    BY <1>4 DEF Agree, Fields
  <2>4. Placed(q)
    BY <1>1, <1>4, <2>3 DEF Placed, Waits
  <2>5. Keeps(c, r0, q)
    BY <1>1, <2>2, KeepsTrans
  <2> QED
    BY <1>2, <1>4, <2>1, <2>3, <2>4, <2>5 DEF Written, TimerWritten, Stopped
<1>5. ASSUME NEW n \in 0..(MaxSectors - 1)
      PROVE  Written(c, r0, IF r.bsy THEN r ELSE [r EXCEPT !.count = n])
  <2> DEFINE q == [r EXCEPT !.count = n]
  <2>1. q \in Device /\ Agree(r, q, {"count", "lba"})
    BY <1>3 DEF Device, Agree, Fields
  <2> HIDE DEF q
  <2>2. ~r.bsy => Written(c, r0, q)
    BY <1>4, <2>1
  <2> QED
    BY <1>2, <2>2 DEF q
<1>6. ASSUME NEW a \in 0..(AddrSpace - 1)
      PROVE  Written(c, r0, IF r.bsy THEN r ELSE [r EXCEPT !.lba = a])
  <2> DEFINE q == [r EXCEPT !.lba = a]
  <2>1. q \in Device /\ Agree(r, q, {"count", "lba"})
    BY <1>3 DEF Device, Agree, Fields
  <2> HIDE DEF q
  <2>2. ~r.bsy => Written(c, r0, q)
    BY <1>4, <2>1
  <2> QED
    BY <1>2, <2>2 DEF q
<1> QED
  BY <1>2, <1>5, <1>6 DEF r

Kept(r, q) == Sound(q) /\ (Placed(r) => Placed(q))

HeadDone(c, r, q, drv) ==
    /\ Kept(r, q) /\ TimerWritten(r, q)
    /\ \A f \in Fixed \ {"drv"} : q[f] = r[f]
    /\ q.device1 => r.device1
    /\ Linked(c, r, q)
    /\ q.drv = IF q.bsy THEN r.drv ELSE drv
    /\ q.bsy => q = r

\* A write to the head register: both devices take the drive select.
LEMMA HeadEffect ==
    ASSUME NEW c, NEW r0, NEW drv \in {0, 1}, NEW same, Sound(r0)
    PROVE  HeadDone(c, r0, HeadWritten(c, r0, drv, same), drv)
<1> SUFFICES LET q == HeadWritten(c, r0, drv, same)
             IN  /\ Sound(q) /\ TimerWritten(r0, q)
                 /\ Placed(r0) => Placed(q)
                 /\ \A f \in Fixed \ {"drv"} : q[f] = r0[f]
                 /\ q.device1 => r0.device1
                 /\ Linked(c, r0, q)
                 /\ q.drv = IF q.bsy THEN r0.drv ELSE drv
                 /\ q.bsy => q = r0
  BY Zenon DEF HeadDone, Kept
<1> DEFINE r == IF r0.drv = drv /\ same THEN r0 ELSE Aborted(r0)
           x == [r EXCEPT !.drv = drv]
           u == update_irq(c, x)
<1>1. HeadWritten(c, r0, drv, same) =
        IF r.bsy THEN r ELSE IF drv # r.drv THEN u ELSE x
  BY DEF HeadWritten
<1>2. /\ Sound(r) /\ Keeps(c, r0, r) /\ TimerWritten(r0, r)
      /\ Placed(r0) => Placed(r)
      /\ r.bsy => r = r0
  <2>1. Written(c, r0, Aborted(r0))
    BY WriteEffect
  <2>2. Keeps(c, r0, r0) /\ TimerWritten(r0, r0)
    BY DEF Keeps, TimerWritten, Linked
  <2> QED
    BY <2>1, <2>2 DEF Written
<1> HIDE DEF r
<1>3. r \in Device /\ r.drv = r0.drv /\ r.bsy \in BOOLEAN
  BY <1>2, DeviceFlags DEF Sound, Keeps, Fixed
<1>4. x \in Device /\ Agree(r, x, {"drv"}) /\ x.drv = drv
  BY <1>3 DEF Device, Agree, Fields
<1> HIDE DEF x
<1>5. u \in Device /\ Agree(x, u, {"irqout"}) /\ Wired(c, u)
  BY <1>4, UpdateIrq
<1> HIDE DEF u
<1>6. Agree(r, u, {"drv", "irqout"}) /\ Agree(r, x, {"drv", "irqout"}) /\ u.drv = drv
  BY <1>4, <1>5 DEF Agree, Fields
<1>7. ASSUME NEW q \in {u, x}, ~r.bsy
      PROVE  /\ Sound(q) /\ TimerWritten(r0, q)
             /\ Placed(r0) => Placed(q)
             /\ \A f \in Fixed \ {"drv"} : q[f] = r0[f]
             /\ q.device1 => r0.device1
             /\ ~q.bsy /\ q.drv = drv
  <2>1. q \in Device /\ Agree(r, q, {"drv", "irqout"}) /\ q.drv = drv
    BY <1>4, <1>5, <1>6, <1>7
  <2>2. {"drv", "irqout"} \cap Looks = {} /\ {"drv", "irqout"} \cap {"lba", "base"} = {}
    BY DEF Looks
  <2>3. Sound(q) /\ (Placed(r) => Placed(q))
    BY <1>2, <2>1, <2>2, SoundAgree
  <2>4. q.bsy = r.bsy /\ q.left = r.left /\ q.param = r.param /\ q.device1 = r.device1
    BY <2>1 DEF Agree, Fields
  <2>5. \A f \in Fixed \ {"drv"} : q[f] = r[f]
    BY <2>1 DEF Agree, Fields, Fixed
  <2> QED
    BY <1>2, <1>7, <2>1, <2>3, <2>4, <2>5 DEF TimerWritten, Keeps, Stopped
<1>8. CASE r.bsy
  <2>1. /\ \A f \in Fixed \ {"drv"} : r[f] = r0[f]
        /\ r.device1 => r0.device1
        /\ Linked(c, r0, r)
    BY <1>2 DEF Keeps
  <2> QED
    BY <1>1, <1>2, <1>3, <1>8, <2>1
<1>9. CASE ~r.bsy /\ drv # r.drv
  BY <1>1, <1>5, <1>7, <1>9 DEF Linked, Honest, Wired
<1>10. CASE ~r.bsy /\ drv = r.drv
  <2>1. Linked(c, r, x)
    BY <1>4, <1>10 DEF Linked, Honest, Wired, Selected, Agree, Fields
  <2>2. Linked(c, r0, r)
    BY <1>2 DEF Keeps
  <2> QED
    BY <1>1, <1>7, <1>10, <2>1, <2>2 DEF Linked
<1> QED
  BY <1>8, <1>9, <1>10

\* A write to the command register: the selected device runs the command, and
\* both run the diagnostic.
LEMMA CommandWrittenEffect ==
    ASSUME NEW c, NEW r0, NEW cmd \in AllCmds, Sound(r0)
    PROVE  LET q == CommandWritten(c, r0, cmd)
           IN  /\ Sound(q)
               /\ Placed(r0) => Placed(q)
               /\ \A f \in Fixed \ {"command"} : q[f] = r0[f]
               /\ q.device1 => r0.device1
               /\ Linked(c, r0, q)
               /\ \/ TimerWritten(r0, q) /\ q.command = r0.command /\ (q.bsy => q = r0)
                  \/ /\ r0.drv = c \/ r0.command = "diagnostic"
                     /\ q.command = cmd
                     /\ ~r0.bsy \/ r0.drq
                     /\ \/ ~q.bsy /\ TimerWritten(r0, q)
                        \/ q.bsy /\ q.left \in Times2 /\ q.param = "command"
<1> DEFINE r == Aborted(r0)
           i == set_irq(c, r, FALSE)
           y == [i EXCEPT !.command = cmd, !.offset = 0, !.err = FALSE,
                          !.device1 = FALSE, !.dasp = FALSE]
           q == process_command(c, y)
<1>1. CommandWritten(c, r0, cmd) =
        IF r.bsy \/ ~(Selected(c, r) \/ r.command = "diagnostic") THEN r ELSE q
  BY DEF CommandWritten
<1>2. /\ Sound(r) /\ Keeps(c, r0, r) /\ ~r.drq /\ TimerWritten(r0, r)
      /\ Placed(r0) => Placed(r)
      /\ IF r0.drq THEN Stopped(r) ELSE r = r0
  BY AbortedEffect, WriteEffect DEF Written
<1> HIDE DEF r
<1>3. r \in Device /\ r.drv = r0.drv /\ r.command = r0.command
  BY <1>2 DEF Sound, Keeps, Fixed
<1>4. CASE r.bsy \/ ~(Selected(c, r) \/ r.command = "diagnostic")
  <2>1. CommandWritten(c, r0, cmd) = r
    BY <1>1, <1>4
  <2>2. /\ \A f \in Fixed \ {"command"} : r[f] = r0[f]
        /\ r.device1 => r0.device1
        /\ Linked(c, r0, r)
    BY <1>2 DEF Keeps
  <2> QED
    BY <1>2, <1>3, <2>1, <2>2 DEF Stopped
<1>5. CASE ~r.bsy /\ (Selected(c, r) \/ r.command = "diagnostic")
  <2>1. CommandWritten(c, r0, cmd) = q
    BY <1>1, <1>5
  <2>2. i \in Device /\ Agree(r, i, Irqs) /\ Keeps(c, r, i)
    BY <1>3, SetIrq, IrqKeeps
  <2> HIDE DEF i
  <2>3. /\ y \in Device
        /\ Agree(i, y, {"command", "offset", "err", "device1", "dasp"})
        /\ y.command = cmd /\ y.offset = 0 /\ y.device1 = FALSE
    <3>1. i \in Device /\ 0 \in 0..SectorSize
      BY <2>2, AtaAssumption
    <3> QED
      BY <3>1 DEF Device, Agree, Fields
  <2> HIDE DEF y
  <2>4. Agree(r, y, {"irq", "irqout", "command", "offset", "err", "device1", "dasp"})
    BY <2>2, <2>3 DEF Agree, Fields, Irqs
  <2>5. /\ y.bsy = r.bsy /\ y.left = r.left /\ y.param = r.param /\ y.drq = r.drq
        /\ y.resetting = r.resetting /\ y.signals = r.signals /\ y.moved = r.moved
    BY <2>4 DEF Agree, Fields
  <2>6. Ready(y)
    BY <1>2, <1>5, <2>3, <2>5 DEF Ready, Sound, TimerOK
  <2>7. Sound(q) /\ Placed(q) /\ Keeps(c, y, q) /\ TimerKept(y, q)
    BY <2>6, ProcessCommandEffect
  <2> HIDE DEF q
  <2>8. \A f \in Fixed \ {"command"} : y[f] = r[f]
    BY <2>4 DEF Agree, Fields, Fixed
  <2>9. \A f \in Fixed \ {"command"} : q[f] = r0[f]
    BY <1>2, <2>7, <2>8 DEF Keeps
  <2>10. ~q.device1
    BY <2>3, <2>7 DEF Keeps
  <2>11. Linked(c, i, y)
    BY <2>3 DEF Linked, Honest, Wired, Selected, Agree, Fields
  <2>12. Linked(c, r0, q)
    BY <1>2, <2>2, <2>7, <2>11 DEF Keeps, Linked
  <2>13. q.command = cmd
    BY <2>3, <2>7 DEF Keeps, Fixed
  <2>14. \/ ~q.bsy /\ TimerWritten(r0, q)
         \/ q.bsy /\ q.left \in Times2 /\ q.param = "command"
    BY <1>2, <1>5, <2>5, <2>7 DEF TimerKept, TimerWritten, Stopped
  <2>15. ~r0.bsy \/ r0.drq
    BY <1>2, <1>5
  <2>16. r0.drv = c \/ r0.command = "diagnostic"
    BY <1>3, <1>5 DEF Selected
  <2> QED
    BY <2>1, <2>7, <2>9, <2>10, <2>12, <2>13, <2>14, <2>15, <2>16
<1> QED
  BY <1>4, <1>5

\* What a reset leaves alone.
Basic(r) == r \in Device /\ Totals(r) /\ r.signals <= r.moved

\* The invariant holds the part of it that a reset needs.
LEMMA SoundBasic == ASSUME NEW r, Sound(r) PROVE Basic(r)
BY DEF Sound, Basic

\* A device whose timer runs for the diagnostic, or for device 0's look at DASP.
LEMMA BasicRuns ==
    ASSUME NEW r, NEW q \in Device, NEW S, Basic(r), Agree(r, q, S),
           S \cap {"command", "mixed", "want", "moved", "signals", "block"} = {},
           q.bsy, q.left \in Nat, ~q.drq,
           q.param \in {"diagnostic", "pdiag"} \/ (q.param = "detect" /\ q.resetting)
    PROVE  Sound(q) /\ Placed(q)
<1>1. /\ q["command"] = r["command"] /\ q["mixed"] = r["mixed"]
      /\ q["want"] = r["want"] /\ q["moved"] = r["moved"]
      /\ q["signals"] = r["signals"] /\ q["block"] = r["block"]
  BY DEF Agree, Fields
<1>2. Totals(q) /\ q.signals <= q.moved
  BY <1>1 DEF Basic, Totals
<1>3. TimerOK(q) /\ CommandOK(q) /\ Moving(q) /\ Placed(q)
  BY DEF TimerOK, CommandOK, Moving, Placed, Waits, Never
<1> QED
  BY <1>2, <1>3 DEF Sound

\* soft_reset: the device is busy with its diagnostic.
LEMMA SoftResetEffect ==
    ASSUME NEW r, Basic(r)
    PROVE  LET q == soft_reset(r)
           IN  /\ Sound(q) /\ Placed(q)
               /\ Agree(r, q, {"drq", "err", "offset", "bsy", "left", "param"})
               /\ q.bsy /\ ~q.drq /\ q.left = DiagTime /\ q.param = "diagnostic"
<1> DEFINE p == [r EXCEPT !.drq = FALSE, !.err = FALSE, !.offset = 0]
           q == start_busy(p, DiagTime, "diagnostic")
<1>1. p \in Device /\ Agree(r, p, {"drq", "err", "offset"}) /\ p.drq = FALSE
  <2>1. r \in Device /\ 0 \in 0..SectorSize
    BY AtaAssumption DEF Basic
  <2> QED
    BY <2>1 DEF Device, Agree, Fields
<1>2. soft_reset(r) = q
  BY DEF soft_reset
<1> HIDE DEF p
<1>3. /\ q \in Device /\ Agree(p, q, Timer)
      /\ q.bsy = TRUE /\ q.left = DiagTime /\ q.param = "diagnostic"
  <2>1. DiagTime \in Nat \cup {Never} /\ "diagnostic" \in Params
    BY Times DEF Params
  <2> QED
    BY <1>1, <2>1, StartBusy
<1> HIDE DEF q
<1>4. /\ Agree(r, q, {"drq", "err", "offset", "bsy", "left", "param"})
      /\ q.drq = FALSE
  BY <1>1, <1>3 DEF Agree, Fields, Timer
<1>5. Sound(q) /\ Placed(q)
  BY <1>3, <1>4, Times, BasicRuns
<1> QED
  BY <1>2, <1>3, <1>4, <1>5

\* A reset takes DASP, PDIAG and the interrupt back.
LEMMA ClearLinesEffect ==
    ASSUME NEW c, NEW r \in Device
    PROVE  LET q == ClearLines(c, r)
           IN  /\ q \in Device /\ Agree(r, q, {"dasp", "pdiag", "irq", "irqout"})
               /\ q.irq = FALSE /\ q.dasp = FALSE /\ q.pdiag = FALSE
               /\ Linked(c, r, q)
<1> DEFINE p == [r EXCEPT !.dasp = FALSE, !.pdiag = FALSE]
           q == set_irq(c, p, FALSE)
<1>1. /\ p \in Device /\ Agree(r, p, {"dasp", "pdiag"})
      /\ p.dasp = FALSE /\ p.pdiag = FALSE
  BY DEF Device, Agree, Fields
<1>2. ClearLines(c, r) = q
  BY DEF ClearLines
<1> HIDE DEF p
<1>3. /\ q \in Device /\ Agree(p, q, Irqs) /\ q.irq = FALSE
      /\ Linked(c, p, q)
  BY <1>1, SetIrq
<1> HIDE DEF q
<1>4. Linked(c, r, p)
  BY <1>1 DEF Linked, Honest, Wired, Selected, Agree, Fields
<1>5. Agree(r, q, {"dasp", "pdiag", "irq", "irqout"}) /\ ~q.dasp /\ ~q.pdiag
      /\ q.dasp = FALSE /\ q.pdiag = FALSE
  BY <1>1, <1>3 DEF Agree, Fields, Irqs
<1> QED
  BY <1>2, <1>3, <1>4, <1>5 DEF Linked

\* A machine reset: device 0 looks for DASP, device 1 gives it.
LEMMA PostResetEffect ==
    ASSUME NEW c \in {0, 1}, NEW r, Basic(r)
    PROVE  LET q == interface_post_reset(c, r)
           IN  /\ Sound(q) /\ Placed(q)
               /\ q.bsy /\ q.left = DiagTime /\ q.resetting /\ ~q.irq /\ ~q.pdiag
               /\ ~q.srst /\ ~q.drq
               /\ c = 0 => q.param = "detect"
               /\ c = 1 => q.param = "diagnostic" /\ q.dasp
               /\ q.drv = r.drv /\ q.single = r.single /\ q.ident = r.ident
               /\ q.command = r.command /\ q.device1 = r.device1
               /\ Honest(r) => Wired(c, q) /\ Honest(q)
<1> DEFINE k == ClearLines(c, r)
           x == [k EXCEPT !.drq = FALSE, !.err = FALSE, !.bsy = FALSE,
                          !.srst = FALSE, !.nien = FALSE, !.resetting = TRUE]
           d == [x EXCEPT !.dasp = TRUE]
           b == start_busy(x, DiagTime, "detect")
           s == soft_reset(d)
<1>1. /\ k \in Device /\ Agree(r, k, {"dasp", "pdiag", "irq", "irqout"})
      /\ k.irq = FALSE /\ k.dasp = FALSE /\ k.pdiag = FALSE
      /\ Linked(c, r, k)
  BY ClearLinesEffect DEF Basic
<1>2. interface_post_reset(c, r) = IF c = 0 THEN b ELSE s
  BY DEF interface_post_reset
<1> HIDE DEF k
<1>3. /\ x \in Device
      /\ Agree(k, x, {"drq", "err", "bsy", "srst", "nien", "resetting"})
      /\ x.drq = FALSE /\ x.srst = FALSE /\ x.nien = FALSE /\ x.resetting = TRUE
  <2>1. k \in Device
    BY <1>1
  <2> QED
    BY <2>1 DEF Device, Agree, Fields
<1> HIDE DEF x
<1>4. d \in Device /\ Agree(x, d, {"dasp"}) /\ d.dasp = TRUE
  BY <1>3 DEF Device, Agree, Fields
<1> HIDE DEF d
<1>5. /\ x.irq = FALSE /\ x.irqout = k.irqout /\ x.dasp = FALSE /\ x.pdiag = FALSE
      /\ x.drv = r.drv /\ x.single = r.single /\ x.ident = r.ident
      /\ x.command = r.command /\ x.device1 = r.device1 /\ x.mixed = r.mixed
      /\ x.want = r.want /\ x.moved = r.moved /\ x.signals = r.signals
      /\ x.block = r.block
  BY <1>1, <1>3 DEF Agree, Fields
<1>6. Honest(r) => x.irqout = FALSE
  BY <1>1, <1>5, DeviceFlags DEF Linked, Honest, Wired
<1>7. Basic(x) /\ Basic(d)
  <2>1. Basic(x)
    BY <1>3, <1>5 DEF Basic, Totals
  <2>2. /\ d.command = x.command /\ d.mixed = x.mixed /\ d.want = x.want
        /\ d.moved = x.moved /\ d.signals = x.signals /\ d.block = x.block
    BY <1>4 DEF Agree, Fields
  <2> QED
    BY <1>4, <2>1, <2>2 DEF Basic, Totals
<1>8. CASE c = 0
  <2>1. /\ b \in Device /\ Agree(x, b, Timer)
        /\ b.bsy = TRUE /\ b.left = DiagTime /\ b.param = "detect"
    <3>1. DiagTime \in Nat \cup {Never} /\ "detect" \in Params
      BY Times DEF Params
    <3> QED
      BY <1>3, <3>1, StartBusy
  <2> HIDE DEF b
  <2>2. /\ b.drq = x.drq /\ b.srst = x.srst /\ b.nien = x.nien
        /\ b.resetting = x.resetting /\ b.irq = x.irq /\ b.irqout = x.irqout
        /\ b.dasp = x.dasp /\ b.pdiag = x.pdiag /\ b.drv = x.drv
        /\ b.single = x.single /\ b.ident = x.ident /\ b.command = x.command
        /\ b.device1 = x.device1
    BY <2>1 DEF Agree, Fields, Timer
  <2>3. Timer \cap {"command", "mixed", "want", "moved", "signals", "block"} = {}
    BY DEF Timer
  <2>4. Sound(b) /\ Placed(b)
    BY <1>3, <1>7, <2>1, <2>2, <2>3, Times, BasicRuns
  <2>5. Honest(r) => Wired(c, b) /\ Honest(b)
    BY <1>5, <1>6, <2>2 DEF Linked, Honest, Wired
  <2> QED
    BY <1>2, <1>3, <1>5, <1>8, <2>1, <2>2, <2>4, <2>5
<1>9. CASE c = 1
  <2>1. /\ Sound(s) /\ Placed(s)
        /\ Agree(d, s, {"drq", "err", "offset", "bsy", "left", "param"})
        /\ s.bsy /\ ~s.drq /\ s.left = DiagTime /\ s.param = "diagnostic"
    BY <1>7, SoftResetEffect
  <2> HIDE DEF s
  <2>2. Agree(x, s, {"dasp", "drq", "err", "offset", "bsy", "left", "param"})
        /\ s.dasp = TRUE
    BY <1>4, <2>1 DEF Agree, Fields
  <2>3. /\ s.srst = x.srst /\ s.nien = x.nien
        /\ s.resetting = x.resetting /\ s.irq = x.irq /\ s.irqout = x.irqout
        /\ s.pdiag = x.pdiag /\ s.drv = x.drv
        /\ s.single = x.single /\ s.ident = x.ident /\ s.command = x.command
        /\ s.device1 = x.device1
    BY <2>2 DEF Agree, Fields
  <2>4. Honest(r) => Wired(c, s) /\ Honest(s)
    BY <1>5, <1>6, <2>3 DEF Linked, Honest, Wired
  <2> QED
    BY <1>2, <1>3, <1>5, <1>9, <2>1, <2>2, <2>3, <2>4
<1> QED
  BY <1>8, <1>9

\* SRST and nIEN are written.
SrstKept(r, q) ==
    /\ q.bsy = r.bsy /\ q.left = r.left /\ q.param = r.param /\ q.drq = r.drq
    /\ q.irq = r.irq /\ q.pdiag = r.pdiag /\ q.dasp = r.dasp

SrstRisen(q) ==
    /\ q.bsy /\ q.left = Never /\ q.param = "reset"
    /\ ~q.irq /\ ~q.pdiag /\ ~q.dasp

SrstFallen(r, q) ==
    /\ q.bsy /\ q.left = DiagTime /\ q.param = "diagnostic" /\ ~q.drq
    /\ q.irq = r.irq /\ q.pdiag = r.pdiag /\ q.dasp = r.dasp

\* A write to the device control register, with SRST rising, falling or as it
\* was.
LEMMA ControlEffect ==
    ASSUME NEW c, NEW r0, NEW srst \in BOOLEAN, NEW nien \in BOOLEAN, Sound(r0)
    PROVE  LET q == ControlWritten(c, r0, srst, nien)
           IN  /\ Sound(q)
               /\ Placed(r0) => Placed(q)
               /\ q.srst = srst
               /\ \A f \in {"drv", "single", "ident", "resetting", "command", "device1"} :
                    q[f] = r0[f]
               /\ Linked(c, r0, q)
               /\ IF srst /\ ~r0.srst /\ ~r0.resetting THEN SrstRisen(q)
                  ELSE IF ~srst /\ r0.srst /\ r0.param = "reset" THEN SrstFallen(r0, q)
                  ELSE SrstKept(r0, q)
<1> DEFINE a == [r0 EXCEPT !.srst = srst, !.nien = nien]
           u == update_irq(c, a)
           r == IF nien # r0.nien THEN u ELSE a
           k == ClearLines(c, r)
           b == start_busy(k, Never, "reset")
           s == soft_reset(r)
<1>0. r0 \in Device /\ r0.srst \in BOOLEAN /\ r0.nien \in BOOLEAN
      /\ r0.resetting \in BOOLEAN
  BY DeviceFlags DEF Sound
<1>1. ControlWritten(c, r0, srst, nien) =
        IF srst = r0.srst THEN r
        ELSE IF srst THEN IF r.resetting THEN r ELSE b
        ELSE IF r.param = "reset" THEN s ELSE r
  BY DEF ControlWritten, SrstRises, SrstFalls
<1>2. a \in Device /\ Agree(r0, a, {"srst", "nien"}) /\ a.srst = srst /\ a.nien = nien
  BY <1>0 DEF Device, Agree, Fields
<1> HIDE DEF a
<1>3. u \in Device /\ Agree(a, u, {"irqout"}) /\ Wired(c, u)
  BY <1>2, UpdateIrq
<1> HIDE DEF u
<1>4. /\ r \in Device /\ Agree(r0, r, {"srst", "nien", "irqout"}) /\ r.srst = srst
      /\ Linked(c, r0, r)
  <2>1. Agree(r0, u, {"srst", "nien", "irqout"}) /\ u.srst = srst
    BY <1>2, <1>3 DEF Agree, Fields
  <2>2. Agree(r0, a, {"srst", "nien", "irqout"})
    BY <1>2 DEF Agree, Fields
  <2>3. nien = r0.nien => (Linked(c, r0, a))
    BY <1>2 DEF Linked, Honest, Wired, Selected, Agree, Fields
  <2> QED
    BY <1>2, <1>3, <2>1, <2>2, <2>3 DEF Linked, Honest, Wired
<1> HIDE DEF r
<1>5. /\ r.bsy = r0.bsy /\ r.left = r0.left /\ r.param = r0.param /\ r.drq = r0.drq
      /\ r.resetting = r0.resetting /\ r.command = r0.command
      /\ r.offset = r0.offset /\ r.bytewide = r0.bytewide
      /\ r.remaining = r0.remaining /\ r.want = r0.want /\ r.moved = r0.moved
      /\ r.signals = r0.signals /\ r.block = r0.block
      /\ r.untilint = r0.untilint /\ r.mixed = r0.mixed
      /\ r.lba = r0.lba /\ r.base = r0.base
  BY <1>4 DEF Agree, Fields
<1>6. /\ r.drv = r0.drv /\ r.single = r0.single /\ r.ident = r0.ident
      /\ r.device1 = r0.device1 /\ r.irq = r0.irq
      /\ r.pdiag = r0.pdiag /\ r.dasp = r0.dasp
  BY <1>4 DEF Agree, Fields
<1>7. Totals(r) /\ Moving(r) /\ r.signals <= r.moved /\ CommandOK(r)
      /\ (Placed(r0) => Placed(r))
  BY <1>5 DEF Sound, Totals, Moving, HeldIn, Ahead, CommandOK, Waits, Placed, Spot, Seen
<1>8. \A f \in {"drv", "single", "ident", "resetting", "command", "device1"} :
        r[f] = r0[f]
  BY <1>5, <1>6
<1>9. SrstKept(r0, r)
  BY <1>5, <1>6 DEF SrstKept
<1>10. CASE \/ srst = r0.srst
            \/ srst /\ r0.resetting
            \/ ~srst /\ r0.param # "reset"
  <2>1. ControlWritten(c, r0, srst, nien) = r
    BY <1>0, <1>1, <1>5, <1>10
  <2>2. TimerOK(r)
    BY <1>0, <1>4, <1>5, <1>10 DEF Sound, TimerOK
  <2>3. Sound(r)
    BY <1>4, <1>7, <2>2 DEF Sound
  <2> QED
    BY <1>0, <1>4, <1>7, <1>8, <1>9, <1>10, <2>1, <2>3
<1>11. CASE srst /\ ~r0.srst /\ ~r0.resetting
  <2>1. ControlWritten(c, r0, srst, nien) = b
    BY <1>0, <1>1, <1>5, <1>11
  <2>2. /\ k \in Device /\ Agree(r, k, {"dasp", "pdiag", "irq", "irqout"})
        /\ k.irq = FALSE /\ k.dasp = FALSE /\ k.pdiag = FALSE
        /\ Linked(c, r, k)
    BY <1>4, ClearLinesEffect
  <2> HIDE DEF k
  <2>3. /\ b \in Device /\ Agree(k, b, Timer)
        /\ b.bsy = TRUE /\ b.left = Never /\ b.param = "reset"
    <3>1. Never \in Nat \cup {Never} /\ "reset" \in Params
      BY DEF Params
    <3> QED
      BY <2>2, <3>1, StartBusy
  <2> HIDE DEF b
  <2>4. Agree(r, b, {"dasp", "pdiag", "irq", "irqout", "bsy", "left", "param"})
        /\ b.irq = FALSE /\ b.dasp = FALSE /\ b.pdiag = FALSE
    BY <2>2, <2>3 DEF Agree, Fields, Timer
  <2>5. /\ b.drq = r.drq /\ b.resetting = r.resetting /\ b.command = r.command
        /\ b.offset = r.offset /\ b.bytewide = r.bytewide
        /\ b.remaining = r.remaining /\ b.want = r.want /\ b.moved = r.moved
        /\ b.signals = r.signals /\ b.block = r.block
        /\ b.untilint = r.untilint /\ b.mixed = r.mixed
        /\ b.lba = r.lba /\ b.base = r.base /\ b.srst = r.srst
    BY <2>4 DEF Agree, Fields
  <2>6. TimerOK(b)
    BY <1>4, <1>5, <1>11, <2>3, <2>5 DEF TimerOK
  <2>7. CommandOK(b) /\ Totals(b) /\ Moving(b) /\ b.signals <= b.moved
    BY <1>7, <2>3, <2>5 DEF CommandOK, Totals, Moving, HeldIn, Ahead, Waits
  <2>8. Placed(r) => Placed(b)
    BY <2>3, <2>5 DEF Placed, Spot, Seen, Waits
  <2>9. Linked(c, k, b)
    BY <2>3 DEF Linked, Honest, Wired, Selected, Agree, Fields, Timer
  <2>10. \A f \in {"drv", "single", "ident", "resetting", "command", "device1"} :
           b[f] = r0[f]
    BY <1>8, <2>4 DEF Agree, Fields
  <2>11. Sound(b) /\ SrstRisen(b) /\ b.srst = srst
    BY <1>4, <2>3, <2>4, <2>5, <2>6, <2>7 DEF Sound, SrstRisen
  <2>12. (Placed(r0) => Placed(b)) /\ (Linked(c, r0, b))
    BY <1>4, <1>7, <2>2, <2>8, <2>9 DEF Linked
  <2> QED
    BY <1>11, <2>1, <2>10, <2>11, <2>12
<1>12. CASE ~srst /\ r0.srst /\ r0.param = "reset"
  <2>1. ControlWritten(c, r0, srst, nien) = s
    BY <1>0, <1>1, <1>5, <1>12
  <2>2. Basic(r)
    BY <1>4, <1>7 DEF Basic
  <2>3. /\ Sound(s) /\ Placed(s)
        /\ Agree(r, s, {"drq", "err", "offset", "bsy", "left", "param"})
        /\ s.bsy /\ ~s.drq /\ s.left = DiagTime /\ s.param = "diagnostic"
    BY <2>2, SoftResetEffect
  <2> HIDE DEF s
  <2>4. \A f \in {"drv", "single", "ident", "resetting", "command", "device1"} :
          s[f] = r0[f]
    BY <1>8, <2>3 DEF Agree, Fields
  <2>5. s.srst = r.srst /\ s.irq = r.irq /\ s.pdiag = r.pdiag /\ s.dasp = r.dasp
    BY <2>3 DEF Agree, Fields
  <2>6. SrstFallen(r0, s) /\ s.srst = srst
    BY <1>4, <1>6, <2>3, <2>5 DEF SrstFallen
  <2>7. Linked(c, r, s)
    BY <2>3 DEF Linked, Honest, Wired, Selected, Agree, Fields
  <2> QED
    BY <1>4, <1>12, <2>1, <2>3, <2>4, <2>6, <2>7 DEF Linked
<1> QED
  BY <1>0, <1>10, <1>11, <1>12

\* Time passes for a device.
LEMMA TimerEffect ==
    ASSUME NEW r, Sound(r)
    PROVE  LET q == [r EXCEPT !.left = IF @ > 0 THEN @ - 1 ELSE @]
           IN  /\ Sound(q) /\ Agree(r, q, {"left"})
               /\ Placed(r) => Placed(q)
               /\ q.left = IF r.left > 0 THEN r.left - 1 ELSE r.left
<1> DEFINE l == IF r.left > 0 THEN r.left - 1 ELSE r.left
           q == [r EXCEPT !.left = l]
<1>0. r \in Device /\ r.left \in Nat \cup {Never}
  BY DeviceTypes DEF Sound
<1>1. l \in Nat \cup {Never} /\ (l = Never <=> r.left = Never)
  BY <1>0 DEF Never
<1>2. [r EXCEPT !.left = IF @ > 0 THEN @ - 1 ELSE @] = q
  OBVIOUS
<1>3. q \in Device /\ Agree(r, q, {"left"}) /\ q.left = l
  <2> HIDE DEF l
  <2> QED
    BY <1>0, <1>1 DEF Device, Agree, Fields
<1> HIDE DEF q
<1>4. /\ q.bsy = r.bsy /\ q.param = r.param /\ q.drq = r.drq
      /\ q.resetting = r.resetting /\ q.command = r.command
      /\ q.offset = r.offset /\ q.bytewide = r.bytewide
      /\ q.remaining = r.remaining /\ q.want = r.want /\ q.moved = r.moved
      /\ q.signals = r.signals /\ q.block = r.block
      /\ q.untilint = r.untilint /\ q.mixed = r.mixed
      /\ q.lba = r.lba /\ q.base = r.base /\ q.srst = r.srst
  BY <1>3 DEF Agree, Fields
<1>5. TimerOK(q)
  <2> HIDE DEF l
  <2> QED
    BY <1>1, <1>3, <1>4 DEF Sound, TimerOK
<1>6. /\ CommandOK(q) /\ Totals(q) /\ Moving(q) /\ q.signals <= q.moved
      /\ Placed(r) => Placed(q)
  BY <1>4 DEF Sound, CommandOK, Totals, Moving, HeldIn, Ahead, Waits, Placed, Spot, Seen
<1> QED
  BY <1>2, <1>3, <1>5, <1>6 DEF Sound

\* Reading the status takes the interrupt back.
LEMMA StatusEffect ==
    ASSUME NEW c, NEW r, Sound(r)
    PROVE  LET q == set_irq(c, r, FALSE)
           IN  /\ Sound(q) /\ Agree(r, q, Irqs) /\ Keeps(c, r, q)
               /\ Placed(r) => Placed(q)
<1> DEFINE q == set_irq(c, r, FALSE)
<1>1. q \in Device /\ Agree(r, q, Irqs) /\ Keeps(c, r, q)
  BY SetIrq, IrqKeeps DEF Sound
<1>2. Irqs \cap Looks = {} /\ Irqs \cap {"lba", "base"} = {}
  BY DEF Irqs, Looks
<1> HIDE DEF q
<1>3. Sound(q) /\ (Placed(r) => Placed(q))
  BY <1>1, <1>2, SoundAgree
<1> QED
  BY <1>1, <1>3 DEF q

-----------------------------------------------------------------------------
(* The expiry of a timer: what becomes of the device, and of the other one *)

Signs == {"resetting", "count", "lba", "drv"}

\* finished_diagnostic: the signature goes into the task file and device 0 is
\* selected.
LEMMA FinishedDiagnosticEffect ==
    ASSUME NEW r \in Device
    PROVE  LET q == finished_diagnostic(r)
           IN  /\ q \in Device /\ Agree(r, q, Signs)
               /\ q.resetting = FALSE /\ q.drv = 0
<1> DEFINE n == 1 % MaxSectors
           p == [r EXCEPT !.resetting = FALSE]
           q == [p EXCEPT !.count = n, !.lba = 0, !.drv = 0]
<1>1. n \in 0..(MaxSectors - 1) /\ 0 \in 0..(AddrSpace - 1)
  BY Times, CountFits, AtaAssumption
<1>2. finished_diagnostic(r) = q
  BY DEF finished_diagnostic, signature
<1> HIDE DEF n
<1>3. p \in Device /\ Agree(r, p, {"resetting"}) /\ p.resetting = FALSE
  BY DEF Device, Agree, Fields
<1> HIDE DEF p
<1>4. q \in Device /\ Agree(p, q, {"count", "lba", "drv"}) /\ q.drv = 0
  <2>1. p \in Device
    BY <1>3
  <2> QED
    BY <1>1, <2>1 DEF Device, Agree, Fields
<1> HIDE DEF q
<1>5. Agree(r, q, Signs) /\ q.resetting = FALSE
  BY <1>3, <1>4 DEF Agree, Fields, Signs
<1> QED
  BY <1>2, <1>4, <1>5

\* Device 0 as PDIAG leaves it.
Woken(r, q) ==
    /\ Sound(q) /\ Stopped(q) /\ ~q.resetting /\ q.drv = 0
    /\ Agree(r, q, {"bsy", "left", "param", "resetting", "count", "lba", "drv"})
    /\ ~r.drq => Placed(q)

\* Device 0 sees PDIAG and ends the diagnostic it was waiting with.
LEMMA PdiagInEffect ==
    ASSUME NEW r, Sound(r)
    PROVE  LET q == set_pdiag_in(r)
           IN  IF r.param = "pdiag" THEN Woken(r, q) ELSE q = r
<1> DEFINE k == stop_busy(r)
           q == finished_diagnostic(k)
<1>1. set_pdiag_in(r) = IF r.param = "pdiag" THEN q ELSE r
  BY DEF set_pdiag_in
<1>2. /\ k \in Device /\ Agree(r, k, Timer)
      /\ k.bsy = FALSE /\ k.left = Never /\ k.param = "reset"
  BY StopBusy DEF Sound
<1> HIDE DEF k
<1>3. q \in Device /\ Agree(k, q, Signs) /\ q.resetting = FALSE /\ q.drv = 0
  BY <1>2, FinishedDiagnosticEffect
<1> HIDE DEF q
<1>4. Agree(r, q, {"bsy", "left", "param", "resetting", "count", "lba", "drv"})
      /\ Stopped(q)
  BY <1>2, <1>3 DEF Agree, Fields, Signs, Timer, Stopped
<1>5. ASSUME r.param = "pdiag" PROVE Woken(r, q)
  <2>1. /\ q.drq = r.drq /\ q.command = r.command
        /\ q.offset = r.offset /\ q.bytewide = r.bytewide
        /\ q.remaining = r.remaining /\ q.want = r.want /\ q.moved = r.moved
        /\ q.signals = r.signals /\ q.block = r.block
        /\ q.untilint = r.untilint /\ q.mixed = r.mixed
    BY <1>4 DEF Agree, Fields
  <2>2. TimerOK(q) /\ CommandOK(q)
    BY <1>3, <1>4, <2>1 DEF Sound, TimerOK, CommandOK, Waits, Stopped
  <2>3. Totals(q) /\ Moving(q) /\ q.signals <= q.moved /\ (~r.drq => Placed(q))
    BY <1>4, <1>5, <2>1
       DEF Sound, Totals, Moving, HeldIn, Ahead, Waits, Stopped, Placed
  <2> QED
    BY <1>3, <1>4, <2>2, <2>3 DEF Woken, Sound
<1> QED
  BY <1>1, <1>5

\* What start_diagnostic does to the devices D.
LEMMA StartDiagnostic0 ==
    ASSUME NEW D, 0 \in DOMAIN D, D[0] \in Device
    PROVE  LET R == start_diagnostic(D, 0)
               e == [D[0] EXCEPT !.device1 = FALSE]
           IN  /\ DOMAIN R = DOMAIN D
               /\ \A o \in DOMAIN D \ {0} : R[o] = D[o]
               /\ R[0] = IF ~D[0].single /\ ~pdiagin(D)
                         THEN start_busy(e, DiagTime, "pdiag")
                         ELSE finished_diagnostic(e)
<1> DEFINE e == [D[0] EXCEPT !.device1 = FALSE]
           E == [D EXCEPT ![0] = e]
           n == IF ~E[0].single /\ ~pdiagin(E) THEN start_busy(E[0], DiagTime, "pdiag")
                ELSE finished_diagnostic(E[0])
<1>1. start_diagnostic(D, 0) = [E EXCEPT ![0] = n]
  BY DEF start_diagnostic
<1>2. e.single = D[0].single
  BY DEF Device
<1> HIDE DEF e
<1>3. E[0] = e /\ DOMAIN E = DOMAIN D /\ \A o \in DOMAIN D \ {0} : E[o] = D[o]
  OBVIOUS
<1> HIDE DEF E
<1>4. pdiagin(E) <=> pdiagin(D)
  BY <1>3 DEF pdiagin
<1>5. n = IF ~D[0].single /\ ~pdiagin(D) THEN start_busy(e, DiagTime, "pdiag")
          ELSE finished_diagnostic(e)
  BY <1>2, <1>3, <1>4
<1> HIDE DEF n
<1> QED
  BY <1>1, <1>3, <1>5 DEF e

\* start_diagnostic for device 1 reaches device 0 only through PDIAG.
LEMMA StartDiagnostic1 ==
    ASSUME NEW D, 1 \in DOMAIN D, D[1] \in Device
    PROVE  LET R == start_diagnostic(D, 1)
               e == [D[1] EXCEPT !.device1 = FALSE]
               p == [e EXCEPT !.pdiag = TRUE]
               call == D[1].ident /\ ~D[1].pdiag
           IN  /\ DOMAIN R = DOMAIN D
               /\ \A o \in DOMAIN D \ {1} :
                    R[o] = IF call THEN set_pdiag_in(D[o]) ELSE D[o]
               /\ R[1] = finished_diagnostic(IF call THEN p ELSE e)
<1> DEFINE e == [D[1] EXCEPT !.device1 = FALSE]
           p == [e EXCEPT !.pdiag = TRUE]
           call == D[1].ident /\ ~D[1].pdiag
           E == [D EXCEPT ![1] = e]
           P == [c \in DOMAIN E |-> IF c = 1 THEN [E[1] EXCEPT !.pdiag = TRUE]
                                            ELSE set_pdiag_in(E[c])]
           S == IF E[1].pdiag THEN E ELSE P
           F == IF D[1].ident THEN S ELSE E
<1>1. start_diagnostic(D, 1) = [F EXCEPT ![1] = finished_diagnostic(F[1])]
  BY DEF start_diagnostic, set_pdiag
<1>2. e.pdiag = D[1].pdiag
  BY DEF Device
<1> HIDE DEF e
<1>3. E[1] = e /\ DOMAIN E = DOMAIN D /\ \A o \in DOMAIN D \ {1} : E[o] = D[o]
  OBVIOUS
<1> HIDE DEF E
<1>4. /\ DOMAIN P = DOMAIN D /\ P[1] = p
      /\ \A o \in DOMAIN D \ {1} : P[o] = set_pdiag_in(D[o])
  BY <1>3
<1> HIDE DEF P, p
<1>5. F = IF call THEN P ELSE E
  BY <1>2, <1>3
<1> HIDE DEF F, call
<1>6. DOMAIN F = DOMAIN D /\ F[1] = (IF call THEN p ELSE e)
      /\ \A o \in DOMAIN D \ {1} : F[o] = IF call THEN set_pdiag_in(D[o]) ELSE D[o]
  BY <1>3, <1>4, <1>5
<1> QED
  BY <1>1, <1>6 DEF call, p, e

Idle(r) == Basic(r) /\ ~r.bsy /\ r.left = Never /\ ~r.drq

\* The device whose timer expired, before anything else happens to it.
Expired(r) == [r EXCEPT !.bsy = FALSE, !.left = Never]

\* The timer's expiry itself changes BSY and the timer.
LEMMA ExpiredAgrees ==
    ASSUME NEW r \in Device
    PROVE  LET t == Expired(r)
           IN  /\ t \in Device /\ Agree(r, t, {"bsy", "left"})
               /\ t.bsy = FALSE /\ t.left = Never
BY DEF Expired, Device, Agree, Fields

\* A device whose timer has expired satisfies what the handlers after it need.
LEMMA ExpiredEffect ==
    ASSUME NEW r, Sound(r), r.left = 0
    PROVE  LET t == Expired(r)
           IN  /\ Idle(t) /\ Agree(r, t, {"bsy", "left"})
               /\ r.bsy /\ ~r.drq
               /\ r.param = "command" =>
                    /\ Resting(t) /\ t.offset = 0
                    /\ t.command \in DataCmds \cup TimedCmds \cup {"disablepw"}
                    /\ t.command \in DataCmds => Ahead(t, 0) /\ (Placed(r) => Spot(t))
               /\ r.param = "reset" => Resting(t)
<1> DEFINE t == Expired(r)
<1>1. r \in Device
  BY DEF Sound
<1>2. /\ t \in Device /\ Agree(r, t, {"bsy", "left"})
      /\ t.bsy = FALSE /\ t.left = Never
  BY <1>1, ExpiredAgrees
<1>3. r.bsy /\ ~r.drq /\ (r.param \in {"reset", "command"} => ~r.resetting)
  BY DEF Sound, TimerOK, Never
<1> HIDE DEF t
<1>4. /\ t.drq = r.drq /\ t.command = r.command /\ t.offset = r.offset
      /\ t.remaining = r.remaining /\ t.want = r.want /\ t.moved = r.moved
      /\ t.signals = r.signals /\ t.block = r.block /\ t.param = r.param
      /\ t.untilint = r.untilint /\ t.mixed = r.mixed /\ t.resetting = r.resetting
      /\ t.lba = r.lba /\ t.base = r.base
  BY <1>2 DEF Agree, Fields
<1>5. Totals(t) /\ t.signals <= t.moved
  BY <1>4 DEF Sound, Totals
<1>6. Idle(t)
  BY <1>2, <1>3, <1>4, <1>5 DEF Idle, Basic
<1>7. r.param \in {"reset", "command"} => Resting(t)
  BY <1>2, <1>3, <1>4, <1>5 DEF Resting
<1>8. ASSUME r.param = "command"
      PROVE  /\ t.offset = 0
             /\ t.command \in DataCmds \cup TimedCmds \cup {"disablepw"}
             /\ t.command \in DataCmds => Ahead(t, 0) /\ (Placed(r) => Spot(t))
  <2>1. Waits(r)
    BY <1>3, <1>8 DEF Waits
  <2>2. t.offset = 0 /\ t.command \in DataCmds \cup TimedCmds \cup {"disablepw"}
    BY <1>4, <2>1 DEF Sound, CommandOK
  <2>3. t.command \in DataCmds => Ahead(t, 0)
    BY <1>3, <1>4, <2>1 DEF Sound, Moving, HeldIn, Ahead
  <2>4. (t.command \in DataCmds /\ Placed(r)) => Spot(t)
    BY <1>4, <2>1 DEF Placed, Spot, Seen
  <2> QED
    BY <2>2, <2>3, <2>4
<1> QED
  BY <1>2, <1>3, <1>6, <1>7, <1>8 DEF t

Ends == {"device1", "pdiag", "resetting", "count", "lba", "drv"}

\* The diagnostic ends at once.
LEMMA DiagnosisEnds ==
    ASSUME NEW t, NEW x \in Device, Idle(t), Agree(t, x, {"device1", "pdiag"})
    PROVE  LET q == finished_diagnostic(x)
           IN  /\ Sound(q) /\ Placed(q) /\ Agree(t, q, Ends)
               /\ ~q.resetting /\ q.drv = 0
               /\ q.device1 = x.device1 /\ q.pdiag = x.pdiag
<1> DEFINE q == finished_diagnostic(x)
<1>1. q \in Device /\ Agree(x, q, Signs) /\ q.resetting = FALSE /\ q.drv = 0
  BY FinishedDiagnosticEffect
<1> HIDE DEF q
<1>2. Agree(t, q, Ends) /\ q.device1 = x.device1 /\ q.pdiag = x.pdiag
  BY <1>1 DEF Agree, Fields, Signs, Ends
<1>3. /\ q.bsy = t.bsy /\ q.left = t.left /\ q.drq = t.drq /\ q.command = t.command
      /\ q.want = t.want /\ q.moved = t.moved /\ q.mixed = t.mixed
      /\ q.signals = t.signals /\ q.block = t.block
  BY <1>2 DEF Agree, Fields, Ends
<1>4. Resting(q)
  BY <1>1, <1>3 DEF Idle, Basic, Resting, Totals
<1> QED
  BY <1>1, <1>2, <1>4, RestingSound DEF q

\* Device 0 waits for PDIAG.
LEMMA DiagnosisWaits ==
    ASSUME NEW t, NEW x \in Device, Idle(t), Agree(t, x, {"device1"})
    PROVE  LET q == start_busy(x, DiagTime, "pdiag")
           IN  /\ Sound(q) /\ Placed(q)
               /\ Agree(t, q, {"bsy", "left", "param", "device1"})
               /\ q.bsy /\ q.left = DiagTime /\ q.param = "pdiag"
               /\ q.device1 = x.device1
<1> DEFINE q == start_busy(x, DiagTime, "pdiag")
           S == {"bsy", "left", "param", "device1"}
<1>1. /\ q \in Device /\ Agree(x, q, Timer)
      /\ q.bsy = TRUE /\ q.left = DiagTime /\ q.param = "pdiag"
  <2>1. DiagTime \in Nat \cup {Never} /\ "pdiag" \in Params
    BY Times DEF Params
  <2> QED
    BY <2>1, StartBusy
<1> HIDE DEF q
<1>2. Agree(t, q, S) /\ q.device1 = x.device1 /\ q.drq = t.drq
  BY <1>1 DEF Agree, Fields, Timer
<1>3. S \cap {"command", "mixed", "want", "moved", "signals", "block"} = {}
  OBVIOUS
<1> HIDE DEF S
<1>4. Sound(q) /\ Placed(q)
  BY <1>1, <1>2, <1>3, BasicRuns, Times DEF Idle
<1> QED
  BY <1>1, <1>2, <1>4 DEF q, S

\* The timer's outcomes for the device r it belongs to, one of the devices D.
Diagnosing(r) ==
    r.param = "diagnostic" \/ (r.param = "command" /\ r.command = "diagnostic")

TickDetect(D, r, q) ==
    /\ r.param = "detect"
    /\ q.bsy /\ q.left = DiagTime /\ q.param = "diagnostic" /\ ~q.drq
    /\ q.single <=> ~daspin(D)
    /\ Agree(r, q, {"single", "drq", "err", "offset", "bsy", "left", "param"})

\* The interrupt of device 0 at the end of a diagnostic that was a command.
TickIrq(c, r, q) ==
    /\ ~(c = 0 /\ r.param = "command") => q.irq = r.irq /\ q.irqout = r.irqout
    /\ (c = 0 /\ r.param = "command") => q.irq

TickWait(c, D, r, q) ==
    /\ c = 0 /\ Diagnosing(r) /\ ~r.single /\ ~pdiagin(D)
    /\ q.bsy /\ q.left = DiagTime /\ q.param = "pdiag" /\ ~q.device1
    /\ Agree(r, q, {"bsy", "left", "param", "device1", "irq", "irqout"})
    /\ TickIrq(c, r, q)

TickEnd(c, D, r, q) ==
    /\ Diagnosing(r) \/ r.param = "pdiag"
    /\ ~q.bsy /\ q.left = Never /\ q.param = r.param
    /\ ~q.resetting /\ q.drv = 0
    /\ Agree(r, q, Ends \cup {"bsy", "left", "irq", "irqout"})
    /\ q.pdiag <=> (r.pdiag \/ (c = 1 /\ r.ident /\ r.param # "pdiag"))
    /\ q.device1 <=> r.param = "pdiag"
    /\ (c = 0 /\ r.param # "pdiag") => r.single \/ pdiagin(D)
    /\ TickIrq(c, r, q)

TickCommand(c, r, q) ==
    /\ r.param = "command" /\ r.command # "diagnostic"
    /\ Keeps(c, r, q)
    /\ q.param = "command"
    /\ IF q.bsy THEN q.left \in Times2 ELSE q.left = Never
    /\ r.command # "disablepw" => q.irq \/ q.drq \/ q.bsy

TickIdle(r, q) ==
    /\ r.param = "reset" /\ ~q.bsy /\ q.left = Never
    /\ Agree(r, q, {"bsy", "left"})

Ticked(c, D, r, q) ==
    /\ Sound(q) /\ (Placed(r) => Placed(q))
    /\ \/ TickDetect(D, r, q) \/ TickWait(c, D, r, q) \/ TickEnd(c, D, r, q)
       \/ TickCommand(c, r, q) \/ TickIdle(r, q)

\* And for the other device o.
Calls(c, D, o) ==
    /\ c = 1 /\ o = 0 /\ Diagnosing(D[1]) /\ D[1].ident /\ ~D[1].pdiag
    /\ D[0].param = "pdiag"

Spared(c, D, o, q) == IF Calls(c, D, o) THEN Woken(D[o], q) ELSE q = D[o]

\* The devices when the expired timer of c reaches finished_busy.
AtTick(D, c) == [D EXCEPT ![c].bsy = FALSE, ![c].left = Never]

\* The devices as the timer's handler finds them.
LEMMA AtTickEffect ==
    ASSUME NEW D, NEW c \in DOMAIN D, Sound(D[c])
    PROVE  LET T == AtTick(D, c)
           IN  /\ DOMAIN T = DOMAIN D /\ T[c] = Expired(D[c])
               /\ \A o \in DOMAIN D \ {c} : T[o] = D[o]
               /\ daspin(T) <=> daspin(D)
               /\ pdiagin(T) <=> pdiagin(D)
<1> DEFINE T == AtTick(D, c)
           t == Expired(D[c])
<1>1. T = [D EXCEPT ![c] = t]
  BY DEF AtTick, Expired
<1>2. t.dasp = D[c].dasp /\ t.pdiag = D[c].pdiag
  <2>1. D[c] \in Device
    BY DEF Sound
  <2>2. Agree(D[c], t, {"bsy", "left"})
    BY <2>1, ExpiredAgrees
  <2> QED
    BY <2>2 DEF Agree, Fields
<1> HIDE DEF t
<1>3. /\ DOMAIN T = DOMAIN D /\ T[c] = t
      /\ \A o \in DOMAIN D \ {c} : T[o] = D[o]
  BY <1>1
<1> HIDE DEF T
<1>4. daspin(T) <=> daspin(D)
  BY <1>2, <1>3 DEF daspin
<1>5. pdiagin(T) <=> pdiagin(D)
  BY <1>2, <1>3 DEF pdiagin
<1> QED
  BY <1>3, <1>4, <1>5 DEF T, t

\* Writing the diagnostic's code keeps the other fields.
LEMMA Device1Update ==
    ASSUME NEW r \in Device, NEW v \in BOOLEAN
    PROVE  LET x == [r EXCEPT !.device1 = v]
           IN  x \in Device /\ Agree(r, x, {"device1"}) /\ x.device1 = v
BY DEF Device, Agree, Fields

\* Driving PDIAG keeps the other fields.
LEMMA PdiagUpdate ==
    ASSUME NEW r \in Device, NEW v \in BOOLEAN
    PROVE  LET x == [r EXCEPT !.pdiag = v]
           IN  x \in Device /\ Agree(r, x, {"pdiag"}) /\ x.pdiag = v
BY DEF Device, Agree, Fields

\* Learning about device 1 keeps the other fields.
LEMMA SingleUpdate ==
    ASSUME NEW r \in Device, NEW v \in BOOLEAN
    PROVE  LET x == [r EXCEPT !.single = v]
           IN  x \in Device /\ Agree(r, x, {"single"}) /\ x.single = v
BY DEF Device, Agree, Fields

TickResult(D, c, R) ==
    /\ DOMAIN R = DOMAIN D
    /\ Ticked(c, D, D[c], R[c])
    /\ \A o \in DOMAIN D \ {c} : Spared(c, D, o, R[o])

\* The end of DASP's time: device 0 now knows whether it is alone.
LEMMA DetectTick ==
    ASSUME NEW D, NEW c \in DOMAIN D, NEW ok, Sound(D[c]), D[c].left = 0,
           D[c].param = "detect"
    PROVE  TickResult(D, c, finished_busy(AtTick(D, c), c, ok))
<1> DEFINE T == AtTick(D, c)
           r == D[c]
           t == Expired(r)
           v == ~daspin(T)
           x == [t EXCEPT !.single = v]
           q == soft_reset(x)
           R == finished_busy(T, c, ok)
<1>1. /\ DOMAIN T = DOMAIN D /\ T[c] = t /\ \A o \in DOMAIN D \ {c} : T[o] = D[o]
      /\ daspin(T) <=> daspin(D)
  BY AtTickEffect
<1>2. Idle(t) /\ Agree(r, t, {"bsy", "left"})
  BY ExpiredEffect
<1> HIDE DEF t, T
<1>3. T[c].param = "detect"
  BY <1>1, <1>2 DEF Agree, Fields
<1>4. R = [T EXCEPT ![c] = q]
  BY <1>1, <1>3 DEF finished_busy
<1>5. t \in Device /\ v \in BOOLEAN
  BY <1>2 DEF Idle, Basic
<1> HIDE DEF v
<1>6. x \in Device /\ Agree(t, x, {"single"}) /\ x.single = v
  BY <1>5, SingleUpdate
<1> HIDE DEF x
<1>7. Basic(x)
  BY <1>2, <1>6 DEF Idle, Basic, Totals, Agree, Fields
<1>8. /\ Sound(q) /\ Placed(q)
      /\ Agree(x, q, {"drq", "err", "offset", "bsy", "left", "param"})
      /\ q.bsy /\ ~q.drq /\ q.left = DiagTime /\ q.param = "diagnostic"
  BY <1>7, SoftResetEffect
<1> HIDE DEF q
<1>9. Agree(r, q, {"single", "drq", "err", "offset", "bsy", "left", "param"})
      /\ q.single = v
  BY <1>2, <1>6, <1>8 DEF Agree, Fields
<1>10. TickDetect(D, r, q)
  BY <1>1, <1>8, <1>9 DEF TickDetect, v
<1>11. DOMAIN R = DOMAIN D /\ R[c] = q /\ \A o \in DOMAIN D \ {c} : R[o] = D[o]
  BY <1>1, <1>4
<1> HIDE DEF R
<1>12. TickResult(D, c, R)
  BY <1>8, <1>10, <1>11 DEF TickResult, Ticked, Spared, Calls, Diagnosing
<1> QED
  BY <1>12 DEF R, T

\* Nobody answered on PDIAG in time: device 1 failed.
LEMMA PdiagTick ==
    ASSUME NEW D, NEW c \in DOMAIN D, NEW ok, Sound(D[c]), D[c].left = 0,
           D[c].param = "pdiag"
    PROVE  TickResult(D, c, finished_busy(AtTick(D, c), c, ok))
<1> DEFINE T == AtTick(D, c)
           r == D[c]
           t == Expired(r)
           x == [t EXCEPT !.device1 = TRUE]
           q == finished_diagnostic(x)
           R == finished_busy(T, c, ok)
<1>1. /\ DOMAIN T = DOMAIN D /\ T[c] = t /\ \A o \in DOMAIN D \ {c} : T[o] = D[o]
  BY AtTickEffect
<1>2. Idle(t) /\ Agree(r, t, {"bsy", "left"})
  BY ExpiredEffect
<1> HIDE DEF t, T
<1>3. T[c].param = "pdiag"
  BY <1>1, <1>2 DEF Agree, Fields
<1>4. R = [T EXCEPT ![c] = q]
  BY <1>1, <1>3 DEF finished_busy
<1>5. t \in Device
  BY <1>2 DEF Idle, Basic
<1>6. x \in Device /\ Agree(t, x, {"device1"}) /\ x.device1 = TRUE
  BY <1>5, Device1Update
<1> HIDE DEF x
<1>7. Agree(t, x, {"device1", "pdiag"}) /\ x.pdiag = t.pdiag
  BY <1>6 DEF Agree, Fields
<1>8. /\ Sound(q) /\ Placed(q) /\ Agree(t, q, Ends)
      /\ ~q.resetting /\ q.drv = 0
      /\ q.device1 = x.device1 /\ q.pdiag = x.pdiag
  BY <1>2, <1>6, <1>7, DiagnosisEnds
<1> HIDE DEF q
<1>9. /\ Agree(r, q, Ends \cup {"bsy", "left", "irq", "irqout"})
      /\ q.pdiag = r.pdiag /\ q.irq = r.irq /\ q.irqout = r.irqout
      /\ q.bsy = t.bsy /\ q.left = t.left /\ q.param = r.param
  BY <1>2, <1>7, <1>8 DEF Agree, Fields, Ends
<1>10. TickEnd(c, D, r, q)
  BY <1>2, <1>6, <1>8, <1>9 DEF TickEnd, TickIrq, Idle
<1>11. DOMAIN R = DOMAIN D /\ R[c] = q /\ \A o \in DOMAIN D \ {c} : R[o] = D[o]
  BY <1>1, <1>4
<1> HIDE DEF R
<1>12. TickResult(D, c, R)
  BY <1>8, <1>10, <1>11 DEF TickResult, Ticked, Spared, Calls, Diagnosing
<1> QED
  BY <1>12 DEF R, T

\* PARAM_RESET does nothing.
LEMMA ResetTick ==
    ASSUME NEW D, NEW c \in DOMAIN D, NEW ok, Sound(D[c]), D[c].left = 0,
           D[c].param = "reset"
    PROVE  TickResult(D, c, finished_busy(AtTick(D, c), c, ok))
<1> DEFINE T == AtTick(D, c)
           r == D[c]
           t == Expired(r)
           R == finished_busy(T, c, ok)
<1>1. /\ DOMAIN T = DOMAIN D /\ T[c] = t /\ \A o \in DOMAIN D \ {c} : T[o] = D[o]
  BY AtTickEffect
<1>2. Idle(t) /\ Resting(t) /\ Agree(r, t, {"bsy", "left"})
  BY ExpiredEffect
<1> HIDE DEF t, T
<1>3. T[c].param = "reset"
  BY <1>1, <1>2 DEF Agree, Fields
<1>4. R = T
  BY <1>3 DEF finished_busy
<1>5. Sound(t) /\ Placed(t)
  BY <1>2, RestingSound
<1>6. TickIdle(r, t)
  BY <1>2 DEF TickIdle, Idle
<1> HIDE DEF R
<1>7. TickResult(D, c, R)
  BY <1>1, <1>4, <1>5, <1>6 DEF TickResult, Ticked, Spared, Calls, Diagnosing
<1> QED
  BY <1>7 DEF R, T

\* The time of a command other than the diagnostic is over.
LEMMA CommandTick ==
    ASSUME NEW D, NEW c \in DOMAIN D, NEW ok, Sound(D[c]), D[c].left = 0,
           D[c].param = "command", D[c].command # "diagnostic"
    PROVE  TickResult(D, c, finished_busy(AtTick(D, c), c, ok))
<1> DEFINE T == AtTick(D, c)
           r == D[c]
           t == Expired(r)
           q == CommandEnd(c, t, ok)
           R == finished_busy(T, c, ok)
<1>1. /\ DOMAIN T = DOMAIN D /\ T[c] = t /\ \A o \in DOMAIN D \ {c} : T[o] = D[o]
  BY AtTickEffect
<1>2. /\ Idle(t) /\ Resting(t) /\ Agree(r, t, {"bsy", "left"})
      /\ t.offset = 0
      /\ t.command \in DataCmds \cup TimedCmds \cup {"disablepw"}
      /\ t.command \in DataCmds => Ahead(t, 0) /\ (Placed(r) => Spot(t))
  BY ExpiredEffect
<1> HIDE DEF t, T
<1>3. T[c].param = "command" /\ T[c].command = r.command
  BY <1>1, <1>2 DEF Agree, Fields
<1>4. R = [T EXCEPT ![c] = q]
  BY <1>1, <1>3 DEF finished_busy, finished_command
<1>5. /\ Sound(q) /\ Keeps(c, t, q) /\ TimerKept(t, q)
      /\ Spot(t) => Placed(q)
      /\ t.command \notin {"disablepw", "diagnostic"} => q.irq \/ q.drq \/ q.bsy
  BY <1>2, CommandEndEffect
<1>6. q.command = t.command
  BY <1>5 DEF Keeps, Fixed
<1> HIDE DEF q
<1>7. Keeps(c, r, q)
  <2>1. {"bsy", "left"} \cap (Fixed \cup {"device1", "irq", "irqout"}) = {}
    BY DEF Fixed
  <2>2. Keeps(c, r, t)
    BY <1>2, <2>1, AgreeKeeps
  <2> QED
    BY <1>5, <2>2, KeepsTrans
<1>8. Placed(r) => Placed(q)
  <2>1. CASE t.command \in DataCmds
    BY <1>2, <1>5, <2>1
  <2>2. CASE t.command \notin DataCmds
    BY <1>6, <2>2 DEF Placed
  <2> QED
    BY <2>1, <2>2
<1>9. t.param = "command" /\ ~t.bsy /\ t.left = Never
  BY <1>1, <1>2, <1>3 DEF Idle
<1>10. q.param = "command" /\ (IF q.bsy THEN q.left \in Times2 ELSE q.left = Never)
  BY <1>5, <1>9 DEF TimerKept
<1>11. TickCommand(c, r, q)
  BY <1>1, <1>3, <1>5, <1>7, <1>10 DEF TickCommand
<1>12. DOMAIN R = DOMAIN D /\ R[c] = q /\ \A o \in DOMAIN D \ {c} : R[o] = D[o]
  BY <1>1, <1>4
<1> HIDE DEF R
<1>13. TickResult(D, c, R)
  BY <1>5, <1>8, <1>11, <1>12 DEF TickResult, Ticked, Spared, Calls, Diagnosing
<1> QED
  BY <1>13 DEF R, T

\* The interrupt at the end of a diagnostic keeps the invariant.
LEMMA IrqSound ==
    ASSUME NEW c, NEW r, Sound(r)
    PROVE  LET q == set_irq(c, r, TRUE)
           IN  /\ Sound(q) /\ Agree(r, q, Irqs) /\ q.irq = TRUE
               /\ Placed(r) => Placed(q)
<1> DEFINE q == set_irq(c, r, TRUE)
<1>1. q \in Device /\ Agree(r, q, Irqs) /\ q.irq = TRUE
  BY SetIrq DEF Sound
<1>2. Irqs \cap Looks = {} /\ Irqs \cap {"lba", "base"} = {}
  BY DEF Irqs, Looks
<1> HIDE DEF q
<1>3. Sound(q) /\ (Placed(r) => Placed(q))
  BY <1>1, <1>2, SoundAgree
<1> QED
  BY <1>1, <1>3 DEF q

\* start_diagnostic for device 0.
LEMMA Diagnosis0 ==
    ASSUME NEW D, 0 \in DOMAIN D, Sound(D[0]), D[0].left = 0, Diagnosing(D[0])
    PROVE  LET R == start_diagnostic(AtTick(D, 0), 0)
           IN  /\ DOMAIN R = DOMAIN D
               /\ \A o \in DOMAIN D \ {0} : R[o] = D[o]
               /\ R[0].irq = D[0].irq /\ R[0].irqout = D[0].irqout
               /\ Sound(R[0]) /\ Placed(R[0])
               /\ \A p : (Sound(p) /\ Agree(R[0], p, Irqs) /\ TickIrq(0, D[0], p)) =>
                     TickWait(0, D, D[0], p) \/ TickEnd(0, D, D[0], p)
<1> DEFINE T == AtTick(D, 0)
           r == D[0]
           t == Expired(r)
           x == [t EXCEPT !.device1 = FALSE]
           wait == ~t.single /\ ~pdiagin(T)
           w == start_busy(x, DiagTime, "pdiag")
           f == finished_diagnostic(x)
           R == start_diagnostic(T, 0)
<1>1. /\ DOMAIN T = DOMAIN D /\ T[0] = t /\ \A o \in DOMAIN D \ {0} : T[o] = D[o]
      /\ pdiagin(T) <=> pdiagin(D)
  BY AtTickEffect
<1>2. Idle(t) /\ Agree(r, t, {"bsy", "left"})
  BY ExpiredEffect
<1>3. t \in Device
  BY <1>2 DEF Idle, Basic
<1> HIDE DEF t, T
<1>4. /\ DOMAIN R = DOMAIN T /\ \A o \in DOMAIN T \ {0} : R[o] = T[o]
      /\ R[0] = IF wait THEN w ELSE f
  BY <1>1, <1>3, StartDiagnostic0
<1> HIDE DEF R
<1>5. x \in Device /\ Agree(t, x, {"device1"}) /\ x.device1 = FALSE
  BY <1>3, Device1Update
<1> HIDE DEF x
<1>6. Agree(t, x, {"device1", "pdiag"}) /\ x.pdiag = t.pdiag
  BY <1>5 DEF Agree, Fields
<1>7. /\ Sound(f) /\ Placed(f) /\ Agree(t, f, Ends)
      /\ ~f.resetting /\ f.drv = 0
      /\ f.device1 = x.device1 /\ f.pdiag = x.pdiag
  BY <1>2, <1>5, <1>6, DiagnosisEnds
<1>8. /\ Sound(w) /\ Placed(w)
      /\ Agree(t, w, {"bsy", "left", "param", "device1"})
      /\ w.bsy /\ w.left = DiagTime /\ w.param = "pdiag"
      /\ w.device1 = x.device1
  BY <1>2, <1>5, DiagnosisWaits
<1> HIDE DEF f, w
<1>9. /\ t.single = r.single /\ t.pdiag = r.pdiag /\ t.param = r.param
      /\ t.irq = r.irq /\ t.irqout = r.irqout
  BY <1>2 DEF Agree, Fields
<1>10. R[0].irq = r.irq /\ R[0].irqout = r.irqout
  <2>1. w.irq = t.irq /\ w.irqout = t.irqout
    BY <1>8 DEF Agree, Fields
  <2>2. f.irq = t.irq /\ f.irqout = t.irqout
    BY <1>7 DEF Agree, Fields, Ends
  <2> QED
    BY <1>4, <1>9, <2>1, <2>2
<1>11. ASSUME wait, NEW p, Sound(p), Agree(R[0], p, Irqs), TickIrq(0, r, p)
       PROVE  TickWait(0, D, r, p)
  <2>1. Agree(w, p, Irqs)
    BY <1>4, <1>11
  <2>2. /\ Agree(r, p, {"bsy", "left", "param", "device1", "irq", "irqout"})
        /\ p.bsy = w.bsy /\ p.left = w.left /\ p.param = w.param
        /\ p.device1 = w.device1
    BY <1>2, <1>8, <2>1 DEF Agree, Fields, Irqs
  <2>3. ~r.single /\ ~pdiagin(D)
    BY <1>1, <1>9, <1>11
  <2> QED
    BY <1>5, <1>8, <1>11, <2>2, <2>3 DEF TickWait
<1>12. ASSUME ~wait, NEW p, Sound(p), Agree(R[0], p, Irqs), TickIrq(0, r, p)
       PROVE  TickEnd(0, D, r, p)
  <2>1. Agree(f, p, Irqs)
    BY <1>4, <1>12
  <2>2. /\ Agree(r, p, Ends \cup {"bsy", "left", "irq", "irqout"})
        /\ p.bsy = t.bsy /\ p.left = t.left /\ p.param = t.param
        /\ p.device1 = f.device1 /\ p.pdiag = f.pdiag
        /\ p.resetting = f.resetting /\ p.drv = f.drv
    BY <1>2, <1>7, <2>1 DEF Agree, Fields, Irqs, Ends
  <2>3. r.single \/ pdiagin(D)
    BY <1>1, <1>9, <1>12
  <2>4. r.param # "pdiag"
    BY DEF Diagnosing
  <2>5. p.pdiag = r.pdiag /\ p.device1 = FALSE
    BY <1>5, <1>6, <1>7, <1>9, <2>2
  <2> QED
    BY <1>2, <1>7, <1>9, <1>12, <2>2, <2>3, <2>4, <2>5 DEF TickEnd, Idle
<1>13. Sound(R[0]) /\ Placed(R[0])
  BY <1>4, <1>7, <1>8
<1> QED
  BY <1>1, <1>4, <1>10, <1>11, <1>12, <1>13 DEF R, T

\* The time of a diagnostic of device 0 is over.
LEMMA DiagnosisTick0 ==
    ASSUME NEW D, NEW ok, 0 \in DOMAIN D, Sound(D[0]), D[0].left = 0,
           Diagnosing(D[0])
    PROVE  TickResult(D, 0, finished_busy(AtTick(D, 0), 0, ok))
<1> DEFINE T == AtTick(D, 0)
           r == D[0]
           E == start_diagnostic(T, 0)
           i == set_irq(0, E[0], TRUE)
           R == finished_busy(T, 0, ok)
<1>1. T[0] = Expired(r)
  BY AtTickEffect
<1>2. Agree(r, Expired(r), {"bsy", "left"})
  BY ExpiredEffect
<1>3. T[0].param = r.param /\ T[0].command = r.command
  BY <1>1, <1>2 DEF Agree, Fields
<1>4. /\ DOMAIN E = DOMAIN D
      /\ \A o \in DOMAIN D \ {0} : E[o] = D[o]
      /\ E[0].irq = r.irq /\ E[0].irqout = r.irqout
      /\ Sound(E[0]) /\ Placed(E[0])
      /\ \A p : (Sound(p) /\ Agree(E[0], p, Irqs) /\ TickIrq(0, r, p)) =>
                     TickWait(0, D, r, p) \/ TickEnd(0, D, r, p)
  BY Diagnosis0
<1>5. R = IF r.param = "diagnostic" THEN E ELSE [E EXCEPT ![0] = i]
  <2>1. CASE r.param = "diagnostic"
    BY <1>3, <2>1 DEF finished_busy
  <2>2. CASE r.param # "diagnostic"
    <3>1. T[0].param = "command" /\ T[0].command = "diagnostic"
      BY <1>3, <2>2 DEF Diagnosing
    <3> QED
      BY <2>2, <3>1 DEF finished_busy, finished_command
  <2> QED
    BY <2>1, <2>2
<1> HIDE DEF E, R, T
<1>6. Sound(i) /\ Agree(E[0], i, Irqs) /\ i.irq = TRUE /\ (Placed(E[0]) => Placed(i))
  BY <1>4, IrqSound
<1> HIDE DEF i
<1>7. CASE r.param = "diagnostic"
  <2>1. TickIrq(0, r, E[0]) /\ Agree(E[0], E[0], Irqs)
    BY <1>4, <1>7 DEF TickIrq, Agree
  <2>2. TickWait(0, D, r, E[0]) \/ TickEnd(0, D, r, E[0])
    BY <1>4, <2>1
  <2> QED
    BY <1>4, <1>5, <1>7, <2>2 DEF TickResult, Ticked, Spared, Calls, R, T
<1>8. CASE r.param # "diagnostic"
  <2>1. TickIrq(0, r, i)
    BY <1>6, <1>8 DEF TickIrq, Diagnosing
  <2>2. TickWait(0, D, r, i) \/ TickEnd(0, D, r, i)
    BY <1>4, <1>6, <2>1
  <2>3. DOMAIN R = DOMAIN D /\ R[0] = i /\ \A o \in DOMAIN D \ {0} : R[o] = D[o]
    BY <1>4, <1>5, <1>8
  <2>4. TickResult(D, 0, R)
    BY <1>4, <1>6, <2>2, <2>3 DEF TickResult, Ticked, Spared, Calls
  <2> QED
    BY <2>4 DEF R, T
<1> QED
  BY <1>7, <1>8

\* start_diagnostic for device 1, which may wake device 0.
LEMMA DiagnosisTick1 ==
    ASSUME NEW D, NEW ok, 1 \in DOMAIN D, DOMAIN D \subseteq {0, 1},
           \A c \in DOMAIN D : Sound(D[c]), D[1].left = 0, Diagnosing(D[1])
    PROVE  TickResult(D, 1, finished_busy(AtTick(D, 1), 1, ok))
<1> DEFINE T == AtTick(D, 1)
           r == D[1]
           t == Expired(r)
           x == [t EXCEPT !.device1 = FALSE]
           p == [x EXCEPT !.pdiag = TRUE]
           call == t.ident /\ ~t.pdiag
           y == IF call THEN p ELSE x
           f == finished_diagnostic(y)
           R == finished_busy(T, 1, ok)
<1>1. /\ DOMAIN T = DOMAIN D /\ T[1] = t /\ \A o \in DOMAIN D \ {1} : T[o] = D[o]
  BY AtTickEffect
<1>2. Idle(t) /\ Agree(r, t, {"bsy", "left"})
  BY ExpiredEffect
<1>3. t \in Device
  BY <1>2 DEF Idle, Basic
<1> HIDE DEF t, T
<1>4. /\ t.ident = r.ident /\ t.pdiag = r.pdiag /\ t.param = r.param
      /\ t.irq = r.irq /\ t.irqout = r.irqout /\ t.command = r.command
  BY <1>2 DEF Agree, Fields
<1>5. R = start_diagnostic(T, 1)
  BY <1>1, <1>4 DEF finished_busy, finished_command, Diagnosing
<1> HIDE DEF R
<1>6. /\ DOMAIN R = DOMAIN T
      /\ \A o \in DOMAIN T \ {1} : R[o] = IF call THEN set_pdiag_in(T[o]) ELSE T[o]
      /\ R[1] = f
  <2> DEFINE e1 == [T[1] EXCEPT !.device1 = FALSE]
             p1 == [e1 EXCEPT !.pdiag = TRUE]
             call1 == T[1].ident /\ ~T[1].pdiag
  <2>1. 1 \in DOMAIN T /\ T[1] \in Device
    BY <1>1, <1>3
  <2>2. /\ DOMAIN R = DOMAIN T
        /\ \A o \in DOMAIN T \ {1} : R[o] = IF call1 THEN set_pdiag_in(T[o]) ELSE T[o]
        /\ R[1] = finished_diagnostic(IF call1 THEN p1 ELSE e1)
    BY <1>5, <2>1, StartDiagnostic1
  <2>3. T[1] = t
    BY <1>1
  <2> QED
    BY <2>2, <2>3
<1>7. x \in Device /\ Agree(t, x, {"device1"}) /\ x.device1 = FALSE
  BY <1>3, Device1Update
<1> HIDE DEF x
<1>8. p \in Device /\ Agree(x, p, {"pdiag"}) /\ p.pdiag = TRUE
  BY <1>7, PdiagUpdate
<1> HIDE DEF p
<1>9. /\ y \in Device /\ Agree(t, y, {"device1", "pdiag"})
      /\ y.device1 = FALSE /\ (y.pdiag <=> (t.pdiag \/ t.ident))
  <2>1. Agree(t, p, {"device1", "pdiag"}) /\ p.device1 = x.device1
    BY <1>7, <1>8 DEF Agree, Fields
  <2>2. Agree(t, x, {"device1", "pdiag"}) /\ x.pdiag = t.pdiag
    BY <1>7 DEF Agree, Fields
  <2> QED
    BY <1>7, <1>8, <2>1, <2>2
<1> HIDE DEF y
<1>10. /\ Sound(f) /\ Placed(f) /\ Agree(t, f, Ends)
       /\ ~f.resetting /\ f.drv = 0
       /\ f.device1 = y.device1 /\ f.pdiag = y.pdiag
  BY <1>2, <1>9, DiagnosisEnds
<1> HIDE DEF f
<1>11. TickEnd(1, D, r, f)
  <2>1. /\ Agree(r, f, Ends \cup {"bsy", "left", "irq", "irqout"})
        /\ f.irq = r.irq /\ f.irqout = r.irqout
        /\ f.bsy = t.bsy /\ f.left = t.left /\ f.param = t.param
    BY <1>2, <1>4, <1>10 DEF Agree, Fields, Ends
  <2>2. r.param # "pdiag"
    BY DEF Diagnosing
  <2>3. f.pdiag <=> (r.pdiag \/ r.ident)
    BY <1>4, <1>9, <1>10
  <2> QED
    BY <1>2, <1>4, <1>9, <1>10, <2>1, <2>2, <2>3 DEF TickEnd, TickIrq, Idle
<1>12. ASSUME NEW o \in DOMAIN D \ {1} PROVE Spared(1, D, o, R[o])
  <2>1. o = 0 /\ Sound(D[o]) /\ T[o] = D[o]
    BY <1>1
  <2>2. R[o] = IF call THEN set_pdiag_in(D[o]) ELSE D[o]
    BY <1>1, <1>6, <2>1
  <2>3. IF D[o].param = "pdiag" THEN Woken(D[o], set_pdiag_in(D[o]))
                                ELSE set_pdiag_in(D[o]) = D[o]
    BY <2>1, PdiagInEffect
  <2> QED
    BY <1>4, <2>1, <2>2, <2>3 DEF Spared, Calls
<1>13. TickResult(D, 1, R)
  BY <1>1, <1>6, <1>10, <1>11, <1>12 DEF TickResult, Ticked
<1> QED
  BY <1>13 DEF R, T

\* Every expiry has one of the outcomes of Ticked, and Spared for the other
\* device.
LEMMA TickEffect ==
    ASSUME NEW D, NEW c \in DOMAIN D, NEW ok, DOMAIN D \subseteq {0, 1},
           \A o \in DOMAIN D : Sound(D[o]), D[c].left = 0
    PROVE  TickResult(D, c, finished_busy(AtTick(D, c), c, ok))
<1>1. Sound(D[c]) /\ c \in {0, 1}
  OBVIOUS
<1>2. D[c].param \in Params
  BY <1>1, DeviceTypes DEF Sound
<1>3. CASE D[c].param = "detect"
  BY <1>1, <1>3, DetectTick
<1>4. CASE D[c].param = "pdiag"
  BY <1>1, <1>4, PdiagTick
<1>5. CASE D[c].param = "reset"
  BY <1>1, <1>5, ResetTick
<1>6. CASE D[c].param = "command" /\ D[c].command # "diagnostic"
  BY <1>1, <1>6, CommandTick
<1>7. CASE Diagnosing(D[c])
  <2>1. CASE c = 0
    BY <1>1, <1>7, <2>1, DiagnosisTick0
  <2>2. CASE c = 1
    BY <1>7, <2>2, DiagnosisTick1
  <2> QED
    BY <1>1, <2>1, <2>2
<1> QED
  BY <1>2, <1>3, <1>4, <1>5, <1>6, <1>7 DEF Params, Diagnosing

-----------------------------------------------------------------------------
(* What each action does to a device r, which becomes q *)

CommandDone(c, r, q, cmd) ==
    /\ Kept(r, q)
    /\ \A f \in Fixed \ {"command"} : q[f] = r[f]
    /\ q.device1 => r.device1
    /\ Linked(c, r, q)
    /\ \/ TimerWritten(r, q) /\ q.command = r.command /\ (q.bsy => q = r)
       \/ /\ r.drv = c \/ r.command = "diagnostic"
          /\ q.command = cmd
          /\ ~r.bsy \/ r.drq
          /\ \/ ~q.bsy /\ TimerWritten(r, q)
             \/ q.bsy /\ q.left \in Times2 /\ q.param = "command"

DataDone(c, r, q) ==
    \/ q = r
    \/ /\ Kept(r, q) /\ InDataPhase(c, r) /\ Keeps(c, r, q) /\ TimerKept(r, q)

StatusDone(c, r, q) ==
    \/ q = r
    \/ Kept(r, q) /\ ~r.bsy /\ Agree(r, q, Irqs) /\ Keeps(c, r, q)

ControlDone(c, r, q, srst) ==
    /\ Kept(r, q) /\ q.srst = srst
    /\ \A f \in {"drv", "single", "ident", "resetting", "command", "device1"} :
         q[f] = r[f]
    /\ Linked(c, r, q)
    /\ IF srst /\ ~r.srst /\ ~r.resetting THEN SrstRisen(q)
       ELSE IF ~srst /\ r.srst /\ r.param = "reset" THEN SrstFallen(r, q)
       ELSE SrstKept(r, q)

TimeDone(r, q) ==
    /\ Kept(r, q) /\ Agree(r, q, {"left"})
    /\ q.left = IF r.left > 0 THEN r.left - 1 ELSE r.left

ResetDone(c, r, q) ==
    /\ Kept(r, q) /\ Placed(q)
    /\ q.bsy /\ q.left = DiagTime /\ q.resetting /\ ~q.irq /\ ~q.pdiag
    /\ ~q.srst /\ ~q.drq
    /\ c = 0 => q.param = "detect"
    /\ c = 1 => q.param = "diagnostic" /\ q.dasp
    /\ q.drv = r.drv /\ q.single = r.single
    /\ q.command = r.command /\ q.device1 = r.device1
    /\ Honest(r) => Wired(c, q) /\ Honest(q)

Effect ==
    \/ dev' = dev /\ UNCHANGED <<early, diagnosed>>
    \/ /\ HostWrites /\ UNCHANGED <<early, diagnosed>>
       /\ \A c \in DOMAIN dev : Written(c, dev[c], dev'[c])
    \/ /\ HostWrites /\ UNCHANGED <<early, diagnosed>>
       /\ \E drv \in {0, 1} : \A c \in DOMAIN dev : HeadDone(c, dev[c], dev'[c], drv)
    \/ /\ HostWrites /\ UNCHANGED early
       /\ \E cmd \in AllCmds :
            /\ diagnosed' = (diagnosed \/ cmd = "diagnostic")
            /\ \A c \in DOMAIN dev : CommandDone(c, dev[c], dev'[c], cmd)
    \/ /\ HostRuns /\ UNCHANGED <<early, diagnosed>>
       /\ \A c \in DOMAIN dev : DataDone(c, dev[c], dev'[c])
    \/ /\ HostRuns /\ UNCHANGED <<early, diagnosed>>
       /\ \A c \in DOMAIN dev : StatusDone(c, dev[c], dev'[c])
    \/ /\ HostRuns /\ UNCHANGED diagnosed
       /\ \E srst \in BOOLEAN :
            /\ early' = (early \/ (srst /\ \E c \in DOMAIN dev : dev[c].resetting))
            /\ \A c \in DOMAIN dev : ControlDone(c, dev[c], dev'[c], srst)
    \/ /\ HostRuns /\ UNCHANGED <<early, diagnosed>>
       /\ \A c \in DOMAIN dev : TimeDone(dev[c], dev'[c])
    \/ /\ UNCHANGED <<early, diagnosed>>
       /\ \E c \in DOMAIN dev : dev[c].left = 0 /\ TickResult(dev, c, dev')
    \/ /\ HostRuns /\ UNCHANGED diagnosed /\ early' = FALSE
       /\ \A c \in DOMAIN dev : ResetDone(c, dev[c], dev'[c])

\* The inductive invariant of a disk on its own.
AtaInv ==
    /\ host \in Hosts /\ DOMAIN dev = host.slots
    /\ resets \in 0..host.resets /\ early \in BOOLEAN /\ diagnosed \in BOOLEAN
    /\ \A c \in DOMAIN dev : Sound(dev[c])

\* What the assumption on the constants says about the host.
LEMMA HostFacts ==
    ASSUME AtaInv
    PROVE  /\ host \in HostType /\ DOMAIN dev \subseteq {0, 1}
           /\ host.slots \subseteq {0, 1}
           /\ host.commands \subseteq AllCmds
           /\ host.counts \subseteq 0..(MaxSectors - 1)
           /\ host.addresses \subseteq 0..(AddrSpace - 1)
           /\ host.controls \subseteq [srst : BOOLEAN, nien : BOOLEAN]
           /\ host.patient \in BOOLEAN /\ host.resets \in Nat
<1>1. host \in HostType
  BY AtaAssumption DEF AtaInv
<1> QED
  BY <1>1 DEF HostType, AtaInv

\* A machine reset of a device in any state the invariant allows.
LEMMA ResetEffect ==
    ASSUME NEW c \in {0, 1}, NEW r, NEW v \in BOOLEAN, Sound(r)
    PROVE  ResetDone(c, r, interface_post_reset(c, [r EXCEPT !.ident = v]))
<1> DEFINE x == [r EXCEPT !.ident = v]
           q == interface_post_reset(c, x)
<1>1. r \in Device
  BY DEF Sound
<1>2. x \in Device /\ Agree(r, x, {"ident"})
  BY <1>1 DEF Device, Agree, Fields
<1> HIDE DEF x
<1>3. /\ x.drv = r.drv /\ x.single = r.single /\ x.command = r.command
      /\ x.device1 = r.device1 /\ x.irq = r.irq /\ x.irqout = r.irqout
      /\ x.nien = r.nien /\ x.want = r.want /\ x.moved = r.moved
      /\ x.mixed = r.mixed /\ x.signals = r.signals /\ x.block = r.block
  BY <1>2 DEF Agree, Fields
<1>4. Basic(x)
  BY <1>2, <1>3 DEF Sound, Basic, Totals
<1>5. Honest(r) => Honest(x)
  BY <1>3 DEF Linked, Honest, Wired, Selected
<1>6. /\ Sound(q) /\ Placed(q)
      /\ q.bsy /\ q.left = DiagTime /\ q.resetting /\ ~q.irq /\ ~q.pdiag
      /\ ~q.srst /\ ~q.drq
      /\ c = 0 => q.param = "detect"
      /\ c = 1 => q.param = "diagnostic" /\ q.dasp
      /\ q.drv = x.drv /\ q.single = x.single
      /\ q.command = x.command /\ q.device1 = x.device1
      /\ Honest(x) => Wired(c, q) /\ Honest(q)
  BY <1>4, PostResetEffect
<1> HIDE DEF q
<1>7. ResetDone(c, r, q)
  BY <1>3, <1>5, <1>6 DEF ResetDone, Kept, Linked
<1> QED
  BY <1>7 DEF q, x

\* A device as its constructor leaves it.
LEMMA FreshBasic == ASSUME NEW v \in BOOLEAN PROVE Basic(Fresh(v))
<1>1. Fresh(v) \in Device
  BY AtaAssumption DEF Fresh, Device, AllCmds, Params
<1>2. Fresh(v).command \notin DataCmds
  BY DEF Fresh, DataCmds, ReadCmds, WriteCmds
<1>3. Fresh(v).signals <= Fresh(v).moved
  BY DEF Fresh
<1> QED
  BY <1>1, <1>2, <1>3 DEF Basic, Totals

\* The invariant holds after the power-on reset.
LEMMA AtaInit == Init => AtaInv
<1> SUFFICES ASSUME Init PROVE AtaInv
  OBVIOUS
<1>1. PICK id \in [host.slots -> BOOLEAN] :
        dev = [c \in host.slots |-> interface_post_reset(c, Fresh(id[c]))]
  BY DEF Init
<1>2. host \in Hosts /\ host \in HostType
  BY AtaAssumption DEF Init
<1>3. host.slots \subseteq {0, 1} /\ host.resets \in Nat
  BY <1>2 DEF HostType
<1>5. ASSUME NEW c \in host.slots PROVE Sound(dev[c])
  <2>1. c \in {0, 1} /\ Basic(Fresh(id[c]))
    BY <1>3, FreshBasic
  <2>2. Sound(interface_post_reset(c, Fresh(id[c])))
    BY <2>1, PostResetEffect
  <2> QED
    BY <1>1, <2>2
<1>6. DOMAIN dev = host.slots
  BY <1>1
<1>7. resets = 0 /\ early = FALSE /\ diagnosed = FALSE
  BY DEF Init
<1>8. resets \in 0..host.resets
  BY <1>3, <1>7
<1> QED
  BY <1>2, <1>5, <1>6, <1>7, <1>8 DEF AtaInv

\* Every step of the specification has one of the effects above.
LEMMA StepEffect ==
    ASSUME AtaInv, [Next]_vars
    PROVE  host' = host /\ DOMAIN dev' = DOMAIN dev /\ Effect
<1>1. ASSUME NEW n \in host.counts, WriteCount(n)
      PROVE  host' = host /\ DOMAIN dev' = DOMAIN dev /\ Effect
  <2> DEFINE W(c) == LET r == Aborted(dev[c])
                     IN  IF r.bsy THEN r ELSE [r EXCEPT !.count = n]
  <2>1. /\ dev' = [c \in DOMAIN dev |-> W(c)]
        /\ HostWrites /\ UNCHANGED <<host, early, diagnosed>>
    BY <1>1 DEF WriteCount
  <2>2. n \in 0..(MaxSectors - 1)
    BY HostFacts
  <2>3. ASSUME NEW c \in DOMAIN dev PROVE Written(c, dev[c], W(c))
    BY <2>2, WriteEffect DEF AtaInv
  <2> HIDE DEF W
  <2>4. \A c \in DOMAIN dev : Written(c, dev[c], dev'[c])
    BY <2>1, <2>3
  <2> QED
    BY <2>1, <2>4 DEF Effect
<1>2. ASSUME NEW a \in host.addresses, WriteAddress(a)
      PROVE  host' = host /\ DOMAIN dev' = DOMAIN dev /\ Effect
  <2> DEFINE W(c) == LET r == Aborted(dev[c])
                     IN  IF r.bsy THEN r ELSE [r EXCEPT !.lba = a]
  <2>1. /\ dev' = [c \in DOMAIN dev |-> W(c)]
        /\ HostWrites /\ UNCHANGED <<host, early, diagnosed>>
    BY <1>2 DEF WriteAddress
  <2>2. a \in 0..(AddrSpace - 1)
    BY HostFacts
  <2>3. ASSUME NEW c \in DOMAIN dev PROVE Written(c, dev[c], W(c))
    BY <2>2, WriteEffect DEF AtaInv
  <2> HIDE DEF W
  <2>4. \A c \in DOMAIN dev : Written(c, dev[c], dev'[c])
    BY <2>1, <2>3
  <2> QED
    BY <2>1, <2>4 DEF Effect
<1>3. ASSUME WriteFeature
      PROVE  host' = host /\ DOMAIN dev' = DOMAIN dev /\ Effect
  <2>1. /\ dev' = [c \in DOMAIN dev |-> Aborted(dev[c])]
        /\ HostWrites /\ UNCHANGED <<host, early, diagnosed>>
    BY <1>3 DEF WriteFeature
  <2>2. ASSUME NEW c \in DOMAIN dev PROVE Written(c, dev[c], Aborted(dev[c]))
    BY WriteEffect DEF AtaInv
  <2>3. \A c \in DOMAIN dev : Written(c, dev[c], dev'[c])
    BY <2>1, <2>2
  <2> QED
    BY <2>1, <2>3 DEF Effect
<1>4. ASSUME NEW drv \in {0, 1}, NEW same \in BOOLEAN, WriteHead(drv, same)
      PROVE  host' = host /\ DOMAIN dev' = DOMAIN dev /\ Effect
  <2>1. /\ dev' = [c \in DOMAIN dev |-> HeadWritten(c, dev[c], drv, same)]
        /\ HostWrites /\ UNCHANGED <<host, early, diagnosed>>
    BY <1>4 DEF WriteHead
  <2>2. ASSUME NEW c \in DOMAIN dev
        PROVE  HeadDone(c, dev[c], HeadWritten(c, dev[c], drv, same), drv)
    BY HeadEffect DEF AtaInv
  <2>3. \A c \in DOMAIN dev : HeadDone(c, dev[c], dev'[c], drv)
    BY <2>1, <2>2
  <2> QED
    BY <2>1, <2>3 DEF Effect
<1>5. ASSUME NEW cmd \in host.commands, WriteCommand(cmd)
      PROVE  host' = host /\ DOMAIN dev' = DOMAIN dev /\ Effect
  <2>1. /\ dev' = [c \in DOMAIN dev |-> CommandWritten(c, dev[c], cmd)]
        /\ HostWrites /\ UNCHANGED <<host, early>>
        /\ diagnosed' = (diagnosed \/ cmd = "diagnostic")
    BY <1>5 DEF WriteCommand
  <2>2. cmd \in AllCmds
    BY HostFacts
  <2>3. ASSUME NEW c \in DOMAIN dev
        PROVE  CommandDone(c, dev[c], CommandWritten(c, dev[c], cmd), cmd)
    BY <2>2, CommandWrittenEffect DEF AtaInv, CommandDone, Kept
  <2>4. \A c \in DOMAIN dev : CommandDone(c, dev[c], dev'[c], cmd)
    BY <2>1, <2>3
  <2> QED
    BY <2>1, <2>2, <2>4 DEF Effect
<1>6. ASSUME NEW ok \in BOOLEAN, WriteData(ok)
      PROVE  host' = host /\ DOMAIN dev' = DOMAIN dev /\ Effect
  <2> DEFINE W(c) == IF InDataPhase(c, dev[c]) THEN write_data(c, dev[c], ok)
                                               ELSE dev[c]
  <2>1. /\ dev' = [c \in DOMAIN dev |-> W(c)]
        /\ HostRuns /\ UNCHANGED <<host, early, diagnosed>>
    BY <1>6 DEF WriteData, HostWrites
  <2>2. ASSUME NEW c \in DOMAIN dev PROVE DataDone(c, dev[c], W(c))
    BY DataEffect DEF AtaInv, DataDone, InDataPhase, Kept
  <2> HIDE DEF W
  <2>3. \A c \in DOMAIN dev : DataDone(c, dev[c], dev'[c])
    BY <2>1, <2>2
  <2> QED
    BY <2>1, <2>3 DEF Effect
<1>7. ASSUME NEW ok \in BOOLEAN, ReadData(ok)
      PROVE  host' = host /\ DOMAIN dev' = DOMAIN dev /\ Effect
  <2> DEFINE W(c) == IF InDataPhase(c, dev[c]) THEN read_data(c, dev[c], ok)
                                               ELSE dev[c]
  <2>1. /\ dev' = [c \in DOMAIN dev |-> W(c)]
        /\ HostRuns /\ UNCHANGED <<host, early, diagnosed>>
    BY <1>7 DEF ReadData
  <2>2. ASSUME NEW c \in DOMAIN dev PROVE DataDone(c, dev[c], W(c))
    BY DataEffect DEF AtaInv, DataDone, InDataPhase, Kept
  <2> HIDE DEF W
  <2>3. \A c \in DOMAIN dev : DataDone(c, dev[c], dev'[c])
    BY <2>1, <2>2
  <2> QED
    BY <2>1, <2>3 DEF Effect
<1>8. ASSUME ReadStatus
      PROVE  host' = host /\ DOMAIN dev' = DOMAIN dev /\ Effect
  <2> DEFINE W(c) == IF Selected(c, dev[c]) /\ ~dev[c].bsy
                     THEN set_irq(c, dev[c], FALSE) ELSE dev[c]
  <2>1. /\ dev' = [c \in DOMAIN dev |-> W(c)]
        /\ HostRuns /\ UNCHANGED <<host, early, diagnosed>>
    BY <1>8 DEF ReadStatus
  <2>2. ASSUME NEW c \in DOMAIN dev PROVE StatusDone(c, dev[c], W(c))
    BY StatusEffect DEF AtaInv, StatusDone, Kept
  <2> HIDE DEF W
  <2>3. \A c \in DOMAIN dev : StatusDone(c, dev[c], dev'[c])
    BY <2>1, <2>2
  <2> QED
    BY <2>1, <2>3 DEF Effect
<1>9. ASSUME NEW v \in host.controls, WriteControl(v.srst, v.nien)
      PROVE  host' = host /\ DOMAIN dev' = DOMAIN dev /\ Effect
  <2>1. /\ dev' = [c \in DOMAIN dev |-> ControlWritten(c, dev[c], v.srst, v.nien)]
        /\ HostRuns /\ UNCHANGED <<host, diagnosed>>
        /\ early' = (early \/ (v.srst /\ \E c \in DOMAIN dev : dev[c].resetting))
    BY <1>9 DEF WriteControl
  <2>2. v.srst \in BOOLEAN /\ v.nien \in BOOLEAN
    BY HostFacts
  <2>3. ASSUME NEW c \in DOMAIN dev
        PROVE  ControlDone(c, dev[c], ControlWritten(c, dev[c], v.srst, v.nien), v.srst)
    <3> DEFINE r0 == dev[c]
               srst == v.srst
               nien == v.nien
               q == ControlWritten(c, r0, srst, nien)
    <3>1. Sound(r0) /\ srst \in BOOLEAN /\ nien \in BOOLEAN
      BY <2>2 DEF AtaInv
    <3> HIDE DEF r0, srst, nien
    <3>2. /\ Sound(q)
          /\ Placed(r0) => Placed(q)
          /\ q.srst = srst
          /\ \A f \in {"drv", "single", "ident", "resetting", "command", "device1"} :
               q[f] = r0[f]
          /\ Linked(c, r0, q)
          /\ IF srst /\ ~r0.srst /\ ~r0.resetting THEN SrstRisen(q)
             ELSE IF ~srst /\ r0.srst /\ r0.param = "reset" THEN SrstFallen(r0, q)
             ELSE SrstKept(r0, q)
      BY <3>1, ControlEffect
    <3> HIDE DEF q
    <3>3. ControlDone(c, r0, q, srst)
      BY <3>2 DEF ControlDone, Kept
    <3> QED
      BY <3>3 DEF q, r0, srst, nien
  <2>4. \A c \in DOMAIN dev : ControlDone(c, dev[c], dev'[c], v.srst)
    BY <2>1, <2>3
  <2> QED
    BY <2>1, <2>2, <2>4 DEF Effect
<1>10. ASSUME TimePasses
       PROVE  host' = host /\ DOMAIN dev' = DOMAIN dev /\ Effect
  <2> DEFINE W(c) == [dev[c] EXCEPT !.left = IF @ > 0 THEN @ - 1 ELSE @]
  <2>1. /\ dev' = [c \in DOMAIN dev |-> W(c)]
        /\ HostRuns /\ UNCHANGED <<host, early, diagnosed>>
    BY <1>10 DEF TimePasses
  <2>2. ASSUME NEW c \in DOMAIN dev PROVE TimeDone(dev[c], W(c))
    BY TimerEffect DEF AtaInv, TimeDone, Kept
  <2> HIDE DEF W
  <2>3. \A c \in DOMAIN dev : TimeDone(dev[c], dev'[c])
    BY <2>1, <2>2
  <2> QED
    BY <2>1, <2>3 DEF Effect
<1>11. ASSUME NEW c \in {0, 1}, NEW ok \in BOOLEAN, busy_tick(c, ok)
       PROVE  host' = host /\ DOMAIN dev' = DOMAIN dev /\ Effect
  <2>1. /\ dev' = finished_busy(AtTick(dev, c), c, ok) /\ c \in DOMAIN dev
        /\ dev[c].left = 0 /\ UNCHANGED <<host, early, diagnosed>>
    BY <1>11 DEF busy_tick, AtTick
  <2>2. TickResult(dev, c, finished_busy(AtTick(dev, c), c, ok))
    BY <2>1, HostFacts, TickEffect DEF AtaInv
  <2>3. TickResult(dev, c, dev')
    BY <2>1, <2>2
  <2>4. DOMAIN dev' = DOMAIN dev
    BY <2>3 DEF TickResult
  <2> QED
    BY <2>1, <2>3, <2>4 DEF Effect
<1>12. ASSUME NEW loaded \in SUBSET DOMAIN dev, MachineReset(loaded)
       PROVE  host' = host /\ DOMAIN dev' = DOMAIN dev /\ Effect
  <2> DEFINE W(c) == interface_post_reset(c, [dev[c] EXCEPT !.ident = @ \/ c \in loaded])
  <2>1. /\ dev' = [c \in DOMAIN dev |-> W(c)]
        /\ HostRuns /\ UNCHANGED <<host, diagnosed>> /\ early' = FALSE
    BY <1>12 DEF MachineReset
  <2>2. ASSUME NEW c \in DOMAIN dev PROVE ResetDone(c, dev[c], W(c))
    <3>1. c \in {0, 1} /\ Sound(dev[c])
      BY HostFacts DEF AtaInv
    <3>2. (dev[c].ident \/ c \in loaded) \in BOOLEAN
      OBVIOUS
    <3> QED
      BY <3>1, <3>2, ResetEffect
  <2> HIDE DEF W
  <2>3. \A c \in DOMAIN dev : ResetDone(c, dev[c], dev'[c])
    BY <2>1, <2>2
  <2> QED
    BY <2>1, <2>3 DEF Effect
<1>13. ASSUME UNCHANGED vars
       PROVE  host' = host /\ DOMAIN dev' = DOMAIN dev /\ Effect
  BY <1>13 DEF vars, Effect
<1> QED
  BY <1>1, <1>2, <1>3, <1>4, <1>5, <1>6, <1>7, <1>8, <1>9, <1>10, <1>11, <1>12,
     <1>13 DEF Next

-----------------------------------------------------------------------------
(* The invariant *)

\* The invariant of a device survives every effect.
LEMMA EffectSound ==
    ASSUME AtaInv, Effect, NEW c \in DOMAIN dev
    PROVE  Sound(dev'[c])
<1>0. Sound(dev[c])
  BY DEF AtaInv
<1>1. ASSUME Written(c, dev[c], dev'[c]) PROVE Sound(dev'[c])
  BY <1>1 DEF Written
<1>2. ASSUME NEW drv, HeadDone(c, dev[c], dev'[c], drv) PROVE Sound(dev'[c])
  BY <1>2 DEF HeadDone, Kept
<1>3. ASSUME NEW cmd, CommandDone(c, dev[c], dev'[c], cmd) PROVE Sound(dev'[c])
  BY <1>3 DEF CommandDone, Kept
<1>4. ASSUME DataDone(c, dev[c], dev'[c]) PROVE Sound(dev'[c])
  BY <1>0, <1>4 DEF DataDone, Kept
<1>5. ASSUME StatusDone(c, dev[c], dev'[c]) PROVE Sound(dev'[c])
  BY <1>0, <1>5 DEF StatusDone, Kept
<1>6. ASSUME NEW srst \in BOOLEAN, ControlDone(c, dev[c], dev'[c], srst)
      PROVE  Sound(dev'[c])
  BY <1>6 DEF ControlDone, Kept
<1>7. ASSUME TimeDone(dev[c], dev'[c]) PROVE Sound(dev'[c])
  BY <1>7 DEF TimeDone, Kept
<1>8. ASSUME NEW o \in DOMAIN dev, TickResult(dev, o, dev') PROVE Sound(dev'[c])
  <2>1. CASE c = o
    BY <1>8, <2>1 DEF TickResult, Ticked
  <2>2. CASE c # o
    BY <1>0, <1>8, <2>2 DEF TickResult, Spared, Woken
  <2> QED
    BY <2>1, <2>2
<1>9. ASSUME ResetDone(c, dev[c], dev'[c]) PROVE Sound(dev'[c])
  BY <1>9 DEF ResetDone, Kept
<1>10. CASE dev' = dev
  BY <1>0, <1>10
<1> QED
  BY <1>1, <1>2, <1>3, <1>4, <1>5, <1>6, <1>7, <1>8, <1>9, <1>10 DEF Effect

\* The invariant is inductive.
LEMMA AtaStep == AtaInv /\ [Next]_vars => AtaInv'
<1> SUFFICES ASSUME AtaInv, [Next]_vars PROVE AtaInv'
  OBVIOUS
<1>1. host' = host /\ DOMAIN dev' = DOMAIN dev /\ Effect
  BY StepEffect
<1>2. \A c \in DOMAIN dev' : Sound(dev'[c])
  BY <1>1, EffectSound
<1>3. early' \in BOOLEAN /\ diagnosed' \in BOOLEAN
  BY <1>1 DEF Effect, AtaInv
<1>4. resets' = resets \/ (resets < host.resets /\ resets' = resets + 1)
  BY DEF Next, vars, WriteCount, WriteAddress, WriteFeature, WriteHead, WriteCommand,
         WriteData, ReadData, ReadStatus, WriteControl, TimePasses, busy_tick,
         MachineReset
<1>5. resets \in 0..host.resets /\ host.resets \in Nat
  BY HostFacts DEF AtaInv
<1>6. resets' \in 0..host.resets
  BY <1>4, <1>5
<1> QED
  BY <1>1, <1>2, <1>3, <1>6 DEF AtaInv

\* The invariant of a disk on its own holds in every reachable state.
LEMMA AtaInvariant == Spec => []AtaInv
BY AtaInit, AtaStep, PTL DEF Spec

\* Every register and timer of both disks keeps its width, under every host: the
\* sector count, the address, the buffer offset, m_sectors_until_int and the
\* histories of a transfer.
THEOREM TypeCorrect == Spec => []TypeOK
<1>1. AtaInv => TypeOK
  BY DEF AtaInv, TypeOK, Sound
<1> QED
  BY <1>1, AtaInvariant, PTL

\* BSY is never up without a running timer, except while the host holds SRST, and
\* no timer runs for a device that is not busy, for every sequence of resets,
\* aborts, diagnostics and commands.
THEOREM BusyCorrect == Spec => []BusyTimed
<1>1. AtaInv => BusyTimed
  BY DEF AtaInv, BusyTimed, Sound, TimerOK
<1> QED
  BY <1>1, AtaInvariant, PTL

\* read_data and write_data stay inside m_buffer, even when SET FEATURES changes
\* the width of the data register after a transfer was abandoned in the middle.
THEOREM BufferCorrect == Spec => []BufferInBounds
<1>1. ASSUME AtaInv, NEW c \in DOMAIN dev, dev[c].drq
      PROVE  dev[c].offset + Step(dev[c]) <= SectorSize
  <2>1. dev[c].offset + Step(dev[c]) \in 0..SectorSize
    BY <1>1, StepFits DEF AtaInv
  <2> QED
    BY <2>1, AtaAssumption
<1>2. AtaInv => BufferInBounds
  BY <1>1 DEF BufferInBounds
<1> QED
  BY <1>2, AtaInvariant, PTL

\* A transfer signals once per sector, per block or at its end, as its command
\* has it, for every block count, zero included.
THEOREM InterruptsCorrect == Spec => []InterruptSchedule
<1>1. AtaInv => InterruptSchedule
  BY DEF AtaInv, InterruptSchedule, Sound, Totals, DataCmds, ImageCmds
<1> QED
  BY <1>1, AtaInvariant, PTL

\* The outcomes of a command's timer all tell the host.
LEMMA TickTells ==
    ASSUME AtaInv, Effect, NEW c \in DOMAIN dev,
           dev[c].left = 0, dev'[c].left # 0, dev[c].param = "command",
           dev[c].command # "disablepw", ~(c = 1 /\ dev[c].command = "diagnostic")
    PROVE  dev'[c].irq \/ dev'[c].drq \/ dev'[c].bsy
<1>1. c \in {0, 1} /\ dev[c].bsy /\ ~HostRuns /\ Sound(dev[c])
  BY HostFacts DEF AtaInv, Sound, TimerOK, Never, HostRuns
<1>2. PICK o \in DOMAIN dev : dev[o].left = 0 /\ TickResult(dev, o, dev')
  BY <1>1 DEF Effect, HostWrites
<1>3. CASE o = c
  <2>1. Ticked(c, dev, dev[c], dev'[c])
    BY <1>2, <1>3 DEF TickResult
  <2>2. ASSUME TickEnd(c, dev, dev[c], dev'[c]) PROVE dev'[c].irq
    BY <1>1, <2>2 DEF TickEnd, TickIrq, Diagnosing
  <2> QED
    BY <2>1, <2>2 DEF Ticked, TickDetect, TickWait, TickCommand, TickIdle
<1>4. CASE o # c
  <2>1. Spared(o, dev, c, dev'[c])
    BY <1>2, <1>4 DEF TickResult
  <2> QED
    BY <2>1 DEF Spared, Calls
<1> QED
  BY <1>3, <1>4

\* A command does not end without telling the host: BSY falls with an interrupt
\* or with a request for data.
THEOREM NoSilentEndCorrect == Spec => NoSilentEnd
<1> DEFINE A == \A c \in {0, 1} :
         (/\ c \in DOMAIN dev
          /\ dev[c].left = 0 /\ dev'[c].left # 0
          /\ dev[c].param = "command"
          /\ dev[c].command # "disablepw"
          /\ ~(c = 1 /\ dev[c].command = "diagnostic")) =>
            dev'[c].irq \/ dev'[c].drq \/ dev'[c].bsy
<1>1. AtaInv /\ [Next]_vars => [A]_vars
  <2> SUFFICES ASSUME AtaInv, [Next]_vars PROVE A
    OBVIOUS
  <2>1. Effect
    BY StepEffect
  <2> QED
    BY <2>1, TickTells
<1>2. NoSilentEnd <=> [][A]_vars
  BY DEF NoSilentEnd
<1> HIDE DEF A
<1> QED
  BY <1>1, <1>2, AtaInvariant, PTL DEF Spec

-----------------------------------------------------------------------------
(* The two devices together *)

\* What an access of the host to the task file or the data register may do.
Access(c, r, q) ==
    /\ Kept(r, q)
    /\ \A f \in Fixed \ {"drv", "command"} : q[f] = r[f]
    /\ q.device1 => r.device1
    /\ Linked(c, r, q)
    /\ \/ q.bsy = r.bsy /\ q.left = r.left /\ q.param = r.param /\ (r.bsy => q = r)
       \/ (~r.bsy \/ r.drq) /\ Stopped(q)
       \/ (~r.bsy \/ r.drq) /\ q.bsy /\ q.left \in Times2 /\ q.param = "command"

Accesses ==
    /\ HostRuns /\ UNCHANGED early
    /\ \A c \in DOMAIN dev : Access(c, dev[c], dev'[c])
    /\ HostWrites \/ \A c \in DOMAIN dev : dev[c].bsy => dev'[c] = dev[c]

Controls ==
    /\ HostRuns
    /\ \E srst \in BOOLEAN :
         /\ early' = (early \/ (srst /\ \E c \in DOMAIN dev : dev[c].resetting))
         /\ \A c \in DOMAIN dev : ControlDone(c, dev[c], dev'[c], srst)

Elapses == HostRuns /\ UNCHANGED early /\ \A c \in DOMAIN dev : TimeDone(dev[c], dev'[c])

Expires == /\ UNCHANGED early
           /\ \E c \in DOMAIN dev : dev[c].left = 0 /\ TickResult(dev, c, dev')

Resets == HostRuns /\ early' = FALSE /\ \A c \in DOMAIN dev : ResetDone(c, dev[c], dev'[c])

Stays == UNCHANGED <<dev, early>>

\* What the accesses of the host have in common.
LEMMA AccessCases ==
    ASSUME NEW c, NEW r, NEW q, Sound(r)
    PROVE  /\ Written(c, r, q) => Access(c, r, q)
           /\ \A drv : HeadDone(c, r, q, drv) => Access(c, r, q)
           /\ \A cmd : CommandDone(c, r, q, cmd) => Access(c, r, q)
           /\ DataDone(c, r, q) => Access(c, r, q) /\ (r.bsy => q = r)
           /\ StatusDone(c, r, q) => Access(c, r, q) /\ (r.bsy => q = r)
<1>1. Access(c, r, r)
  BY DEF Access, Linked, Kept
<1>2. Written(c, r, q) => Access(c, r, q)
  BY DEF Access, Written, Keeps, TimerWritten, Kept
<1>3. ASSUME NEW drv, HeadDone(c, r, q, drv) PROVE Access(c, r, q)
  BY <1>3 DEF Access, HeadDone, Kept, TimerWritten
<1>4. ASSUME NEW cmd, CommandDone(c, r, q, cmd) PROVE Access(c, r, q)
  BY <1>4 DEF Access, CommandDone, Kept, TimerWritten
<1>5. DataDone(c, r, q) => Access(c, r, q) /\ (r.bsy => q = r)
  BY <1>1 DEF Access, DataDone, Kept, Keeps, TimerKept, InDataPhase
<1>6. StatusDone(c, r, q) => Access(c, r, q) /\ (r.bsy => q = r)
  <2>1. Agree(r, q, Irqs) => q.bsy = r.bsy /\ q.left = r.left /\ q.param = r.param
    BY DEF Agree, Fields, Irqs
  <2> QED
    BY <1>1, <2>1 DEF Access, StatusDone, Kept, Keeps
<1> QED
  BY <1>2, <1>3, <1>4, <1>5, <1>6

\* The effects once more, as far as the two devices together need them.
LEMMA Outline ==
    ASSUME AtaInv, Effect
    PROVE  Stays \/ Accesses \/ Controls \/ Elapses \/ Expires \/ Resets
<1>0. \A c \in DOMAIN dev : Sound(dev[c])
  BY DEF AtaInv
<1>1. HostWrites => HostRuns
  BY DEF HostWrites
<1>2. ASSUME HostWrites, UNCHANGED early,
             \A c \in DOMAIN dev : Written(c, dev[c], dev'[c])
      PROVE  Accesses
  BY <1>0, <1>1, <1>2, AccessCases DEF Accesses
<1>3. ASSUME HostWrites, UNCHANGED early, NEW drv \in {0, 1},
             \A c \in DOMAIN dev : HeadDone(c, dev[c], dev'[c], drv)
      PROVE  Accesses
  BY <1>0, <1>1, <1>3, AccessCases DEF Accesses
<1>4. ASSUME HostWrites, UNCHANGED early, NEW cmd \in AllCmds,
             \A c \in DOMAIN dev : CommandDone(c, dev[c], dev'[c], cmd)
      PROVE  Accesses
  BY <1>0, <1>1, <1>4, AccessCases DEF Accesses
<1>5. ASSUME HostRuns, UNCHANGED early,
             \A c \in DOMAIN dev : DataDone(c, dev[c], dev'[c])
      PROVE  Accesses
  BY <1>0, <1>5, AccessCases DEF Accesses
<1>6. ASSUME HostRuns, UNCHANGED early,
             \A c \in DOMAIN dev : StatusDone(c, dev[c], dev'[c])
      PROVE  Accesses
  BY <1>0, <1>6, AccessCases DEF Accesses
<1> QED
  BY <1>2, <1>3, <1>4, <1>5, <1>6
     DEF Effect, Stays, Controls, Elapses, Expires, Resets

\* While device 0 listens for DASP, device 1 is in the same reset and drives it,
\* or has just ended it.
Listens(a, b) ==
    (a.bsy /\ a.param = "detect") =>
        b.dasp /\ ((b.resetting /\ b.left = a.left) \/ (a.left = 0 /\ ~b.bsy))

Pair(a, b) ==
    /\ Listens(a, b) /\ ~a.single /\ a.srst = b.srst
    /\ (a.bsy /\ a.param = "pdiag") => ~b.pdiag

First(a, both) ==
    /\ ~both => a.single \/ (a.bsy /\ a.param = "detect")
    /\ (a.bsy /\ a.param = "pdiag") => ~a.device1 /\ both
    /\ (~both /\ ~a.resetting) => ~a.device1

Second(b) == ~(b.bsy /\ b.param \in {"detect", "pdiag"})

Both == 0 \in DOMAIN dev /\ 1 \in DOMAIN dev

\* Whatever the host does.
Cable ==
    /\ \A c \in DOMAIN dev : Honest(dev[c])
    /\ 0 \in DOMAIN dev => First(dev[0], 1 \in DOMAIN dev)
    /\ 1 \in DOMAIN dev => Second(dev[1])
    /\ Both => Pair(dev[0], dev[1])

\* The line stays down without the interrupt.
LEMMA HonestStep ==
    ASSUME AtaInv, Cable, Effect, NEW c \in DOMAIN dev
    PROVE  Honest(dev'[c])
<1> DEFINE r == dev[c]
           q == dev'[c]
<1>0. Honest(r)
  BY DEF Cable
<1>1. CASE Stays
  BY <1>0, <1>1 DEF Stays
<1>2. CASE Accesses
  BY <1>0, <1>2 DEF Accesses, Access, Linked
<1>3. CASE Controls
  BY <1>0, <1>3 DEF Controls, ControlDone, Linked
<1>4. CASE Elapses
  <2>1. Agree(r, q, {"left"})
    BY <1>4 DEF Elapses, TimeDone
  <2> HIDE DEF r, q
  <2>2. q.irq = r.irq /\ q.irqout = r.irqout
    BY <2>1 DEF Agree, Fields
  <2> QED
    BY <1>0, <2>2 DEF Honest, q
<1>5. CASE Expires
  <2>1. PICK o \in DOMAIN dev : TickResult(dev, o, dev')
    BY <1>5 DEF Expires
  <2>2. CASE c = o
    <3>1. Ticked(c, dev, r, q)
      BY <2>1, <2>2 DEF TickResult
    <3> HIDE DEF r, q
    <3>2. TickIrq(c, r, q) => Honest(q)
      BY <1>0 DEF TickIrq, Honest
    <3>3. TickDetect(dev, r, q) => q.irq = r.irq /\ q.irqout = r.irqout
      BY DEF TickDetect, Agree, Fields
    <3>4. TickIdle(r, q) => q.irq = r.irq /\ q.irqout = r.irqout
      BY DEF TickIdle, Agree, Fields
    <3>5. TickCommand(c, r, q) => Honest(q)
      BY <1>0 DEF TickCommand, Keeps, Linked
    <3>6. (q.irq = r.irq /\ q.irqout = r.irqout) => Honest(q)
      BY <1>0 DEF Honest
    <3>7. Honest(q)
      BY <3>1, <3>2, <3>3, <3>4, <3>5, <3>6 DEF Ticked, TickWait, TickEnd
    <3> QED
      BY <3>7 DEF q
  <2>3. CASE c # o
    <3>1. q = r \/ Woken(r, q)
      BY <2>1, <2>3 DEF TickResult, Spared
    <3> HIDE DEF r, q
    <3>2. q.irq = r.irq /\ q.irqout = r.irqout
      BY <3>1 DEF Woken, Agree, Fields
    <3> QED
      BY <1>0, <3>2 DEF Honest, q
  <2> QED
    BY <2>2, <2>3
<1>6. CASE Resets
  BY <1>0, <1>6 DEF Resets, ResetDone
<1> QED
  BY <1>1, <1>2, <1>3, <1>4, <1>5, <1>6, Outline

\* Device 1 never waits for DASP or PDIAG.
LEMMA SecondStep ==
    ASSUME AtaInv, Cable, Effect, 1 \in DOMAIN dev
    PROVE  Second(dev'[1])
<1> DEFINE r == dev[1]
           q == dev'[1]
<1>0. Second(r) /\ Sound(r)
  BY DEF Cable, AtaInv
<1>1. CASE Stays
  BY <1>0, <1>1 DEF Stays
<1>2. CASE Accesses
  <2>1. Access(1, r, q)
    BY <1>2 DEF Accesses
  <2> HIDE DEF r, q
  <2>2. Second(q)
    BY <1>0, <2>1 DEF Access, Second, Stopped
  <2> QED
    BY <2>2 DEF q
<1>3. CASE Controls
  <2>1. PICK srst \in BOOLEAN : ControlDone(1, r, q, srst)
    BY <1>3 DEF Controls
  <2> HIDE DEF r, q
  <2>2. SrstRisen(q) \/ SrstFallen(r, q) \/ SrstKept(r, q)
    BY <2>1 DEF ControlDone
  <2>3. Second(q)
    BY <1>0, <2>2 DEF Second, SrstRisen, SrstFallen, SrstKept
  <2> QED
    BY <2>3 DEF q
<1>4. CASE Elapses
  <2>1. Agree(r, q, {"left"})
    BY <1>4 DEF Elapses, TimeDone
  <2> HIDE DEF r, q
  <2>2. q.bsy = r.bsy /\ q.param = r.param
    BY <2>1 DEF Agree, Fields
  <2> QED
    BY <1>0, <2>2 DEF Second, q
<1>5. CASE Expires
  <2>1. PICK o \in DOMAIN dev : TickResult(dev, o, dev')
    BY <1>5 DEF Expires
  <2>2. CASE o = 1
    <3>1. Ticked(1, dev, r, q)
      BY <2>1, <2>2 DEF TickResult
    <3> HIDE DEF r, q
    <3>2. Second(q)
      BY <3>1 DEF Ticked, TickDetect, TickWait, TickEnd, TickCommand, TickIdle, Second
    <3> QED
      BY <3>2 DEF q
  <2>3. CASE o # 1
    BY <1>0, <2>1, <2>3 DEF TickResult, Spared, Calls
  <2> QED
    BY <2>2, <2>3
<1>6. CASE Resets
  BY <1>6 DEF Resets, ResetDone, Second
<1> QED
  BY <1>1, <1>2, <1>3, <1>4, <1>5, <1>6, Outline

\* Device 0 stays right about being alone, and waits for PDIAG only with a device
\* 1.
LEMMA FirstStep ==
    ASSUME AtaInv, Cable, Effect, 0 \in DOMAIN dev
    PROVE  First(dev'[0], 1 \in DOMAIN dev)
<1> DEFINE r == dev[0]
           q == dev'[0]
           both == 1 \in DOMAIN dev
<1>0. First(r, both) /\ Sound(r)
  BY DEF Cable, AtaInv
<1>01. /\ (r.bsy /\ r.param = "detect") => r.resetting /\ ~r.drq
       /\ r.resetting => r.param # "reset"
  BY <1>0 DEF Sound, TimerOK
<1>1. CASE Stays
  BY <1>0, <1>1 DEF Stays
<1>2. CASE Accesses
  <2>1. Access(0, r, q)
    BY <1>2 DEF Accesses
  <2> HIDE DEF r, q, both
  <2>2. q.single = r.single /\ q.resetting = r.resetting /\ (q.device1 => r.device1)
    BY <2>1 DEF Access, Fixed
  <2>3. First(q, both)
    BY <1>0, <1>01, <2>1, <2>2 DEF Access, First, Stopped
  <2> QED
    BY <2>3 DEF q, both
<1>3. CASE Controls
  <2>1. PICK srst \in BOOLEAN : ControlDone(0, r, q, srst)
    BY <1>3 DEF Controls
  <2> HIDE DEF r, q, both
  <2>2. /\ SrstRisen(q) => ~r.resetting \/ SrstKept(r, q)
        /\ SrstRisen(q) \/ (SrstFallen(r, q) /\ r.param = "reset") \/ SrstKept(r, q)
        /\ q.single = r.single /\ q.resetting = r.resetting /\ q.device1 = r.device1
    BY <2>1, <1>01 DEF ControlDone, SrstRisen, SrstFallen
  <2>3. First(q, both)
    BY <1>0, <1>01, <2>2 DEF First, SrstRisen, SrstFallen, SrstKept
  <2> QED
    BY <2>3 DEF q, both
<1>4. CASE Elapses
  <2>1. Agree(r, q, {"left"})
    BY <1>4 DEF Elapses, TimeDone
  <2> HIDE DEF r, q, both
  <2>2. /\ q.bsy = r.bsy /\ q.param = r.param /\ q.single = r.single
        /\ q.resetting = r.resetting /\ q.device1 = r.device1
    BY <2>1 DEF Agree, Fields
  <2>3. First(q, both)
    BY <1>0, <2>2 DEF First
  <2> QED
    BY <2>3 DEF q, both
<1>5. CASE Expires
  <2>1. PICK o \in DOMAIN dev : dev[o].left = 0 /\ TickResult(dev, o, dev')
    BY <1>5 DEF Expires
  <2>2. CASE o = 0
    <3>1. Ticked(0, dev, r, q) /\ r.left = 0
      BY <2>1, <2>2 DEF TickResult
    <3>2. r.bsy
      BY <1>0, <3>1 DEF Sound, TimerOK, Never
    <3>3. daspin(dev) => both
      BY DEF daspin
    <3> HIDE DEF r, q, both
    <3>4. ASSUME TickDetect(dev, r, q) PROVE First(q, both)
      <4>1. q.resetting = r.resetting /\ q.device1 = r.device1
        BY <3>4 DEF TickDetect, Agree, Fields
      <4> QED
        BY <1>0, <3>3, <3>4, <4>1 DEF TickDetect, First
    <3>5. ASSUME TickWait(0, dev, r, q) PROVE First(q, both)
      <4>1. q.single = r.single
        BY <3>5 DEF TickWait, Agree, Fields
      <4> QED
        BY <1>0, <3>5, <4>1 DEF TickWait, First, Diagnosing
    <3>6. ASSUME TickEnd(0, dev, r, q) PROVE First(q, both)
      <4>1. q.single = r.single
        BY <3>6 DEF TickEnd, Agree, Fields, Ends
      <4> QED
        BY <1>0, <3>2, <3>6, <4>1 DEF TickEnd, First, Diagnosing
    <3>7. ASSUME TickCommand(0, r, q) PROVE First(q, both)
      <4>1. q.single = r.single /\ q.resetting = r.resetting /\ (q.device1 => r.device1)
        BY <3>7 DEF TickCommand, Keeps, Fixed
      <4> QED
        BY <1>0, <3>7, <4>1 DEF TickCommand, First
    <3>8. ASSUME TickIdle(r, q) PROVE First(q, both)
      <4>1. q.single = r.single /\ q.resetting = r.resetting /\ q.device1 = r.device1
        BY <3>8 DEF TickIdle, Agree, Fields
      <4> QED
        BY <1>0, <3>8, <4>1 DEF TickIdle, First
    <3>9. First(q, both)
      BY <3>1, <3>4, <3>5, <3>6, <3>7, <3>8 DEF Ticked
    <3> QED
      BY <3>9 DEF q, both
  <2>3. CASE o # 0
    <3>1. q = r \/ (both /\ Woken(r, q))
      BY <2>1, <2>3 DEF TickResult, Spared, Calls
    <3> HIDE DEF r, q, both
    <3>2. First(q, both)
      BY <1>0, <3>1 DEF Woken, Stopped, First
    <3> QED
      BY <3>2 DEF q, both
  <2> QED
    BY <2>2, <2>3
<1>6. CASE Resets
  BY <1>6 DEF Resets, ResetDone, First
<1> QED
  BY <1>1, <1>2, <1>3, <1>4, <1>5, <1>6, Outline

\* The two devices stay in step during a reset.
LEMMA PairStep ==
    ASSUME AtaInv, Cable, Effect, Both
    PROVE  Pair(dev'[0], dev'[1])
<1> DEFINE a == dev[0]
           b == dev[1]
           p == dev'[0]
           q == dev'[1]
<1>0. Pair(a, b) /\ Second(b) /\ Sound(a) /\ Sound(b)
  BY DEF Cable, AtaInv, Both
<1>01. /\ (a.bsy /\ a.param = "detect") => a.resetting /\ ~a.drq
       /\ b.resetting => b.bsy /\ ~b.drq /\ b.param = "diagnostic"
  BY <1>0 DEF Sound, TimerOK, Second
<1>02. a.left \in Nat \cup {-1} /\ b.left \in Nat \cup {-1}
  BY <1>0, DeviceTypes DEF Sound, Never
<1>03. HostRuns => a.left # 0
  BY DEF HostRuns, Both
<1>1. CASE Stays
  BY <1>0, <1>1 DEF Stays
<1>2. CASE Accesses
  <2>1. Access(0, a, p) /\ Access(1, b, q) /\ HostRuns
    BY <1>2 DEF Accesses, Both
  <2> HIDE DEF a, b, p, q
  <2>2. /\ p.single = a.single /\ p.srst = a.srst
        /\ q.pdiag = b.pdiag /\ q.srst = b.srst
    BY <2>1 DEF Access, Fixed
  <2>3. (p.bsy /\ p.param \in {"detect", "pdiag"}) => p = a
    BY <2>1 DEF Access, Stopped
  <2>4. b.resetting => q = b
    BY <1>01, <2>1 DEF Access
  <2>5. Pair(p, q)
    BY <1>0, <1>03, <2>1, <2>2, <2>3, <2>4 DEF Pair, Listens
  <2> QED
    BY <2>5 DEF p, q
<1>3. CASE Controls
  <2>1. PICK srst \in BOOLEAN : ControlDone(0, a, p, srst) /\ ControlDone(1, b, q, srst)
    BY <1>3 DEF Controls, Both
  <2>2. HostRuns
    BY <1>3 DEF Controls
  <2> HIDE DEF a, b, p, q
  <2>3. /\ p.single = a.single /\ p.srst = srst /\ q.srst = srst
        /\ q.resetting = b.resetting
    BY <2>1 DEF ControlDone
  <2>4. (p.bsy /\ p.param \in {"detect", "pdiag"}) => SrstKept(a, p)
    BY <2>1 DEF ControlDone, SrstRisen, SrstFallen
  <2>5. b.resetting => SrstKept(b, q)
    BY <1>01, <2>1 DEF ControlDone
  <2>6. q.pdiag => b.pdiag
    BY <2>1 DEF ControlDone, SrstRisen, SrstFallen, SrstKept
  <2>7. Pair(p, q)
    BY <1>0, <1>03, <2>2, <2>3, <2>4, <2>5, <2>6 DEF Pair, Listens, SrstKept
  <2> QED
    BY <2>7 DEF p, q
<1>4. CASE Elapses
  <2>1. TimeDone(a, p) /\ TimeDone(b, q) /\ HostRuns
    BY <1>4 DEF Elapses, Both
  <2> HIDE DEF a, b, p, q
  <2>2. /\ p.bsy = a.bsy /\ p.param = a.param /\ p.single = a.single
        /\ p.srst = a.srst /\ q.srst = b.srst /\ q.pdiag = b.pdiag
        /\ q.dasp = b.dasp /\ q.resetting = b.resetting
    BY <2>1 DEF TimeDone, Agree, Fields
  <2>3. b.left = a.left => q.left = p.left
    BY <1>02, <2>1 DEF TimeDone
  <2>4. Pair(p, q)
    BY <1>0, <1>03, <2>1, <2>2, <2>3 DEF Pair, Listens
  <2> QED
    BY <2>4 DEF p, q
<1>6. CASE Resets
  <2>1. ResetDone(0, a, p) /\ ResetDone(1, b, q)
    BY <1>6 DEF Resets, Both
  <2> HIDE DEF a, b, p, q
  <2>3. p.srst \in BOOLEAN /\ q.srst \in BOOLEAN
    BY <2>1, DeviceFlags DEF ResetDone, Kept, Sound
  <2>4. p.srst = q.srst
    BY <2>1, <2>3 DEF ResetDone
  <2>2. Pair(p, q)
    BY <1>0, <2>1, <2>4 DEF ResetDone, Pair, Listens
  <2> QED
    BY <2>2 DEF p, q
<1>5. CASE Expires
  <2>1. PICK o \in DOMAIN dev : dev[o].left = 0 /\ TickResult(dev, o, dev')
    BY <1>5 DEF Expires
  <2>2. o \in {0, 1}
    BY HostFacts
  <2>3. CASE o = 0
    <3>1. Ticked(0, dev, a, p) /\ a.left = 0 /\ q = b
      BY <2>1, <2>3 DEF TickResult, Spared, Calls, Both
    <3>2. /\ b.dasp => daspin(dev)
          /\ b.pdiag => pdiagin(dev)
      BY DEF daspin, pdiagin, Both
    <3>3. a.bsy
      BY <1>0, <3>1 DEF Sound, TimerOK, Never
    <3> HIDE DEF a, b, p, q
    <3>4. ASSUME TickDetect(dev, a, p) PROVE Pair(p, b)
      <4>1. p.srst = a.srst
        BY <3>4 DEF TickDetect, Agree, Fields
      <4> QED
        BY <1>0, <3>2, <3>3, <3>4, <4>1 DEF TickDetect, Pair, Listens
    <3>5. ASSUME TickWait(0, dev, a, p) PROVE Pair(p, b)
      <4>1. p.srst = a.srst /\ p.single = a.single
        BY <3>5 DEF TickWait, Agree, Fields
      <4> QED
        BY <1>0, <3>2, <3>5, <4>1 DEF TickWait, Pair, Listens
    <3>6. ASSUME TickEnd(0, dev, a, p) PROVE Pair(p, b)
      <4>1. p.srst = a.srst /\ p.single = a.single
        BY <3>6 DEF TickEnd, Agree, Fields, Ends
      <4> QED
        BY <1>0, <3>6, <4>1 DEF TickEnd, Pair, Listens
    <3>7. ASSUME TickCommand(0, a, p) PROVE Pair(p, b)
      <4>1. p.srst = a.srst /\ p.single = a.single
        BY <3>7 DEF TickCommand, Keeps, Fixed
      <4> QED
        BY <1>0, <3>7, <4>1 DEF TickCommand, Pair, Listens
    <3>8. ASSUME TickIdle(a, p) PROVE Pair(p, b)
      <4>1. p.srst = a.srst /\ p.single = a.single
        BY <3>8 DEF TickIdle, Agree, Fields
      <4> QED
        BY <1>0, <3>8, <4>1 DEF TickIdle, Pair, Listens
    <3>9. Pair(p, q)
      BY <3>1, <3>4, <3>5, <3>6, <3>7, <3>8 DEF Ticked
    <3> QED
      BY <3>9 DEF p, q
  <2>4. CASE o = 1
    <3>1. Ticked(1, dev, b, q) /\ b.left = 0
      BY <2>1, <2>4 DEF TickResult
    <3>2. IF Diagnosing(b) /\ b.ident /\ ~b.pdiag /\ a.param = "pdiag"
          THEN Woken(a, p) ELSE p = a
      BY <2>1, <2>4 DEF TickResult, Spared, Calls, Both
    <3>3. b.bsy
      BY <1>0, <3>1 DEF Sound, TimerOK, Never
    <3> HIDE DEF a, b, p, q
    <3>4. /\ p.srst = a.srst /\ p.single = a.single
          /\ (p.bsy /\ p.param = "detect") => p = a
      BY <3>2 DEF Woken, Agree, Fields, Stopped
    <3>5. q.srst = b.srst
      <4>1. TickEnd(1, dev, b, q) \/ TickDetect(dev, b, q) \/ TickIdle(b, q) => q.srst = b.srst
        BY DEF TickEnd, TickDetect, TickIdle, Agree, Fields, Ends
      <4>2. TickWait(1, dev, b, q) \/ TickCommand(1, b, q) => q.srst = b.srst
        BY DEF TickWait, TickCommand, Keeps, Fixed
      <4> QED
        BY <3>1, <4>1, <4>2 DEF Ticked
    <3>6. Listens(p, q)
      <4> SUFFICES ASSUME p.bsy, p.param = "detect"
                   PROVE q.dasp /\ p.left = 0 /\ ~q.bsy
        BY DEF Listens
      <4>1. b.dasp /\ b.resetting /\ b.left = p.left /\ p = a
        BY <1>0, <3>3, <3>4 DEF Pair, Listens
      <4>2. TickEnd(1, dev, b, q)
        BY <1>01, <3>1, <4>1
           DEF Ticked, TickDetect, TickWait, TickCommand, TickIdle
      <4>3. q.dasp = b.dasp
        BY <4>2 DEF TickEnd, Agree, Fields, Ends
      <4> QED
        BY <3>1, <4>1, <4>2, <4>3 DEF TickEnd
    <3>7. ASSUME p.bsy, p.param = "pdiag" PROVE ~q.pdiag
      <4>1. p = a /\ ~(Diagnosing(b) /\ b.ident /\ ~b.pdiag)
        BY <3>2, <3>7 DEF Woken, Stopped
      <4>2. ~b.pdiag
        BY <1>0, <3>7, <4>1 DEF Pair
      <4>3. b.param # "pdiag"
        BY <1>0, <3>3 DEF Second
      <4>4. TickEnd(1, dev, b, q) => ~q.pdiag
        BY <4>1, <4>2, <4>3 DEF TickEnd
      <4>5. TickDetect(dev, b, q) \/ TickIdle(b, q) => q.pdiag = b.pdiag
        BY DEF TickDetect, TickIdle, Agree, Fields
      <4>6. TickWait(1, dev, b, q) \/ TickCommand(1, b, q) => q.pdiag = b.pdiag
        BY DEF TickWait, TickCommand, Keeps, Fixed
      <4> QED
        BY <3>1, <4>2, <4>4, <4>5, <4>6 DEF Ticked
    <3>8. Pair(p, q)
      BY <1>0, <3>4, <3>5, <3>6, <3>7 DEF Pair
    <3> QED
      BY <3>8 DEF p, q
  <2> QED
    BY <2>2, <2>3, <2>4
<1> QED
  BY <1>1, <1>2, <1>3, <1>4, <1>5, <1>6, Outline

\* The state after the first machine reset.
Started(c, q) ==
    /\ Sound(q) /\ Placed(q)
    /\ q.bsy /\ q.left = DiagTime /\ q.resetting
    /\ ~q.pdiag /\ ~q.srst /\ ~q.single /\ ~q.irq
    /\ c = 0 => q.param = "detect"
    /\ c = 1 => q.param = "diagnostic" /\ q.dasp
    /\ Wired(c, q) /\ Honest(q) /\ q.command = "none"

\* The devices after the power-on reset.
LEMMA InitDevices == ASSUME Init, NEW c \in DOMAIN dev PROVE Started(c, dev[c])
<1>1. PICK id \in [host.slots -> BOOLEAN] :
        dev = [x \in host.slots |-> interface_post_reset(x, Fresh(id[x]))]
  BY DEF Init
<1>2. host.slots \subseteq {0, 1} /\ DOMAIN dev = host.slots
  BY <1>1, AtaInit, HostFacts DEF AtaInv
<1> DEFINE f == Fresh(id[c])
           q == interface_post_reset(c, f)
<1>3. id[c] \in BOOLEAN /\ c \in {0, 1} /\ dev[c] = q
  BY <1>1, <1>2
<1>4. Basic(f)
  BY <1>3, FreshBasic
<1>5. Honest(f) /\ f.single = FALSE /\ f.command = "none"
  BY DEF Fresh, Honest
<1> HIDE DEF f
<1>6. /\ Sound(q) /\ Placed(q) /\ q.bsy /\ q.left = DiagTime /\ q.resetting
      /\ ~q.irq /\ ~q.pdiag /\ ~q.srst
      /\ c = 0 => q.param = "detect"
      /\ c = 1 => q.param = "diagnostic" /\ q.dasp
      /\ q.single = f.single /\ q.command = f.command
      /\ Honest(f) => Wired(c, q) /\ Honest(q)
  BY <1>3, <1>4, PostResetEffect
<1> HIDE DEF q
<1> QED
  BY <1>3, <1>5, <1>6 DEF Started

\* The invariant of the cable holds after the power-on reset.
LEMMA CableInit == Init => Cable
<1> SUFFICES ASSUME Init PROVE Cable
  OBVIOUS
<1>3. \A c \in DOMAIN dev : Started(c, dev[c])
  BY InitDevices
<1>4. \A c \in DOMAIN dev : Honest(dev[c])
  BY <1>3 DEF Started
<1>5. 0 \in DOMAIN dev => First(dev[0], 1 \in DOMAIN dev)
  BY <1>3 DEF First, Started
<1>6. 1 \in DOMAIN dev => Second(dev[1])
  BY <1>3 DEF Second, Started
<1>7. Both => Pair(dev[0], dev[1])
  <2> SUFFICES ASSUME Both PROVE Pair(dev[0], dev[1])
    OBVIOUS
  <2>1. dev[0].srst \in BOOLEAN /\ dev[1].srst \in BOOLEAN
    BY <1>3, DeviceFlags DEF Sound, Both, Started
  <2> QED
    BY <1>3, <2>1 DEF Pair, Listens, Both, Started
<1> QED
  BY <1>4, <1>5, <1>6, <1>7 DEF Cable

\* The invariant of the cable is inductive, whatever the host does.
LEMMA CableStep ==
    ASSUME AtaInv, Cable, [Next]_vars PROVE Cable'
<1>1. DOMAIN dev' = DOMAIN dev /\ Effect
  BY StepEffect
<1>2. \A c \in DOMAIN dev' : Honest(dev'[c])
  BY <1>1, HonestStep
<1>3. 0 \in DOMAIN dev' => First(dev'[0], 1 \in DOMAIN dev')
  BY <1>1, FirstStep
<1>4. 1 \in DOMAIN dev' => Second(dev'[1])
  BY <1>1, SecondStep
<1>5. Both' => Pair(dev'[0], dev'[1])
  BY <1>1, PairStep DEF Both
<1> QED
  BY <1>2, <1>3, <1>4, <1>5 DEF Cable

\* The host raises SRST only on devices that are out of reset, so they obey it.
SrstHeld(r) == r.srst => r.bsy /\ r.param = "reset" /\ r.left = Never

\* The ways in which both devices can be busy with a reset.
Phase(a, b) ==
    \/ /\ a.param = "reset" /\ a.srst /\ a.left = Never
       /\ b.param = "reset" /\ b.srst /\ b.left = Never
    \/ /\ a.param = "detect" /\ a.resetting
       /\ b.param = "diagnostic" /\ b.resetting /\ a.left = b.left
    \/ /\ a.param = "diagnostic" /\ a.left = DiagTime
       /\ b.param = "diagnostic" /\ b.left = 0
    \/ /\ a.param = "diagnostic"
       /\ b.param = "diagnostic" /\ b.left = a.left
    \/ /\ a.param = "pdiag" /\ a.left = DiagTime
       /\ b.param = "diagnostic" /\ b.left = 0

\* A device 1 that works and has not said so yet is still at it, in step with
\* device 0; and device 0 blames it only when it does not work.
Awaits(a, b) == (b.ident /\ ~b.pdiag) => a.bsy /\ b.bsy /\ Phase(a, b)
Blames(a, b) == (~a.resetting /\ a.device1) => ~b.ident

Order ==
    Orderly => /\ \A c \in DOMAIN dev : SrstHeld(dev[c])
               /\ Both => Awaits(dev[0], dev[1]) /\ Blames(dev[0], dev[1])

\* A timer changes neither SRST, nIEN, the image nor the command.
LEMMA TickFixed ==
    ASSUME NEW c, NEW D, NEW r, NEW q, Ticked(c, D, r, q)
    PROVE  /\ q.srst = r.srst /\ q.ident = r.ident /\ q.command = r.command
           /\ q.nien = r.nien
<1>1. TickEnd(c, D, r, q) \/ TickDetect(D, r, q) \/ TickIdle(r, q) =>
        /\ q.srst = r.srst /\ q.ident = r.ident /\ q.command = r.command
        /\ q.nien = r.nien
  BY DEF TickEnd, TickDetect, TickIdle, Agree, Fields, Ends
<1>2. TickWait(c, D, r, q) =>
        /\ q.srst = r.srst /\ q.ident = r.ident /\ q.command = r.command
        /\ q.nien = r.nien
  BY DEF TickWait, Agree, Fields
<1>3. TickCommand(c, r, q) =>
        /\ q.srst = r.srst /\ q.ident = r.ident /\ q.command = r.command
        /\ q.nien = r.nien
  BY DEF TickCommand, Keeps, Fixed
<1> QED
  BY <1>1, <1>2, <1>3 DEF Ticked

\* An orderly host was so before, but for a machine reset that starts anew.
LEMMA OrderlyBefore ==
    ASSUME host' = host, Orderly', Stays \/ Accesses \/ Controls \/ Elapses \/ Expires
    PROVE  Orderly
<1>1. host'.patient /\ ~early'
  BY DEF Orderly
<1>2. Stays \/ Accesses \/ Elapses \/ Expires => early' = early
  BY DEF Stays, Accesses, Elapses, Expires
<1>3. Controls => (early => early')
  BY Zenon DEF Controls
<1> QED
  BY <1>1, <1>2, <1>3 DEF Orderly

\* Devices that are out of reset obey SRST.
LEMMA SrstHeldStep ==
    ASSUME AtaInv, Order, Effect, host' = host, Orderly', NEW c \in DOMAIN dev
    PROVE  SrstHeld(dev'[c])
<1> DEFINE r == dev[c]
           q == dev'[c]
<1>0. ~Resets => Orderly /\ SrstHeld(r)
  BY OrderlyBefore, Outline DEF Order
<1>1. CASE Stays /\ ~Resets
  BY <1>0, <1>1 DEF Stays
<1>2. CASE Accesses /\ ~Resets
  <2>1. Access(c, r, q) /\ (HostWrites \/ (r.bsy => q = r))
    BY <1>2 DEF Accesses
  <2>2. HostWrites => ~r.srst
    BY <1>0, <1>2 DEF HostWrites, Orderly
  <2> HIDE DEF r, q
  <2>3. q.srst = r.srst
    BY <2>1 DEF Access, Fixed
  <2>4. SrstHeld(q)
    BY <1>0, <1>2, <2>1, <2>2, <2>3 DEF SrstHeld
  <2> QED
    BY <2>4 DEF q
<1>3. CASE Controls /\ ~Resets
  <2>1. PICK srst \in BOOLEAN :
           ControlDone(c, r, q, srst) /\ (srst => ~r.resetting)
    BY <1>3 DEF Controls, Orderly
  <2> HIDE DEF r, q
  <2>2. SrstHeld(q)
    BY <1>0, <1>3, <2>1 DEF SrstHeld, ControlDone, SrstRisen, SrstKept
  <2> QED
    BY <2>2 DEF q
<1>4. CASE Elapses /\ ~Resets
  <2>1. TimeDone(r, q)
    BY <1>4 DEF Elapses
  <2> HIDE DEF r, q
  <2>2. q.srst = r.srst /\ q.bsy = r.bsy /\ q.param = r.param
    BY <2>1 DEF TimeDone, Agree, Fields
  <2>3. SrstHeld(q)
    BY <1>0, <1>4, <2>1, <2>2 DEF SrstHeld, TimeDone, Never
  <2> QED
    BY <2>3 DEF q
<1>5. CASE Expires /\ ~Resets
  <2>1. PICK o \in DOMAIN dev : dev[o].left = 0 /\ TickResult(dev, o, dev')
    BY <1>5 DEF Expires
  <2>2. CASE o = c
    <3>1. Ticked(c, dev, r, q) /\ r.left = 0
      BY <2>1, <2>2 DEF TickResult
    <3> HIDE DEF r, q
    <3>2. q.srst = r.srst
      BY <3>1, TickFixed
    <3>3. SrstHeld(q)
      BY <1>0, <1>5, <3>1, <3>2 DEF SrstHeld, Never
    <3> QED
      BY <3>3 DEF q
  <2>3. CASE o # c
    <3>1. q = r \/ (r.param = "pdiag" /\ Woken(r, q))
      BY <2>1, <2>3 DEF TickResult, Spared, Calls
    <3> HIDE DEF r, q
    <3>2. q.srst = r.srst
      BY <3>1 DEF Woken, Agree, Fields
    <3>3. SrstHeld(q)
      BY <1>0, <1>5, <3>1, <3>2 DEF SrstHeld
    <3> QED
      BY <3>3 DEF q
  <2> QED
    BY <2>2, <2>3
<1>6. CASE Resets
  BY <1>6 DEF Resets, ResetDone, SrstHeld
<1> QED
  BY <1>1, <1>2, <1>3, <1>4, <1>5, <1>6, Outline

\* A working device 1 passes its diagnostic before device 0 gives up on it.
LEMMA AwaitsStep ==
    ASSUME AtaInv, Cable, Order, Effect, host' = host, Orderly', Both
    PROVE  Awaits(dev'[0], dev'[1])
<1> DEFINE a == dev[0]
           b == dev[1]
           p == dev'[0]
           q == dev'[1]
<1>0. /\ Pair(a, b) /\ Second(b) /\ Sound(a) /\ Sound(b)
      /\ ~Resets => /\ Orderly /\ SrstHeld(a) /\ SrstHeld(b) /\ Awaits(a, b)
  BY OrderlyBefore, Outline DEF Cable, AtaInv, Both, Order
<1>01. /\ (a.bsy /\ a.drq) => a.srst
       /\ (b.bsy /\ b.drq) => b.srst
       /\ a.resetting => a.param # "reset"
       /\ b.resetting => b.param # "reset"
  BY <1>0 DEF Sound, TimerOK
<1>02. a.left \in Nat \cup {-1} /\ b.left \in Nat \cup {-1} /\ DiagTime # 0
  BY <1>0, DeviceTypes, Times DEF Sound, Never
<1>03. HostRuns => a.left # 0 /\ b.left # 0
  BY DEF HostRuns, Both
<1>1. CASE Stays /\ ~Resets
  BY <1>0, <1>1 DEF Stays
<1>2. CASE Accesses /\ ~Resets
  <2>1. Access(0, a, p) /\ Access(1, b, q)
    BY <1>2 DEF Accesses, Both
  <2>2. \/ ~a.srst /\ ~b.srst
        \/ (a.bsy => p = a) /\ (b.bsy => q = b)
    BY <1>0, <1>2 DEF Accesses, HostWrites, Orderly, Both
  <2> HIDE DEF a, b, p, q
  <2>3. (a.bsy => p = a) /\ (b.bsy => q = b)
    BY <1>01, <2>1, <2>2 DEF Access
  <2>4. q.ident = b.ident /\ q.pdiag = b.pdiag
    BY <2>1 DEF Access, Fixed
  <2>5. Awaits(p, q)
    BY <1>0, <1>2, <2>3, <2>4 DEF Awaits
  <2> QED
    BY <2>5 DEF p, q
<1>3. CASE Controls /\ ~Resets
  <2>1. PICK srst \in BOOLEAN :
          /\ ControlDone(0, a, p, srst) /\ ControlDone(1, b, q, srst)
          /\ srst => ~a.resetting /\ ~b.resetting
    BY <1>3 DEF Controls, Both, Orderly
  <2> HIDE DEF a, b, p, q
  <2>2. a.srst \in BOOLEAN /\ b.srst = a.srst
    BY <1>0, DeviceFlags DEF Sound, Pair
  <2>3. CASE srst /\ ~a.srst
    <3>1. SrstRisen(p) /\ SrstRisen(q) /\ p.srst /\ q.srst
      BY <2>1, <2>2, <2>3 DEF ControlDone
    <3> QED
      BY <3>1 DEF Awaits, Phase, SrstRisen, p, q
  <2>4. CASE ~srst /\ a.srst
    <3>1. SrstFallen(a, p) /\ SrstFallen(b, q)
      BY <1>0, <1>3, <2>1, <2>2, <2>4 DEF ControlDone, SrstHeld
    <3> QED
      BY <3>1 DEF Awaits, Phase, SrstFallen, p, q
  <2>5. CASE srst = a.srst
    <3>1. /\ SrstKept(a, p) /\ SrstKept(b, q) /\ p.srst = a.srst /\ q.srst = b.srst
          /\ p.resetting = a.resetting /\ q.resetting = b.resetting
          /\ q.ident = b.ident
      BY <2>1, <2>2, <2>5 DEF ControlDone
    <3>2. Awaits(p, q)
      BY <1>0, <1>3, <3>1 DEF Awaits, Phase, SrstKept
    <3> QED
      BY <3>2 DEF p, q
  <2> QED
    BY <2>2, <2>3, <2>4, <2>5
<1>4. CASE Elapses /\ ~Resets
  <2>1. TimeDone(a, p) /\ TimeDone(b, q) /\ HostRuns
    BY <1>4 DEF Elapses, Both
  <2> HIDE DEF a, b, p, q
  <2>2. /\ p.bsy = a.bsy /\ p.param = a.param /\ p.srst = a.srst
        /\ p.resetting = a.resetting
        /\ q.bsy = b.bsy /\ q.param = b.param /\ q.srst = b.srst
        /\ q.resetting = b.resetting /\ q.ident = b.ident /\ q.pdiag = b.pdiag
    BY <2>1 DEF TimeDone, Agree, Fields
  <2>3. /\ b.left = a.left => q.left = p.left
        /\ a.left = Never => p.left = Never
        /\ b.left = Never => q.left = Never
    BY <1>02, <2>1 DEF TimeDone, Never
  <2>4. Awaits(p, q)
    BY <1>0, <1>03, <1>4, <2>1, <2>2, <2>3 DEF Awaits, Phase
  <2> QED
    BY <2>4 DEF p, q
<1>6. CASE Resets
  <2>1. ResetDone(0, a, p) /\ ResetDone(1, b, q)
    BY <1>6 DEF Resets, Both
  <2> HIDE DEF a, b, p, q
  <2>2. Awaits(p, q)
    BY <2>1 DEF ResetDone, Awaits, Phase
  <2> QED
    BY <2>2 DEF p, q
<1>5. CASE Expires /\ ~Resets
  <2>1. PICK o \in DOMAIN dev : dev[o].left = 0 /\ TickResult(dev, o, dev')
    BY <1>5 DEF Expires
  <2>2. o \in {0, 1}
    BY HostFacts
  <2>3. CASE o = 0
    <3>1. Ticked(0, dev, a, p) /\ a.left = 0 /\ q = b
      BY <2>1, <2>3 DEF TickResult, Spared, Calls, Both
    <3>2. pdiagin(dev) => b.pdiag
      BY DEF pdiagin
    <3> HIDE DEF a, b, p, q
    <3> SUFFICES ASSUME b.ident, ~b.pdiag PROVE p.bsy /\ b.bsy /\ Phase(p, b)
      BY <3>1 DEF Awaits, p, q
    <3>3. a.bsy /\ b.bsy /\ Phase(a, b) /\ ~a.single
      BY <1>0, <1>5 DEF Awaits, Pair
    <3>4. /\ a.param \in {"detect", "diagnostic"}
          /\ b.param = "diagnostic" /\ b.left = 0
      BY <1>02, <3>1, <3>3 DEF Phase, Never
    <3>5. TickDetect(dev, a, p) \/ TickWait(0, dev, a, p)
      BY <3>1, <3>2, <3>3, <3>4
         DEF Ticked, TickEnd, TickCommand, TickIdle, Diagnosing
    <3> QED
      BY <3>3, <3>4, <3>5 DEF TickDetect, TickWait, Phase
  <2>4. CASE o = 1
    <3>1. Ticked(1, dev, b, q) /\ b.left = 0
      BY <2>1, <2>4 DEF TickResult
    <3> HIDE DEF a, b, p, q
    <3>2. q.ident = b.ident
      BY <3>1, TickFixed
    <3>3. ASSUME q.ident, ~q.pdiag PROVE FALSE
      <4>1. b.bsy
        BY <1>0, <3>1 DEF Sound, TimerOK, Never
      <4>2. b.pdiag => q.pdiag
        <5>1. TickDetect(dev, b, q) \/ TickIdle(b, q) => q.pdiag = b.pdiag
          BY DEF TickDetect, TickIdle, Agree, Fields
        <5>2. TickWait(1, dev, b, q) \/ TickCommand(1, b, q) => q.pdiag = b.pdiag
          BY DEF TickWait, TickCommand, Keeps, Fixed
        <5>3. TickEnd(1, dev, b, q) => (b.pdiag => q.pdiag)
          BY DEF TickEnd
        <5> QED
          BY <3>1, <5>1, <5>2, <5>3 DEF Ticked
      <4>3. b.bsy /\ Phase(a, b)
        BY <1>0, <1>5, <3>2, <3>3, <4>2 DEF Awaits
      <4>4. b.param = "diagnostic"
        BY <3>1, <4>3 DEF Phase, Never
      <4>5. TickEnd(1, dev, b, q)
        BY <3>1, <4>4 DEF Ticked, TickDetect, TickWait, TickCommand, TickIdle
      <4> QED
        BY <3>2, <3>3, <4>4, <4>5 DEF TickEnd
    <3>4. Awaits(p, q)
      BY <3>3 DEF Awaits
    <3> QED
      BY <3>4 DEF p, q
  <2> QED
    BY <2>2, <2>3, <2>4
<1> QED
  BY <1>1, <1>2, <1>3, <1>4, <1>5, <1>6, Outline

\* Device 0 blames device 1 only when it does not work.
LEMMA BlamesStep ==
    ASSUME AtaInv, Cable, Order, Effect, host' = host, Orderly', Both
    PROVE  Blames(dev'[0], dev'[1])
<1> DEFINE a == dev[0]
           b == dev[1]
           p == dev'[0]
           q == dev'[1]
<1>0. /\ First(a, TRUE) /\ Sound(a) /\ Sound(b)
      /\ ~Resets => Awaits(a, b) /\ Blames(a, b) /\ Pair(a, b)
  <2>1. First(a, 1 \in DOMAIN dev) /\ 1 \in DOMAIN dev
    BY DEF Cable, Both
  <2>2. First(a, TRUE)
    BY <2>1 DEF First
  <2> QED
    BY <2>2, OrderlyBefore, Outline DEF Cable, AtaInv, Both, Order
<1>1. CASE Stays /\ ~Resets
  BY <1>0, <1>1 DEF Stays
<1>2. CASE Accesses /\ ~Resets
  <2>1. Access(0, a, p) /\ Access(1, b, q)
    BY <1>2 DEF Accesses, Both
  <2> HIDE DEF a, b, p, q
  <2>2. p.resetting = a.resetting /\ (p.device1 => a.device1) /\ q.ident = b.ident
    BY <2>1 DEF Access, Fixed
  <2>3. Blames(p, q)
    BY <1>0, <1>2, <2>2 DEF Blames
  <2> QED
    BY <2>3 DEF p, q
<1>3. CASE Controls /\ ~Resets
  <2>1. PICK srst \in BOOLEAN : ControlDone(0, a, p, srst) /\ ControlDone(1, b, q, srst)
    BY <1>3 DEF Controls, Both
  <2> HIDE DEF a, b, p, q
  <2>2. p.resetting = a.resetting /\ p.device1 = a.device1 /\ q.ident = b.ident
    BY <2>1 DEF ControlDone
  <2>3. Blames(p, q)
    BY <1>0, <1>3, <2>2 DEF Blames
  <2> QED
    BY <2>3 DEF p, q
<1>4. CASE Elapses /\ ~Resets
  <2>1. TimeDone(a, p) /\ TimeDone(b, q)
    BY <1>4 DEF Elapses, Both
  <2> HIDE DEF a, b, p, q
  <2>2. p.resetting = a.resetting /\ p.device1 = a.device1 /\ q.ident = b.ident
    BY <2>1 DEF TimeDone, Agree, Fields
  <2>3. Blames(p, q)
    BY <1>0, <1>4, <2>2 DEF Blames
  <2> QED
    BY <2>3 DEF p, q
<1>5. CASE Expires /\ ~Resets
  <2>1. PICK o \in DOMAIN dev : dev[o].left = 0 /\ TickResult(dev, o, dev')
    BY <1>5 DEF Expires
  <2>2. o \in {0, 1}
    BY HostFacts
  <2>3. CASE o = 0
    <3>1. Ticked(0, dev, a, p) /\ a.left = 0 /\ q = b
      BY <2>1, <2>3 DEF TickResult, Spared, Calls, Both
    <3>2. a.bsy
      BY <1>0, <3>1 DEF Sound, TimerOK, Never
    <3> HIDE DEF a, b, p, q
    <3>3. ASSUME TickEnd(0, dev, a, p), p.device1, b.ident PROVE FALSE
      <4>1. a.param = "pdiag"
        BY <3>3 DEF TickEnd
      <4>2. ~b.pdiag
        BY <1>0, <1>5, <3>2, <4>1 DEF Pair
      <4>3. a.left = DiagTime
        BY <1>0, <1>5, <3>3, <4>1, <4>2 DEF Awaits, Phase
      <4> QED
        BY <3>1, <4>3, Times
    <3>4. TickWait(0, dev, a, p) => ~p.device1
      BY DEF TickWait
    <3>5. ASSUME TickDetect(dev, a, p) \/ TickCommand(0, a, p) \/ TickIdle(a, p)
          PROVE  p.resetting = a.resetting /\ (p.device1 => a.device1)
      <4>1. TickDetect(dev, a, p) \/ TickIdle(a, p) =>
              p.resetting = a.resetting /\ p.device1 = a.device1
        BY DEF TickDetect, TickIdle, Agree, Fields
      <4>2. TickCommand(0, a, p) =>
              p.resetting = a.resetting /\ (p.device1 => a.device1)
        BY DEF TickCommand, Keeps, Fixed
      <4> QED
        BY <3>5, <4>1, <4>2
    <3>6. Blames(p, q)
      BY <1>0, <1>5, <3>1, <3>3, <3>4, <3>5 DEF Ticked, Blames
    <3> QED
      BY <3>6 DEF p, q
  <2>4. CASE o = 1
    <3>1. Ticked(1, dev, b, q)
      BY <2>1, <2>4 DEF TickResult
    <3>2. \/ p = a
          \/ b.ident /\ ~b.pdiag /\ a.param = "pdiag" /\ Woken(a, p)
      BY <2>1, <2>4 DEF TickResult, Spared, Calls, Both
    <3> HIDE DEF a, b, p, q
    <3>3. q.ident = b.ident
      BY <3>1, TickFixed
    <3>4. ASSUME b.ident, ~b.pdiag, a.param = "pdiag", Woken(a, p) PROVE ~p.device1
      <4>1. a.bsy
        BY <1>0, <1>5, <3>4 DEF Awaits
      <4>2. ~a.device1
        BY <1>0, <3>4, <4>1 DEF First
      <4>3. p.device1 = a.device1
        BY <3>4 DEF Woken, Agree, Fields
      <4> QED
        BY <4>2, <4>3
    <3>5. Blames(p, q)
      BY <1>0, <1>5, <3>2, <3>3, <3>4 DEF Blames
    <3> QED
      BY <3>5 DEF p, q
  <2> QED
    BY <2>2, <2>3, <2>4
<1>6. CASE Resets
  <2>1. ResetDone(0, a, p)
    BY <1>6 DEF Resets, Both
  <2> QED
    BY <2>1 DEF ResetDone, Blames
<1> QED
  BY <1>1, <1>2, <1>3, <1>4, <1>5, <1>6, Outline

\* The invariant of the reset protocol is inductive for an orderly host.
LEMMA OrderStep ==
    ASSUME AtaInv, Cable, Order, [Next]_vars PROVE Order'
<1>1. host' = host /\ DOMAIN dev' = DOMAIN dev /\ Effect
  BY StepEffect
<1>2. ASSUME Orderly', NEW c \in DOMAIN dev' PROVE SrstHeld(dev'[c])
  BY <1>1, <1>2, SrstHeldStep
<1>3. ASSUME Orderly', Both' PROVE Awaits(dev'[0], dev'[1]) /\ Blames(dev'[0], dev'[1])
  <2>1. Both
    BY <1>1, <1>3 DEF Both
  <2> QED
    BY <1>1, <1>3, <2>1, AwaitsStep, BlamesStep
<1> QED
  BY <1>2, <1>3 DEF Order

\* The reset protocol starts in step.
LEMMA OrderInit == Init => Order
<1> SUFFICES ASSUME Init PROVE Order
  OBVIOUS
<1>1. \A c \in DOMAIN dev : Started(c, dev[c])
  BY InitDevices
<1>2. \A c \in DOMAIN dev : SrstHeld(dev[c])
  BY <1>1 DEF Started, SrstHeld
<1>3. Both => Awaits(dev[0], dev[1]) /\ Blames(dev[0], dev[1])
  BY <1>1 DEF Both, Started, Awaits, Blames, Phase
<1> QED
  BY <1>2, <1>3 DEF Order

\* A transfer's address; the host that can spoil it has two disks and does not
\* wait for BSY.
Undisturbed == ~early /\ (host.patient \/ host.slots # {0, 1})

Placing == Undisturbed => \A c \in DOMAIN dev : Placed(dev[c])

\* No transfer is under way after the power-on reset.
LEMMA PlacingInit == Init => Placing
BY InitDevices DEF Placing, Started

\* The address of a transfer survives every step of a host that does not disturb
\* it.
LEMMA PlacingStep ==
    ASSUME AtaInv, Cable, Order, Placing, [Next]_vars PROVE Placing'
<1>1. host' = host /\ DOMAIN dev' = DOMAIN dev /\ Effect
  BY StepEffect
<1> SUFFICES ASSUME Undisturbed', NEW c \in DOMAIN dev PROVE Placed(dev'[c])
  BY <1>1 DEF Placing
<1>2. ASSUME ~Resets PROVE Undisturbed /\ Placed(dev[c])
  <2>1. Controls => (early => early')
    BY Zenon DEF Controls
  <2>2. early => early'
    BY <1>1, <1>2, <2>1, Outline DEF Stays, Accesses, Elapses, Expires
  <2> QED
    BY <1>1, <2>2 DEF Placing, Undisturbed
<1>3. CASE Resets
  BY <1>3 DEF Resets, ResetDone
<1>4. CASE Stays /\ ~Resets
  BY <1>2, <1>4 DEF Stays
<1>5. CASE Accesses /\ ~Resets
  BY <1>2, <1>5 DEF Accesses, Access, Kept
<1>6. CASE Controls /\ ~Resets
  BY <1>2, <1>6 DEF Controls, ControlDone, Kept
<1>7. CASE Elapses /\ ~Resets
  BY <1>2, <1>7 DEF Elapses, TimeDone, Kept
<1>8. CASE Expires /\ ~Resets
  <2>1. PICK o \in DOMAIN dev : dev[o].left = 0 /\ TickResult(dev, o, dev')
    BY <1>8 DEF Expires
  <2>2. CASE o = c
    BY <1>2, <1>8, <2>1, <2>2 DEF TickResult, Ticked
  <2>3. CASE o # c
    <3>1. Spared(o, dev, c, dev'[c])
      BY <2>1, <2>3 DEF TickResult
    <3>2. CASE Calls(o, dev, c)
      <4>1. /\ o = 1 /\ c = 0 /\ dev[1].ident /\ ~dev[1].pdiag
            /\ dev[0].param = "pdiag" /\ Woken(dev[0], dev'[0])
        BY <3>1, <3>2 DEF Spared, Calls
      <4>2. Both /\ DOMAIN dev = {0, 1}
        BY <4>1, HostFacts DEF Both
      <4>3. Orderly
        BY <1>2, <1>8, <4>2 DEF Undisturbed, Orderly, AtaInv
      <4>4. dev[0].bsy /\ Phase(dev[0], dev[1])
        BY <4>1, <4>2, <4>3 DEF Order, Awaits
      <4>5. dev[0].left = DiagTime
        BY <4>1, <4>4 DEF Phase
      <4>6. Sound(dev[0])
        BY <4>2 DEF AtaInv
      <4>7. ~dev[0].drq
        BY <4>4, <4>5, <4>6, Times DEF Sound, TimerOK
      <4> QED
        BY <4>1, <4>7 DEF Woken
    <3>3. CASE ~Calls(o, dev, c)
      BY <1>2, <1>8, <3>1, <3>3 DEF Spared
    <3> QED
      BY <3>2, <3>3
  <2> QED
    BY <2>2, <2>3
<1> QED
  BY <1>1, <1>3, <1>4, <1>5, <1>6, <1>7, <1>8, Outline

PairInv == AtaInv /\ Cable /\ Order /\ Placing

\* The invariants of the two devices hold in every reachable state.
LEMMA PairInvariant == Spec => []PairInv
<1>1. Init => PairInv
  BY AtaInit, CableInit, OrderInit, PlacingInit DEF PairInv
<1>2. PairInv /\ [Next]_vars => PairInv'
  BY AtaStep, CableStep, OrderStep, PlacingStep DEF PairInv
<1> QED
  BY <1>1, <1>2, PTL DEF Spec

\* The task file points at the next sector of a transfer, and what remains and
\* what was moved add up, for every host that cannot write to a busy device's
\* neighbour.
THEOREM TransferCorrect == Spec => []TransferInOrder
<1>1. ASSUME PairInv, Undisturbed, NEW c \in DOMAIN dev, InTransfer(dev[c])
      PROVE  LET r    == dev[c]
                 seen == IF r.moved < r.want THEN r.moved ELSE r.want - 1
                 held == IF r.drq /\ r.command \in ReadCmds THEN 1 ELSE 0
             IN  /\ r.lba = (r.base + seen) % AddrSpace
                 /\ r.remaining + r.moved = r.want + held
  <2> DEFINE r == dev[c]
  <2>1. Sound(r) /\ Placed(r) /\ InTransfer(r)
    BY <1>1 DEF PairInv, AtaInv, Placing
  <2> HIDE DEF r
  <2>2. r.command \in DataCmds /\ ~r.mixed /\ (r.drq \/ Waits(r))
    BY <2>1 DEF InTransfer, DataCmds, Waits
  <2>3. r.lba = (r.base + Seen(r)) % AddrSpace
    BY <2>1, <2>2 DEF Placed, Spot
  <2>4. r.remaining + r.moved = r.want + HeldIn(r)
    BY <2>1, <2>2 DEF Sound, Moving, Ahead
  <2> QED
    BY <2>3, <2>4 DEF Seen, HeldIn, r
<1>2. PairInv => TransferInOrder
  BY <1>1 DEF TransferInOrder, Undisturbed
<1> QED
  BY <1>2, PairInvariant, PTL

\* Out of reset device 0 knows whether there is a device 1 and blames it only
\* when it does not work: the handshake over DASP and PDIAG comes out right for
\* every DIAGNOSTIC_TIME.
THEOREM DiagnosisCorrect == Spec => []DiagnosisRight
<1>1. ASSUME PairInv, Orderly, 0 \in DOMAIN dev, ~dev[0].resetting
      PROVE  /\ dev[0].single <=> 1 \notin DOMAIN dev
             /\ dev[0].device1 => 1 \in DOMAIN dev /\ ~dev[1].ident
  <2>1. Sound(dev[0]) /\ First(dev[0], 1 \in DOMAIN dev)
    BY <1>1 DEF PairInv, AtaInv, Cable
  <2>2. CASE 1 \in DOMAIN dev
    <3>1. Pair(dev[0], dev[1]) /\ Blames(dev[0], dev[1])
      BY <1>1, <2>2 DEF PairInv, Cable, Order, Both
    <3> QED
      BY <1>1, <2>2, <3>1 DEF Pair, Blames
  <2>3. CASE 1 \notin DOMAIN dev
    BY <1>1, <2>1, <2>3 DEF First, Sound, TimerOK
  <2> QED
    BY <2>2, <2>3
<1>2. PairInv => DiagnosisRight
  BY <1>1 DEF DiagnosisRight
<1> QED
  BY <1>2, PairInvariant, PTL

\* An expiry reaches the other device only through PDIAG.
LEMMA TickWakes ==
    ASSUME PairInv, Effect, Orderly, NEW c \in DOMAIN dev,
           dev[c].left = 0, dev'[c].left # 0, NEW o \in DOMAIN dev \ {c}
    PROVE  dev'[o] = dev[o] \/ (dev[o].bsy /\ dev[o].param = "pdiag")
<1>0. AtaInv /\ Order
  BY DEF PairInv
<1>1. ~HostRuns
  BY DEF HostRuns
<1>2. PICK t \in DOMAIN dev : dev[t].left = 0 /\ TickResult(dev, t, dev')
  BY <1>1 DEF Effect, HostWrites
<1>3. ASSUME NEW x \in DOMAIN dev \ {t}, Calls(t, dev, x)
      PROVE  dev[x].bsy /\ dev[x].param = "pdiag" /\ dev[x].left = DiagTime
  <2>1. x = 0 /\ t = 1 /\ dev[1].ident /\ ~dev[1].pdiag /\ dev[0].param = "pdiag"
    BY <1>3 DEF Calls
  <2>2. Awaits(dev[0], dev[1])
    BY <1>0, <2>1 DEF Order, Both
  <2> QED
    BY <2>1, <2>2 DEF Awaits, Phase
<1>4. CASE t = c
  <2>1. Spared(c, dev, o, dev'[o])
    BY <1>2, <1>4 DEF TickResult
  <2> QED
    BY <1>3, <1>4, <2>1 DEF Spared
<1>5. CASE t # c
  <2>1. Spared(t, dev, c, dev'[c])
    BY <1>2, <1>5 DEF TickResult
  <2>2. Calls(t, dev, c)
    BY <2>1 DEF Spared
  <2> QED
    BY <1>3, <1>5, <2>2, Times
<1> QED
  BY <1>4, <1>5

\* set_pdiag of device 1 ends only the wait of a device 0 that is waiting for it.
THEOREM WakeCorrect == Spec => WakesOnlyWaiter
<1> DEFINE A == Orderly => \A c \in {0, 1} :
         (c \in DOMAIN dev /\ dev[c].left = 0 /\ dev'[c].left # 0) =>
            \A o \in DOMAIN dev \ {c} :
                \/ dev'[o] = dev[o]
                \/ dev[o].bsy /\ dev[o].param = "pdiag"
<1>1. PairInv /\ [Next]_vars => [A]_vars
  <2> SUFFICES ASSUME PairInv, [Next]_vars PROVE A
    OBVIOUS
  <2>1. Effect
    BY StepEffect DEF PairInv
  <2> QED
    BY <2>1, TickWakes
<1>2. WakesOnlyWaiter <=> [][A]_vars
  BY DEF WakesOnlyWaiter
<1> HIDE DEF A
<1> QED
  BY <1>1, <1>2, PairInvariant, PTL DEF Spec

-----------------------------------------------------------------------------
(* The drive select *)

Lines(c, r) == Wired(c, r) /\ ((r.bsy /\ r.param # "command") => ~r.irq)

Idles(r) == ~r.bsy \/ r.param = "command"

\* The two copies of the drive select agree and only the selected device can be
\* busy; or both are in a reset; or only device 0 still is.
Select(a, b) ==
    \/ /\ a.drv = b.drv /\ Idles(a) /\ Idles(b)
       /\ a.bsy => a.drv = 0
       /\ b.bsy => b.drv = 1
    \/ a.bsy /\ b.bsy /\ ~b.pdiag /\ Phase(a, b)
    \/ /\ a.bsy /\ a.param \in {"detect", "diagnostic", "pdiag"}
       /\ ~b.bsy /\ b.drv = 0

Undiagnosed == ~diagnosed => \A c \in DOMAIN dev : dev[c].command # "diagnostic"

Selection ==
    (Orderly /\ ~diagnosed) =>
        /\ \A c \in DOMAIN dev : Lines(c, dev[c])
        /\ Both => Select(dev[0], dev[1])

\* Without EXECUTE DEVICE DIAGNOSTIC no device has it as its command.
LEMMA UndiagnosedStep ==
    ASSUME AtaInv, Undiagnosed, [Next]_vars PROVE Undiagnosed'
<1>1. DOMAIN dev' = DOMAIN dev /\ Effect
  BY StepEffect
<1> SUFFICES ASSUME ~diagnosed', NEW c \in DOMAIN dev
             PROVE  dev'[c].command # "diagnostic"
  BY <1>1 DEF Undiagnosed
<1>2. ~diagnosed
  BY <1>1 DEF Effect
<1>3. dev[c].command # "diagnostic"
  BY <1>2 DEF Undiagnosed
<1>4. Written(c, dev[c], dev'[c]) => dev'[c].command = dev[c].command
  BY DEF Written, Keeps, Fixed
<1>5. \A drv : HeadDone(c, dev[c], dev'[c], drv) => dev'[c].command = dev[c].command
  BY DEF HeadDone, Fixed
<1>6. \A cmd : CommandDone(c, dev[c], dev'[c], cmd) => dev'[c].command \in {dev[c].command, cmd}
  BY DEF CommandDone
<1>7. DataDone(c, dev[c], dev'[c]) => dev'[c].command = dev[c].command
  BY DEF DataDone, Keeps, Fixed
<1>8. StatusDone(c, dev[c], dev'[c]) => dev'[c].command = dev[c].command
  BY DEF StatusDone, Keeps, Fixed
<1>9. ASSUME NEW srst \in BOOLEAN, ControlDone(c, dev[c], dev'[c], srst)
      PROVE  dev'[c].command = dev[c].command
  BY <1>9 DEF ControlDone
<1>10. TimeDone(dev[c], dev'[c]) => dev'[c].command = dev[c].command
  BY DEF TimeDone, Agree, Fields
<1>11. ASSUME NEW o \in DOMAIN dev, TickResult(dev, o, dev')
       PROVE  dev'[c].command = dev[c].command
  <2>1. CASE o = c
    BY <1>11, <2>1, TickFixed DEF TickResult
  <2>2. CASE o # c
    <3>1. dev'[c] = dev[c] \/ Woken(dev[c], dev'[c])
      BY <1>11, <2>2 DEF TickResult, Spared
    <3> QED
      BY <3>1 DEF Woken, Agree, Fields
  <2> QED
    BY <2>1, <2>2
<1>12. ResetDone(c, dev[c], dev'[c]) => dev'[c].command = dev[c].command
  BY DEF ResetDone
<1> QED
  BY <1>1, <1>3, <1>4, <1>5, <1>6, <1>7, <1>8, <1>9, <1>10, <1>11, <1>12 DEF Effect

\* Every interrupt line stays what its device makes it, and a reset keeps it
\* down.
LEMMA LinesStep ==
    ASSUME PairInv, Undiagnosed, Selection, Effect, host' = host,
           Orderly', ~diagnosed', NEW c \in DOMAIN dev
    PROVE  Lines(c, dev'[c])
<1> DEFINE r == dev[c]
           q == dev'[c]
<1>00. AtaInv /\ Cable /\ Order /\ ~diagnosed
  <2>1. AtaInv /\ Cable /\ Order
    BY DEF PairInv
  <2>2. ~diagnosed
    BY DEF Effect
  <2> QED
    BY <2>1, <2>2
<1>0. /\ Sound(r) /\ Honest(r) /\ r.command # "diagnostic"
      /\ ~Resets => Orderly /\ SrstHeld(r) /\ Lines(c, r)
  BY <1>00, OrderlyBefore, Outline DEF AtaInv, Cable, Order, Undiagnosed, Selection
<1>1. CASE Stays /\ ~Resets
  BY <1>0, <1>1 DEF Stays
<1>2. CASE Accesses /\ ~Resets
  <2>1. Access(c, r, q)
    BY <1>2 DEF Accesses
  <2> HIDE DEF r, q
  <2>2. Lines(c, q)
    BY <1>0, <1>2, <2>1 DEF Access, Lines, Linked, Stopped
  <2> QED
    BY <2>2 DEF q
<1>3. CASE Controls /\ ~Resets
  <2>1. PICK srst \in BOOLEAN : ControlDone(c, r, q, srst)
    BY <1>3 DEF Controls
  <2> HIDE DEF r, q
  <2>2. Wired(c, q)
    BY <1>0, <1>3, <2>1 DEF ControlDone, Lines, Linked
  <2>3. \/ SrstRisen(q)
        \/ SrstFallen(r, q) /\ r.bsy /\ r.param = "reset"
        \/ SrstKept(r, q)
    BY <1>0, <1>3, <2>1 DEF ControlDone, SrstHeld
  <2>4. Lines(c, q)
    BY <1>0, <1>3, <2>2, <2>3 DEF Lines, SrstRisen, SrstFallen, SrstKept
  <2> QED
    BY <2>4 DEF q
<1>4. CASE Elapses /\ ~Resets
  <2>1. TimeDone(r, q)
    BY <1>4 DEF Elapses
  <2> HIDE DEF r, q
  <2>2. /\ q.irq = r.irq /\ q.irqout = r.irqout /\ q.drv = r.drv /\ q.nien = r.nien
        /\ q.bsy = r.bsy /\ q.param = r.param
    BY <2>1 DEF TimeDone, Agree, Fields
  <2>3. Lines(c, q)
    BY <1>0, <1>4, <2>2 DEF Lines, Wired, Selected
  <2> QED
    BY <2>3 DEF q
<1>5. CASE Expires /\ ~Resets
  <2>1. PICK o \in DOMAIN dev : dev[o].left = 0 /\ TickResult(dev, o, dev')
    BY <1>5 DEF Expires
  <2>2. r.irq \in BOOLEAN /\ r.irqout \in BOOLEAN
    BY <1>0, DeviceFlags DEF Sound
  <2>3. CASE o = c
    <3>1. Ticked(c, dev, r, q) /\ r.left = 0
      BY <2>1, <2>3 DEF TickResult
    <3>2. r.bsy
      BY <1>0, <3>1 DEF Sound, TimerOK, Never
    <3>3. q.nien = r.nien
      BY <3>1, TickFixed
    <3> HIDE DEF r, q
    <3>4. ASSUME TickDetect(dev, r, q) PROVE Lines(c, q)
      <4>1. q.irq = r.irq /\ q.irqout = r.irqout /\ q.drv = r.drv
        BY <3>4 DEF TickDetect, Agree, Fields
      <4> QED
        BY <1>0, <1>5, <3>2, <3>3, <3>4, <4>1 DEF TickDetect, Lines, Wired, Selected
    <3>5. ASSUME TickWait(c, dev, r, q) PROVE Lines(c, q)
      <4>1. q.irq = r.irq /\ q.irqout = r.irqout /\ r.param = "diagnostic"
        BY <1>0, <3>5 DEF TickWait, TickIrq, Diagnosing
      <4>2. q.drv = r.drv
        BY <3>5 DEF TickWait, Agree, Fields
      <4> QED
        BY <1>0, <1>5, <3>2, <3>3, <4>1, <4>2 DEF Lines, Wired, Selected
    <3>6. ASSUME TickEnd(c, dev, r, q) PROVE Lines(c, q)
      <4>1. q.irq = r.irq /\ q.irqout = r.irqout /\ r.param # "command"
        BY <1>0, <3>6 DEF TickEnd, TickIrq, Diagnosing
      <4>2. ~r.irq /\ r.irqout = FALSE
        BY <1>0, <1>5, <2>2, <3>2, <4>1 DEF Lines, Wired
      <4> QED
        BY <4>1, <4>2 DEF Lines, Wired
    <3>7. ASSUME TickCommand(c, r, q) PROVE Lines(c, q)
      BY <1>0, <1>5, <3>7 DEF TickCommand, Keeps, Linked, Lines
    <3>8. ASSUME TickIdle(r, q) PROVE Lines(c, q)
      <4>1. q.irq = r.irq /\ q.irqout = r.irqout /\ q.drv = r.drv
        BY <3>8 DEF TickIdle, Agree, Fields
      <4> QED
        BY <1>0, <1>5, <3>3, <3>8, <4>1 DEF TickIdle, Lines, Wired, Selected
    <3>9. Lines(c, q)
      BY <3>1, <3>4, <3>5, <3>6, <3>7, <3>8 DEF Ticked
    <3> QED
      BY <3>9 DEF q
  <2>4. CASE o # c
    <3>1. Spared(o, dev, c, q)
      BY <2>1, <2>4 DEF TickResult
    <3>2. CASE Calls(o, dev, c)
      <4>1. /\ o = 1 /\ c = 0 /\ dev[1].ident /\ ~dev[1].pdiag
            /\ r.param = "pdiag" /\ Woken(r, q)
        BY <3>1, <3>2 DEF Spared, Calls
      <4>2. Awaits(dev[0], dev[1])
        BY <1>0, <1>00, <1>5, <4>1 DEF Order, Both
      <4>3. r.bsy
        BY <4>1, <4>2 DEF Awaits
      <4>4. ~r.irq /\ r.irqout = FALSE
        BY <1>0, <1>5, <2>2, <4>1, <4>3 DEF Lines, Wired
      <4> HIDE DEF r, q
      <4>5. q.irq = r.irq /\ q.irqout = r.irqout
        BY <4>1 DEF Woken, Agree, Fields
      <4>6. Lines(c, q)
        BY <4>4, <4>5 DEF Lines, Wired
      <4> QED
        BY <4>6 DEF q
    <3>3. CASE ~Calls(o, dev, c)
      BY <1>0, <1>5, <3>1, <3>3 DEF Spared
    <3> QED
      BY <3>2, <3>3
  <2> QED
    BY <2>3, <2>4
<1>6. CASE Resets
  <2>1. ResetDone(c, r, q)
    BY <1>6 DEF Resets
  <2> QED
    BY <1>0, <2>1 DEF ResetDone, Lines
<1> QED
  BY <1>00, <1>1, <1>2, <1>3, <1>4, <1>5, <1>6, Outline

\* A patient host writes only when nobody is busy, whichever device answers it.
LEMMA NobodyBusy ==
    ASSUME AtaInv, Cable, Both, Orderly, HostWrites, Select(dev[0], dev[1])
    PROVE  ~dev[0].bsy /\ ~dev[1].bsy /\ dev[0].drv = dev[1].drv
<1>1. ~SeesBusy
  BY DEF HostWrites, Orderly
<1>2. PICK x \in DOMAIN dev : x \in Answering /\ (Selected(x, dev[x]) \/ (dev[x].single /\ x = 0))
  BY <1>1 DEF SeesBusy, Answering
<1>3. x \in {0, 1} /\ ~dev[0].single
  BY HostFacts DEF Cable, Pair
<1>4. Selected(x, dev[x])
  BY <1>2, <1>3
<1>5. ASSUME NEW y \in DOMAIN dev, Selected(y, dev[y]) PROVE ~dev[y].bsy
  BY <1>1, <1>5 DEF SeesBusy, Answering
<1>6. ~dev[x].bsy /\ dev[x].drv = x
  BY <1>4, <1>5 DEF Selected
<1>7. /\ dev[0].drv = 0 => ~dev[0].bsy
      /\ dev[1].drv = 1 => ~dev[1].bsy
  BY <1>5 DEF Selected, Both
<1> QED
  BY <1>3, <1>6, <1>7 DEF Select

\* Select depends on these fields only.
LEMMA SelectAgree ==
    ASSUME NEW a, NEW b, NEW p, NEW q, Select(a, b),
           p.bsy = a.bsy, p.param = a.param, p.left = a.left, p.drv = a.drv,
           p.srst = a.srst, p.resetting = a.resetting,
           q.bsy = b.bsy, q.param = b.param, q.left = b.left, q.drv = b.drv,
           q.srst = b.srst, q.resetting = b.resetting, q.pdiag = b.pdiag
    PROVE  Select(p, q)
BY DEF Select, Phase, Idles

\* The accesses of the host keep the drive selects together.
LEMMA SelectAccess ==
    ASSUME PairInv, Undiagnosed, Selection, Orderly, ~diagnosed, Both,
           \/ HostWrites /\ \A c \in DOMAIN dev : Written(c, dev[c], dev'[c])
           \/ HostWrites /\ \E drv \in {0, 1} :
                \A c \in DOMAIN dev : HeadDone(c, dev[c], dev'[c], drv)
           \/ HostWrites /\ \E cmd \in AllCmds :
                \A c \in DOMAIN dev : CommandDone(c, dev[c], dev'[c], cmd)
           \/ \A c \in DOMAIN dev : DataDone(c, dev[c], dev'[c])
           \/ \A c \in DOMAIN dev : StatusDone(c, dev[c], dev'[c])
    PROVE  Select(dev'[0], dev'[1])
<1> DEFINE a == dev[0]
           b == dev[1]
           p == dev'[0]
           q == dev'[1]
<1>0. /\ Select(a, b) /\ a.command # "diagnostic" /\ b.command # "diagnostic"
      /\ Sound(a) /\ Sound(b)
  BY DEF Selection, Undiagnosed, Both, PairInv, AtaInv
<1>1. HostWrites => ~a.bsy /\ ~b.bsy /\ a.drv = b.drv
  BY <1>0, NobodyBusy DEF PairInv
<1>2. CASE HostWrites /\ \A c \in DOMAIN dev : Written(c, dev[c], dev'[c])
  <2>1. Written(0, a, p) /\ Written(1, b, q)
    BY <1>2 DEF Both
  <2> HIDE DEF a, b, p, q
  <2>2. ~p.bsy /\ ~q.bsy /\ p.drv = a.drv /\ q.drv = b.drv
    BY <1>1, <1>2, <2>1 DEF Written, TimerWritten, Stopped, Keeps, Fixed
  <2>3. Select(p, q)
    BY <1>1, <1>2, <2>2 DEF Select, Idles
  <2> QED
    BY <2>3 DEF p, q
<1>3. CASE HostWrites /\ \E drv \in {0, 1} :
             \A c \in DOMAIN dev : HeadDone(c, dev[c], dev'[c], drv)
  <2>1. PICK drv \in {0, 1} : HeadDone(0, a, p, drv) /\ HeadDone(1, b, q, drv)
    BY <1>3 DEF Both
  <2> HIDE DEF a, b, p, q
  <2>2. ~p.bsy /\ ~q.bsy /\ p.drv = drv /\ q.drv = drv
    BY <1>1, <1>3, <2>1 DEF HeadDone, TimerWritten, Stopped
  <2>3. Select(p, q)
    BY <2>2 DEF Select, Idles
  <2> QED
    BY <2>3 DEF p, q
<1>4. CASE HostWrites /\ \E cmd \in AllCmds :
             \A c \in DOMAIN dev : CommandDone(c, dev[c], dev'[c], cmd)
  <2>1. PICK cmd : CommandDone(0, a, p, cmd) /\ CommandDone(1, b, q, cmd)
    BY <1>4 DEF Both
  <2> HIDE DEF a, b, p, q
  <2>2. p.drv = a.drv /\ q.drv = b.drv
    BY <2>1 DEF CommandDone, Fixed
  <2>3. p.bsy => p.param = "command" /\ a.drv = 0
    BY <1>0, <1>1, <1>4, <2>1 DEF CommandDone, TimerWritten, Stopped
  <2>4. q.bsy => q.param = "command" /\ b.drv = 1
    BY <1>0, <1>1, <1>4, <2>1 DEF CommandDone, TimerWritten, Stopped
  <2>5. Select(p, q)
    BY <1>1, <1>4, <2>2, <2>3, <2>4 DEF Select, Idles
  <2> QED
    BY <2>5 DEF p, q
<1>5. CASE \A c \in DOMAIN dev : DataDone(c, dev[c], dev'[c])
  <2>1. DataDone(0, a, p) /\ DataDone(1, b, q)
    BY <1>5 DEF Both
  <2> HIDE DEF a, b, p, q
  <2>2. p.drv = a.drv /\ q.drv = b.drv
    BY <2>1 DEF DataDone, Keeps, Fixed
  <2>3. /\ p = a \/ (~a.bsy /\ a.drv = 0 /\ (p.bsy => p.param = "command"))
        /\ q = b \/ (~b.bsy /\ b.drv = 1 /\ (q.bsy => q.param = "command"))
    BY <2>1 DEF DataDone, InDataPhase, Selected, TimerKept
  <2>4. Select(p, q)
    BY <1>0, <2>2, <2>3 DEF Select, Idles
  <2> QED
    BY <2>4 DEF p, q
<1>6. CASE \A c \in DOMAIN dev : StatusDone(c, dev[c], dev'[c])
  <2>1. StatusDone(0, a, p) /\ StatusDone(1, b, q)
    BY <1>6 DEF Both
  <2> HIDE DEF a, b, p, q
  <2>2. /\ p.bsy = a.bsy /\ p.param = a.param /\ p.left = a.left /\ p.drv = a.drv
        /\ p.srst = a.srst /\ p.resetting = a.resetting
    BY <2>1 DEF StatusDone, Agree, Fields, Irqs
  <2>3. /\ q.bsy = b.bsy /\ q.param = b.param /\ q.left = b.left /\ q.drv = b.drv
        /\ q.srst = b.srst /\ q.resetting = b.resetting /\ q.pdiag = b.pdiag
    BY <2>1 DEF StatusDone, Agree, Fields, Irqs
  <2>4. Select(p, q)
    BY <1>0, <2>2, <2>3, SelectAgree
  <2> QED
    BY <2>4 DEF p, q
<1> QED
  BY <1>2, <1>3, <1>4, <1>5, <1>6

\* The timer of a device expires.
LEMMA SelectTick ==
    ASSUME PairInv, Undiagnosed, Both, Orderly, ~diagnosed, Select(dev[0], dev[1]),
           Expires
    PROVE  Select(dev'[0], dev'[1])
<1> DEFINE a == dev[0]
           b == dev[1]
           p == dev'[0]
           q == dev'[1]
<1>0. /\ Pair(a, b) /\ Sound(a) /\ Sound(b) /\ Select(a, b)
      /\ a.command # "diagnostic" /\ b.command # "diagnostic"
  BY DEF PairInv, AtaInv, Cable, Both, Undiagnosed
<1>1. PICK o \in DOMAIN dev : dev[o].left = 0 /\ TickResult(dev, o, dev')
  BY DEF Expires
<1>2. o \in {0, 1}
  BY HostFacts DEF PairInv
<1>3. CASE o = 0
  <2>1. Ticked(0, dev, a, p) /\ a.left = 0 /\ q = b
    BY <1>1, <1>3 DEF TickResult, Spared, Calls, Both
  <2>2. a.bsy
    BY <1>0, <2>1 DEF Sound, TimerOK, Never
  <2>3. pdiagin(dev) => b.pdiag
    BY DEF pdiagin
  <2> HIDE DEF a, b, p, q
  <2>4. CASE a.param = "command"
    <3>1. TickCommand(0, a, p)
      BY <1>0, <2>1, <2>4
         DEF Ticked, TickDetect, TickWait, TickEnd, TickIdle, Diagnosing
    <3>2. p.drv = a.drv /\ p.param = "command"
      BY <3>1 DEF TickCommand, Keeps, Fixed
    <3>3. /\ a.drv = b.drv /\ Idles(b) /\ a.drv = 0 /\ (b.bsy => b.drv = 1)
      BY <1>0, <2>2, <2>4 DEF Select, Phase
    <3>4. Select(p, b)
      BY <3>2, <3>3 DEF Select, Idles
    <3> QED
      BY <2>1, <3>4 DEF p, q
  <2>5. CASE a.param # "command" /\ b.bsy
    <3>1. ~b.pdiag /\ Phase(a, b) /\ ~a.single
      BY <1>0, <2>2, <2>5 DEF Select, Idles, Pair
    <3>2. /\ a.param \in {"detect", "diagnostic"}
          /\ b.param = "diagnostic" /\ b.left = 0
      BY <2>1, <3>1, Times DEF Phase, Never
    <3>3. TickDetect(dev, a, p) \/ TickWait(0, dev, a, p)
      BY <2>1, <2>3, <3>1, <3>2
         DEF Ticked, TickEnd, TickCommand, TickIdle, Diagnosing
    <3>4. Select(p, b)
      BY <2>5, <3>1, <3>2, <3>3 DEF TickDetect, TickWait, Phase, Select
    <3> QED
      BY <2>1, <3>4 DEF p, q
  <2>6. CASE a.param # "command" /\ ~b.bsy
    <3>1. a.param \in {"detect", "diagnostic", "pdiag"} /\ b.drv = 0
      BY <1>0, <2>2, <2>6 DEF Select, Idles
    <3>2. TickDetect(dev, a, p) \/ TickWait(0, dev, a, p) \/ TickEnd(0, dev, a, p)
      BY <2>1, <3>1 DEF Ticked, TickCommand, TickIdle
    <3>3. Select(p, b)
      BY <2>6, <3>1, <3>2 DEF TickDetect, TickWait, TickEnd, Select, Idles
    <3> QED
      BY <2>1, <3>3 DEF p, q
  <2> QED
    BY <2>4, <2>5, <2>6
<1>4. CASE o = 1
  <2>1. Ticked(1, dev, b, q) /\ b.left = 0
    BY <1>1, <1>4 DEF TickResult
  <2>2. \/ p = a
        \/ Diagnosing(b) /\ Woken(a, p)
    BY <1>1, <1>4 DEF TickResult, Spared, Calls, Both
  <2>3. b.bsy
    BY <1>0, <2>1 DEF Sound, TimerOK, Never
  <2> HIDE DEF a, b, p, q
  <2>4. CASE b.param = "command"
    <3>1. TickCommand(1, b, q) /\ p = a
      BY <1>0, <2>1, <2>2, <2>4
         DEF Ticked, TickDetect, TickWait, TickEnd, TickIdle, Diagnosing
    <3>2. q.drv = b.drv /\ q.param = "command"
      BY <3>1 DEF TickCommand, Keeps, Fixed
    <3>3. a.drv = b.drv /\ Idles(a) /\ (a.bsy => a.drv = 0) /\ b.drv = 1
      BY <1>0, <2>3, <2>4 DEF Select, Phase
    <3>4. Select(a, q)
      BY <3>2, <3>3 DEF Select, Idles
    <3> QED
      BY <3>1, <3>4 DEF p, q
  <2>5. CASE b.param # "command"
    <3>1. a.bsy /\ Phase(a, b)
      BY <1>0, <2>3, <2>5 DEF Select, Idles
    <3>2. b.param = "diagnostic" /\ a.param \in {"detect", "diagnostic", "pdiag"}
      BY <2>1, <3>1 DEF Phase, Never
    <3>3. TickEnd(1, dev, b, q)
      BY <2>1, <3>2 DEF Ticked, TickDetect, TickWait, TickCommand, TickIdle
    <3>4. ~q.bsy /\ q.drv = 0
      BY <3>3 DEF TickEnd
    <3>5. CASE p = a
      <4>1. Select(a, q)
        BY <3>1, <3>2, <3>4 DEF Select
      <4> QED
        BY <3>5, <4>1 DEF p, q
    <3>6. CASE Woken(a, p)
      <4>1. Select(p, q)
        BY <3>4, <3>6 DEF Woken, Stopped, Select, Idles
      <4> QED
        BY <4>1 DEF p, q
    <3> QED
      BY <2>2, <3>5, <3>6
  <2> QED
    BY <2>4, <2>5
<1> QED
  BY <1>2, <1>3, <1>4

\* Every step keeps the drive selects together.
LEMMA SelectStep ==
    ASSUME PairInv, Undiagnosed, Selection, Effect, host' = host,
           Orderly', ~diagnosed', Both
    PROVE  Select(dev'[0], dev'[1])
<1> DEFINE a == dev[0]
           b == dev[1]
           p == dev'[0]
           q == dev'[1]
<1>00. AtaInv /\ Cable /\ Order /\ ~diagnosed
  <2>1. AtaInv /\ Cable /\ Order
    BY DEF PairInv
  <2>2. ~diagnosed
    BY DEF Effect
  <2> QED
    BY <2>1, <2>2
<1>0. /\ Pair(a, b) /\ Sound(a) /\ Sound(b)
      /\ ~Resets => /\ Orderly /\ SrstHeld(a) /\ SrstHeld(b) /\ Select(a, b)
  BY <1>00, OrderlyBefore, Outline DEF AtaInv, Cable, Order, Selection, Both
<1>01. \/ Stays \/ Controls \/ Elapses \/ Expires \/ Resets
       \/ HostWrites /\ \A c \in DOMAIN dev : Written(c, dev[c], dev'[c])
       \/ HostWrites /\ \E drv \in {0, 1} :
            \A c \in DOMAIN dev : HeadDone(c, dev[c], dev'[c], drv)
       \/ HostWrites /\ \E cmd \in AllCmds :
            \A c \in DOMAIN dev : CommandDone(c, dev[c], dev'[c], cmd)
       \/ \A c \in DOMAIN dev : DataDone(c, dev[c], dev'[c])
       \/ \A c \in DOMAIN dev : StatusDone(c, dev[c], dev'[c])
  BY Zenon DEF Effect, Stays, Controls, Elapses, Expires, Resets
<1>1. CASE Stays /\ ~Resets
  BY <1>0, <1>1 DEF Stays
<1>3. CASE Controls /\ ~Resets
  <2>1. PICK srst \in BOOLEAN :
          /\ ControlDone(0, a, p, srst) /\ ControlDone(1, b, q, srst)
          /\ srst => ~a.resetting /\ ~b.resetting
    BY <1>3 DEF Controls, Both, Orderly
  <2> HIDE DEF a, b, p, q
  <2>2. a.srst \in BOOLEAN /\ b.srst = a.srst
    BY <1>0, DeviceFlags DEF Sound, Pair
  <2>3. CASE srst /\ ~a.srst
    <3>1. SrstRisen(p) /\ SrstRisen(q) /\ p.srst /\ q.srst
      BY <2>1, <2>2, <2>3 DEF ControlDone
    <3>2. Select(p, q)
      BY <3>1 DEF Select, Phase, SrstRisen
    <3> QED
      BY <3>2 DEF p, q
  <2>4. CASE ~srst /\ a.srst
    <3>1. SrstFallen(a, p) /\ SrstFallen(b, q)
      BY <1>0, <1>3, <2>1, <2>2, <2>4 DEF ControlDone, SrstHeld
    <3>2. ~b.pdiag
      BY <1>0, <1>3, <2>4 DEF Select, SrstHeld, Idles
    <3>3. Select(p, q)
      BY <3>1, <3>2 DEF Select, Phase, SrstFallen
    <3> QED
      BY <3>3 DEF p, q
  <2>5. CASE srst = a.srst
    <3>1. /\ SrstKept(a, p) /\ SrstKept(b, q) /\ p.srst = a.srst /\ q.srst = b.srst
          /\ p.resetting = a.resetting /\ q.resetting = b.resetting
          /\ p.drv = a.drv /\ q.drv = b.drv
      BY <2>1, <2>2, <2>5 DEF ControlDone
    <3>2. Select(p, q)
      BY <1>0, <1>3, <3>1, SelectAgree DEF SrstKept
    <3> QED
      BY <3>2 DEF p, q
  <2> QED
    BY <2>2, <2>3, <2>4, <2>5
<1>4. CASE Elapses /\ ~Resets
  <2>1. TimeDone(a, p) /\ TimeDone(b, q) /\ HostRuns
    BY <1>4 DEF Elapses, Both
  <2>2. a.left # 0 /\ b.left # 0
    BY <2>1 DEF HostRuns, Both
  <2>3. a.left \in Nat \cup {-1} /\ b.left \in Nat \cup {-1}
    BY <1>0, DeviceTypes DEF Sound, Never
  <2> HIDE DEF a, b, p, q
  <2>4. /\ p.bsy = a.bsy /\ p.param = a.param /\ p.srst = a.srst
        /\ p.resetting = a.resetting /\ p.drv = a.drv
        /\ q.bsy = b.bsy /\ q.param = b.param /\ q.srst = b.srst
        /\ q.resetting = b.resetting /\ q.drv = b.drv /\ q.pdiag = b.pdiag
    BY <2>1 DEF TimeDone, Agree, Fields
  <2>5. /\ b.left = a.left => q.left = p.left
        /\ a.left = Never => p.left = Never
        /\ b.left = Never => q.left = Never
    BY <2>1, <2>3 DEF TimeDone, Never
  <2>6. Phase(a, b) => Phase(p, q)
    BY <2>2, <2>4, <2>5 DEF Phase
  <2>7. Select(p, q)
    BY <1>0, <1>4, <2>4, <2>6 DEF Select, Idles
  <2> QED
    BY <2>7 DEF p, q
<1>5. CASE Expires /\ ~Resets
  BY <1>0, <1>00, <1>5, SelectTick
<1>6. CASE Resets
  <2>1. ResetDone(0, a, p) /\ ResetDone(1, b, q)
    BY <1>6 DEF Resets, Both
  <2> HIDE DEF a, b, p, q
  <2>2. Select(p, q)
    BY <2>1 DEF ResetDone, Select, Phase
  <2> QED
    BY <2>2 DEF p, q
<1> QED
  BY <1>0, <1>00, <1>01, <1>1, <1>3, <1>4, <1>5, <1>6, SelectAccess

\* The devices start in a reset, both.
LEMMA SelectionInit == Init => Undiagnosed /\ Selection
<1> SUFFICES ASSUME Init PROVE Undiagnosed /\ Selection
  OBVIOUS
<1>1. \A c \in DOMAIN dev : Started(c, dev[c])
  BY InitDevices
<1>2. Undiagnosed
  BY <1>1 DEF Undiagnosed, Started
<1>3. \A c \in DOMAIN dev : Lines(c, dev[c])
  BY <1>1 DEF Started, Lines
<1>4. Both => Select(dev[0], dev[1])
  BY <1>1 DEF Both, Started, Select, Phase
<1> QED
  BY <1>2, <1>3, <1>4 DEF Selection

SelInv == PairInv /\ Undiagnosed /\ Selection

\* The invariant of the drive select is inductive.
LEMMA SelectionStep ==
    ASSUME SelInv, [Next]_vars PROVE SelInv'
<1>1. PairInv /\ Undiagnosed /\ Selection
  BY DEF SelInv
<1>2. AtaInv /\ Cable /\ Order /\ Placing
  BY <1>1 DEF PairInv
<1>3. PairInv'
  BY <1>2, AtaStep, CableStep, OrderStep, PlacingStep DEF PairInv
<1>4. Undiagnosed'
  BY <1>1, <1>2, UndiagnosedStep
<1>5. host' = host /\ DOMAIN dev' = DOMAIN dev /\ Effect
  BY <1>2, StepEffect
<1>6. ASSUME Orderly', ~diagnosed', NEW c \in DOMAIN dev' PROVE Lines(c, dev'[c])
  BY <1>1, <1>5, <1>6, LinesStep
<1>7. ASSUME Orderly', ~diagnosed', Both' PROVE Select(dev'[0], dev'[1])
  <2>1. Both
    BY <1>5, <1>7 DEF Both
  <2> QED
    BY <1>1, <1>5, <1>7, <2>1, SelectStep
<1>8. Selection'
  BY <1>6, <1>7 DEF Selection
<1> QED
  BY <1>3, <1>4, <1>8 DEF SelInv

\* Between commands both devices hold the same drive select, and the interrupt
\* line of each is its interrupt gated by its select and nIEN, for a host that
\* waits for BSY.
THEOREM SelectionCorrect == Spec => []SelectionSound
<1>1. Init => SelInv
  BY AtaInit, CableInit, OrderInit, PlacingInit, SelectionInit DEF PairInv, SelInv
<1>2. SelInv /\ [Next]_vars => SelInv'
  BY SelectionStep
<1>3. SelInv => SelectionSound
  <2> SUFFICES ASSUME SelInv, Orderly, ~diagnosed
      PROVE  /\ \A c \in DOMAIN dev :
                  dev[c].irqout = (dev[c].irq /\ Selected(c, dev[c]) /\ ~dev[c].nien)
             /\ (\A c \in DOMAIN dev : ~dev[c].bsy) =>
                  \A a, b \in DOMAIN dev : dev[a].drv = dev[b].drv
    BY DEF SelectionSound
  <2>1. DOMAIN dev \subseteq {0, 1}
    BY HostFacts DEF SelInv, PairInv
  <2>2. \A c \in DOMAIN dev : Wired(c, dev[c])
    BY DEF SelInv, Selection, Lines
  <2>3. Both => Select(dev[0], dev[1])
    BY DEF SelInv, Selection
  <2>4. ASSUME \A c \in DOMAIN dev : ~dev[c].bsy,
               NEW a \in DOMAIN dev, NEW b \in DOMAIN dev
        PROVE  dev[a].drv = dev[b].drv
    BY <2>1, <2>3, <2>4 DEF Both, Select
  <2> QED
    BY <2>2, <2>4 DEF Wired
<1> QED
  BY <1>1, <1>2, <1>3, PTL DEF Spec
=============================================================================
