------------------------------ MODULE SpiPins ------------------------------
(***************************************************************************)
(* The bit-banged SPI bus between the DUART's output port and the SD card: *)
(* OP2 is the select, OP4 the clock and OP6 the data to the card; IP2 is    *)
(* the data from it.  src/src/devices/machine/spi_sdcard.cpp below the byte *)
(* level, with the wiring of rosco_m68k.cpp and rosco_6502.cpp.             *)
(*                                                                         *)
(* Each write to the output port calls the card's three handlers in turn,   *)
(* changed or not.  What the card answers to a byte is SdCard's business:   *)
(* here it may have any byte ready, or none.                                *)
(***************************************************************************)
EXTENDS Naturals, Sequences

CONSTANTS
    W,        \* bits in a byte: 8
    Replies,  \* bytes the card may answer
    MaxBits   \* bound: bits the host clocks in one selection

\* A byte is its bits by their weight: place 0 is the low one.
Places == 0..(W - 1)
Bytes  == [Places -> 0..1]
Ones   == [i \in Places |-> 1]
Zeros  == [i \in Places |-> 0]
NoByte == <<>>

\* x << 1 | b.
Shifted(x, b) == [i \in Places |-> IF i = 0 THEN b ELSE x[i - 1]]

ASSUME SpiAssumption ==
    /\ W \in Nat \ {0, 1}
    /\ Replies \subseteq Bytes
    /\ MaxBits \in Nat

VARIABLES
    pins,  \* levels of the output port: cs (active low), sck, copi
    card,  \* the card's side, see CardType
    spi    \* history, see SpiHistory

spiVars == <<pins, card, spi>>

Pins == {"cs", "sck", "copi"}
High == [p \in Pins |-> 1]

\* ready: the byte shift_out will load; miso: the level of IP2; got: the bytes
\* received in this selection.
CardType == [ss : 0..1, clk : 0..1, in_bit : 0..1, in_latch : Bytes,
             cur_bit : 0..W, out_latch : Bytes, ready : Bytes \cup {NoByte},
             miso : 0..1, got : Seq(Bytes)]

\* settled: the port was written since the last reset.  In this selection,
\* phantom: the bit of an edge that was none; bits: the bits the host clocked;
\* driven: the clock has fallen; due: the answer to the byte just clocked, ones
\* if there is none, and answer: the one to the byte before.
SpiHistory == [settled : BOOLEAN, phantom : Seq(0..1), bits : Seq(0..1),
               driven : BOOLEAN, due : Bytes, answer : Bytes]

SpiTypeOK ==
    /\ pins \in [Pins -> 0..1]
    /\ card \in CardType
    /\ spi \in SpiHistory

-----------------------------------------------------------------------------
(* The card's pins *)

spi_ss_w(c, state) ==
    IF c.ss = 0 /\ state = 1
    THEN [c EXCEPT !.ss = 1, !.in_latch = Zeros, !.cur_bit = 0,
                   !.out_latch = Ones, !.ready = NoByte, !.got = <<>>]
    ELSE [c EXCEPT !.ss = state]

\* Rising edge; reply is what the card has ready if this completes a byte.  (A
\* data token also fills m_out_latch with ones, at a time when the next shift
\* would leave nothing else in it.)
latch_in(c, reply) ==
    LET latch == [c.in_latch EXCEPT ![0] = c.in_bit]
        whole == c.cur_bit + 1 = W
    IN  [c EXCEPT !.in_latch = latch,
                  !.cur_bit  = @ + 1,
                  !.got      = IF whole THEN Append(@, latch) ELSE @,
                  !.ready    = IF whole THEN reply ELSE @]

\* Falling edge.  Variant: the counter is not taken back at a byte boundary.
Wrapped_Never(n) == n
Wrapped(n) == n % W

shift_out(c) ==
    LET n     == Wrapped(c.cur_bit)
        latch == IF n = 0 /\ c.ready # NoByte
                 THEN c.ready ELSE Shifted(c.out_latch, 1)
    IN  [c EXCEPT !.in_latch  = Shifted(@, 0),
                  !.cur_bit   = n,
                  !.out_latch = latch,
                  !.ready     = IF n = 0 THEN NoByte ELSE @,
                  !.miso      = latch[W - 1]]

spi_clock_w(c, state, reply) ==
    LET edge == c.ss = 1 /\ state # c.clk
        next == CASE edge /\ state = 1 -> latch_in(c, reply)
                  [] edge /\ state = 0 -> shift_out(c)
                  [] OTHER             -> c
    IN  [next EXCEPT !.clk = state]

spi_mosi_w(c, state) == [c EXCEPT !.in_bit = state]

-----------------------------------------------------------------------------
(* The output port *)

\* write_outport: select, clock, data, in the order the driver wired them; the
\* select is inverted.  Variant: the data before the clock.
write_outport_DataFirst(c, p, reply) ==
    spi_clock_w(spi_mosi_w(spi_ss_w(c, 1 - p["cs"]), p["copi"]), p["sck"], reply)
write_outport(c, p, reply) ==
    spi_mosi_w(spi_clock_w(spi_ss_w(c, 1 - p["cs"]), p["sck"], reply), p["copi"])

\* The host's own view of what the write of p did on the bus: an edge counts
\* while the card is selected, and carries the data from before the write.
Observed(p, reply) ==
    LET selects == pins["cs"] = 1 /\ p["cs"] = 0
        rises   == p["cs"] = 0 /\ pins["sck"] = 0 /\ p["sck"] = 1
        falls   == p["cs"] = 0 /\ pins["sck"] = 1 /\ p["sck"] = 0
        phantom == IF ~selects THEN spi.phantom
                   ELSE IF ~spi.settled /\ p["sck"] = 1
                   THEN <<pins["copi"]>> ELSE <<>>
        bits    == (IF selects THEN <<>> ELSE spi.bits)
                     \o (IF rises THEN <<pins["copi"]>> ELSE <<>>)
        whole   == (Len(phantom) + Len(bits)) % W = 0
        due     == IF selects THEN Ones ELSE spi.due
    IN  [settled |-> TRUE,
         phantom |-> phantom,
         bits    |-> bits,
         driven  |-> \/ ~selects /\ spi.driven
                     \/ falls /\ spi.settled,
         due     |-> IF rises /\ whole /\ reply # NoByte THEN reply
                     ELSE IF falls THEN Ones ELSE due,
         answer  |-> IF falls /\ whole THEN due
                     ELSE IF selects THEN Ones ELSE spi.answer]

\* A write to Set (level 0) or Reset Output Port Bits (level 1): the pins S.
OutputBits(level, S, reply) ==
    LET p == [q \in Pins |-> IF q \in S THEN level ELSE pins[q]]
    IN  /\ pins' = p
        /\ card' = write_outport(card, p, reply)
        /\ spi' = Observed(p, reply)
        /\ Len(spi.phantom) + Len(spi'.bits) <= MaxBits

\* A machine reset: the DUART's reset raises all outputs, then machine_reset
\* tells the card that the clock is low, which it is not.
SpiReset ==
    /\ pins' = High
    /\ card' = spi_clock_w(write_outport(card, High, NoByte), 0, NoByte)
    /\ spi' = [spi EXCEPT !.settled = FALSE]

\* After the first reset.
SpiInit ==
    /\ pins = High
    /\ card = [ss |-> 0, clk |-> 0, in_bit |-> 1, in_latch |-> Zeros, cur_bit |-> 0,
               out_latch |-> Ones, ready |-> NoByte, miso |-> 0, got |-> <<>>]
    /\ spi = [settled |-> FALSE, phantom |-> <<>>, bits |-> <<>>,
              driven |-> FALSE, due |-> Ones, answer |-> Ones]

SpiNext ==
    \E level \in 0..1, S \in SUBSET Pins, reply \in Replies \cup {NoByte} :
        OutputBits(level, S, reply)

-----------------------------------------------------------------------------
(* Properties *)

\* The bits clocked so far, with the phantom.
Clocked == spi.phantom \o spi.bits

\* The card receives exactly the bytes the host clocked, high bit first, however
\* select, clock and data changes are spread over port writes: a write that
\* moves clock and data together sends the old data.  One exception: if the very
\* first port write after a machine reset selects the card and leaves the clock
\* high, an edge is seen that never was, and the host is one bit behind.
BytesIntact ==
    card.ss = 1 =>
        /\ Len(card.got) = Len(Clocked) \div W
        /\ \A k \in DOMAIN card.got, j \in 1..W :
             card.got[k][W - j] = Clocked[W * (k - 1) + j]

\* Before each rising edge IP2 shows the bit of the card's answer that belongs to
\* the host's place in the byte, and ones when there is no answer.  Only the
\* first bit after a selection with the clock low is whatever IP2 was left at.
ReplyAligned ==
    card.ss = 1 /\ pins["sck"] = 0 /\ spi.driven =>
        card.miso = spi.answer[W - 1 - (Len(Clocked) % W)]
=============================================================================
