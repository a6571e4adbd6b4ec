------------------------------- MODULE SdCard -------------------------------
(***************************************************************************)
(* The SPI SD card the rosco machines bit-bang through the DUART's output  *)
(* port: spi_sdcard_device of src/src/devices/machine/spi_sdcard.cpp.      *)
(*                                                                         *)
(* The clock edges of one byte are two actions: the eighth rising edge,    *)
(* where latch_in looks at the byte, and the falling edge after it, where  *)
(* shift_out loads the next byte.  The other edges only move bits.  The    *)
(* host, the user who changes the image and a machine reset interleave     *)
(* freely with them.                                                       *)
(*                                                                         *)
(* A byte is a number.  The four argument bytes of a command are one unit, *)
(* so a command frame is three units instead of six bytes.  Bytes the      *)
(* card computes (CSD, CID, CRC16, what a failed read leaves) are markers. *)
(***************************************************************************)
EXTENDS Naturals, Sequences

CONSTANTS
    MaxBlk,      \* largest sector size: 2048 bytes
    DefaultBlk,  \* sector size before any image was mounted: 512 bytes
    RegSize,     \* size of the CSD and CID registers: 16 bytes
    CmdUnits,    \* what the host sends while the card expects commands
    DataUnits,   \* what it sends after a write command
    Images,      \* images the user may mount: [blksize, type, blocks]
    LbaLimit,    \* bound: multiple block reads end, and files grow, up to there
    HotSwap      \* may the user change the image during a transfer?

DataSize == MaxBlk + 8          \* m_data
\* A byte, or one of the markers for a byte the card computes.
Reg      == 256
Crc      == 257
Stale    == 258
Cell     == 0..258
States   == {"IDLE", "READY", "STBY", "TRAN", "DATA", "DATA_MULTI", "RCV",
             "PRG", "INA", "WRITE_WAITFE", "WRITE_DATA"}
CardType == {"V2", "HC"}

ASSUME SdCardAssumption ==
    /\ MaxBlk \in Nat \ {0}
    /\ DefaultBlk \in 1..MaxBlk
    /\ RegSize \in Nat
    /\ RegSize <= MaxBlk
    /\ CmdUnits \subseteq 0..255
    /\ DataUnits \subseteq 0..255
    /\ Images \subseteq [blksize : 1..MaxBlk, type : CardType, blocks : Nat]
    /\ LbaLimit \in Nat
    /\ HotSwap \in BOOLEAN

VARIABLES
    mounted,     \* m_image->exists()
    disk,        \* the mounted image: block number -> contents
    m_blksize, m_type,
    m_ss,
    m_cur_bit,   \* 8 between a byte's last rising edge and the next falling one
    m_state, m_cmd, m_bACMD, m_crc_off, m_xferblk, m_blknext,
    m_data, m_out_delay, m_out_count, m_out_ptr,
    m_out_latch, \* the byte the host reads next
    m_write_ptr,
    fault        \* undefined behaviour met: the process is gone

imageVars == <<mounted, disk, m_blksize, m_type>>
cmdVars   == <<m_cmd, m_bACMD, m_crc_off>>
outVars   == <<m_out_delay, m_out_count, m_out_ptr>>
vars == <<imageVars, m_ss, m_cur_bit, m_state, cmdVars, m_xferblk, m_blknext,
          m_data, outVars, m_out_latch, m_write_ptr, fault>>

Cells0(n) == 0..(n - 1)
NoCmd     == <<255, 255, 255>>

TypeOK ==
    /\ mounted \in BOOLEAN
    /\ \A b \in DOMAIN disk : disk[b] \in [Cells0(m_blksize) -> Cell]
    /\ m_blksize \in 1..MaxBlk
    /\ m_type \in CardType
    /\ m_ss \in BOOLEAN
    /\ m_cur_bit \in {0, 8}
    /\ m_state \in States
    /\ m_cmd \in (0..255) \X (0..255) \X (0..255)
    /\ m_bACMD \in BOOLEAN
    /\ m_crc_off \in BOOLEAN
    /\ m_xferblk \in 1..MaxBlk
    /\ m_blknext \in Nat
    /\ m_data \in [Cells0(DataSize) -> Cell]
    /\ m_out_delay \in {0, 1}
    /\ m_out_count \in Nat
    /\ m_out_ptr \in Nat
    /\ m_out_latch \in Cell
    /\ m_write_ptr \in Nat
    /\ fault \in {"none", "no image", "overrun"}

\* The contents of a new image of kind k.
Blank(k) == [b \in Cells0(k.blocks) |-> [i \in Cells0(k.blksize) |-> 0]]

\* Power on, with an image from the command line or without one.
Init ==
    /\ \/ \E k \in Images :
             /\ mounted = TRUE /\ disk = Blank(k)
             /\ m_blksize = k.blksize /\ m_xferblk = k.blksize
             /\ m_type = k.type
       \/ /\ mounted = FALSE /\ disk = <<>>
          /\ m_blksize = DefaultBlk /\ m_xferblk = DefaultBlk
          /\ m_type = "V2"
    /\ m_ss = FALSE /\ m_cur_bit = 0
    /\ m_state = "IDLE" /\ m_cmd = NoCmd
    /\ m_bACMD = FALSE /\ m_crc_off = TRUE
    /\ m_data = [i \in Cells0(DataSize) |-> 0]
    /\ m_out_delay = 0 /\ m_out_count = 0 /\ m_out_ptr = 0
    /\ m_out_latch = 255
    /\ m_write_ptr = 0 /\ m_blknext = 0
    /\ fault = "none"

-----------------------------------------------------------------------------
(* The image *)

\* What reading block b puts in the buffer: a failed read leaves what was there.
Contents(b) ==
    IF b \in DOMAIN disk THEN disk[b]
                         ELSE [i \in Cells0(m_blksize) |-> Stale]

\* Cells from .. from + n - 1 of block b, as a sequence.
Slice(b, from, n) == [i \in 1..n |-> Contents(b)[from + i - 1]]

\* The image after its block b was written.  A bare file written past its end
\* grows, with zeros in between.
Written(b, block) ==
    [c \in DOMAIN disk \cup 0..b |->
        IF c = b THEN block
        ELSE IF c \in DOMAIN disk THEN disk[c]
        ELSE [i \in Cells0(m_blksize) |-> 0]]

\* The user changes the image from the file manager.
Transfers == {"DATA_MULTI", "WRITE_WAITFE", "WRITE_DATA"}
MaySwap   == HotSwap \/ ~m_ss \/ m_state \notin Transfers

image_loaded(k) ==
    /\ MaySwap
    /\ mounted' = TRUE
    /\ disk' = Blank(k)
    /\ m_blksize' = k.blksize
    /\ m_xferblk' = k.blksize
    /\ m_type' = k.type
    /\ m_crc_off' = TRUE
    /\ UNCHANGED <<m_ss, m_cur_bit, m_state, m_cmd, m_bACMD, m_blknext,
                   m_data, outVars, m_out_latch, m_write_ptr, fault>>

image_unloaded ==
    /\ mounted
    /\ MaySwap
    /\ mounted' = FALSE
    /\ disk' = <<>>
    /\ UNCHANGED <<m_blksize, m_type, m_ss, m_cur_bit, m_state, cmdVars,
                   m_xferblk, m_blknext, m_data, outVars, m_out_latch,
                   m_write_ptr, fault>>

-----------------------------------------------------------------------------
(* Commands *)

\* Variant: the response follows after two filler bytes.
ResponseDelay_Two == 2
ResponseDelay == 1      \* SPI_DELAY_RESPONSE

\* send_data: the first cells of m_data are the reply, sent after the delay.
send_data(reply, new_state, delay) ==
    /\ m_data' = [i \in Cells0(DataSize) |->
                     IF i < Len(reply) THEN reply[i + 1] ELSE m_data[i]]
    /\ m_out_delay' = delay
    /\ m_out_ptr' = 0
    /\ m_out_count' = Len(reply)
    /\ m_state' = new_state

Register == [i \in 1..RegSize |-> Reg]
Crc16    == <<Crc, Crc>>

\* CMD16 takes a length of at most a block, on an SDHC card a whole block.
\* Variant: the card type is not looked at.
BlocklenOK_AnyType(n) == n # 0 /\ n <= m_blksize
BlocklenOK(n) == n # 0 /\ n <= m_blksize /\ (m_type = "V2" \/ n = m_blksize)

\* Does a transfer at byte offset n cross into the next block?
Crosses(n) == (n \div m_blksize) # ((n + m_xferblk - 1) \div m_blksize)

\* The block a whole block read or write at argument n is for.
BlockOf(n) == IF m_type = "V2" THEN n \div m_blksize ELSE n

\* The data of a single block read at argument n.
ReadData(n) ==
    IF m_xferblk = m_blksize THEN Slice(BlockOf(n), 0, m_blksize)
    ELSE Slice(n \div m_blksize, n % m_blksize, m_xferblk)

Answer(reply, new_state) == [reply |-> reply, state |-> new_state]
Refused  == Answer(<<64>>, "TRAN")   \* parameter error
NoImage  == Answer(<<255>>, "TRAN")  \* "show an error"

\* Variant: CMD18 does not ask whether there is an image.
MultiReadOK_NoImage == TRUE
MultiReadOK == mounted

\* Variant: CMD24 takes a transfer shorter than a block.
WriteOK_AnyLength(n) == m_type = "V2" => n % m_blksize = 0
WriteOK(n) == m_xferblk = m_blksize /\ (m_type = "V2" => n % m_blksize = 0)

Commands == {0, 1, 8, 9, 10, 12, 13, 16, 17, 18, 24, 41, 55, 58, 59}

\* What do_command answers to command c with argument n.
AnswerTo(c, n) ==
    CASE c = 0  -> IF mounted THEN Answer(<<1>>, "IDLE")
                              ELSE Answer(<<0>>, "INA")
      [] c = 1  -> Answer(<<0>>, "READY")
      [] c = 8  -> Answer(<<1, 0, 0, 1, 170>>, "IDLE")
      [] c = 9  -> Answer(<<0, 255, 254>> \o Register, "STBY")
      [] c = 10 -> Answer(<<0, 255, 254>> \o Register \o Crc16, "STBY")
      [] c = 12 -> Answer(<<0>>, IF m_state = "RCV" THEN "PRG" ELSE "TRAN")
      [] c = 13 -> Answer(<<0, 0>>, "STBY")
      [] c = 16 -> IF ~mounted THEN NoImage
                   ELSE IF BlocklenOK(n) THEN Answer(<<0>>, "TRAN") ELSE Refused
      [] c = 17 -> IF ~mounted THEN NoImage
                   ELSE IF m_type = "V2" /\ Crosses(n) THEN Refused
                   ELSE Answer(<<0, 255, 254>> \o ReadData(n) \o Crc16, "DATA")
      [] c = 18 -> IF ~MultiReadOK THEN NoImage
                   ELSE IF m_xferblk = m_blksize
                   THEN Answer(<<0>>, "DATA_MULTI") ELSE Refused
      [] c = 24 -> IF WriteOK(n) THEN Answer(<<0>>, "WRITE_WAITFE") ELSE Refused
      [] c = 41 -> IF m_bACMD THEN Answer(<<0>>, "READY")
                              ELSE Answer(<<255>>, "INA")
      [] c = 55 -> Answer(<<1>>, "IDLE")
      [] c = 58 -> Answer(<<0, IF m_type = "V2" THEN 128 ELSE 192, 0, 0, 0>>,
                          "DATA")
      [] c = 59 -> Answer(<<0>>, "STBY")

\* do_command on the supported command c with argument n.
do_command(c, n) ==
    /\ send_data(AnswerTo(c, n).reply, AnswerTo(c, n).state, ResponseDelay)
    /\ m_xferblk' = IF c = 16 /\ mounted /\ BlocklenOK(n) THEN n ELSE m_xferblk
    /\ m_blknext' = CASE c = 18 /\ AnswerTo(c, n).state = "DATA_MULTI"
                         -> BlockOf(n)
                      [] c = 24 /\ WriteOK(n) -> BlockOf(n)
                      [] c = 24 /\ m_xferblk = m_blksize /\ ~WriteOK(n) -> n
                      [] OTHER -> m_blknext
    /\ m_crc_off' = IF c = 59 THEN n % 2 = 0 ELSE m_crc_off
    /\ m_bACMD' = (c = 55)
    /\ m_cmd' = NoCmd

\* Is the window w a command frame, and does latch_in look at it now?  While a
\* reply is under way only commands 0 to 15 are heard.
IsFrame(w) == w[1] \in 64..127 /\ (w[3] % 2 = 1 \/ m_crc_off)
Looks(w) == \/ m_state \in {"IDLE", "DATA_MULTI"}
            \/ w[1] \in 64..79
            \/ m_out_count = 0
Heard(w) == IsFrame(w) /\ Looks(w)

-----------------------------------------------------------------------------
(* A byte arrives: the eighth rising clock edge, latch_in *)

ByteBoundary == m_ss /\ m_cur_bit = 0 /\ m_cur_bit' = 8
Window(u)    == <<m_cmd[2], m_cmd[3], u>>

\* A unit completes the frame of a supported command.
CommandIn(u) ==
    /\ ByteBoundary
    /\ m_state \notin {"WRITE_WAITFE", "WRITE_DATA"}
    /\ LET w == Window(u)
       IN  /\ Heard(w) /\ w[1] - 64 \in Commands
           /\ do_command(w[1] - 64, w[2])
    /\ UNCHANGED <<imageVars, m_ss, m_out_latch, m_write_ptr, fault>>

\* Any other unit in command mode: it moves the window; an unsupported command
\* stays in it and ends a CMD55 prefix.
WindowMoves(u) ==
    LET w == Window(u)
    IN  /\ m_state \notin {"WRITE_WAITFE", "WRITE_DATA"}
        /\ ~(Heard(w) /\ w[1] - 64 \in Commands)
        /\ m_cmd' = w
        /\ m_bACMD' = (m_bACMD /\ ~Heard(w))

BlockDue == m_state = "DATA_MULTI" /\ m_out_count = 0

OtherIn(u) ==
    /\ ByteBoundary
    /\ WindowMoves(u)
    /\ ~BlockDue
    /\ UNCHANGED <<imageVars, m_ss, m_state, m_crc_off, m_xferblk, m_blknext,
                   m_data, outVars, m_out_latch, m_write_ptr, fault>>

\* In a multiple block read the unit after the last one of a block starts the
\* next block.
NextBlock(u) ==
    /\ ByteBoundary
    /\ WindowMoves(u)
    /\ BlockDue
    /\ m_blknext < LbaLimit
    /\ IF mounted
       THEN /\ send_data(<<254>> \o Slice(m_blknext, 0, m_blksize) \o Crc16,
                         "DATA_MULTI", ResponseDelay)
            /\ m_blknext' = m_blknext + 1
            /\ UNCHANGED fault
       ELSE /\ fault' = "no image"
            /\ UNCHANGED <<m_data, outVars, m_state, m_blknext>>
    /\ UNCHANGED <<imageVars, m_ss, m_crc_off, m_xferblk, m_out_latch,
                   m_write_ptr>>

\* After CMD24: everything but the data token is ignored.
TokenIn(u) ==
    /\ ByteBoundary
    /\ m_state = "WRITE_WAITFE"
    /\ IF u = 254
       THEN m_state' = "WRITE_DATA" /\ m_write_ptr' = 0 /\ m_out_latch' = 255
       ELSE UNCHANGED <<m_state, m_write_ptr, m_out_latch>>
    /\ UNCHANGED <<imageVars, m_ss, cmdVars, m_xferblk, m_blknext, m_data,
                   outVars, fault>>

\* Is the unit at the write pointer the last of data and CRC?  Variant: one
\* unit late.
LastData_Late == m_write_ptr = m_xferblk + 2
LastData == m_write_ptr + 1 = m_xferblk + 2

\* A data unit that is not the last.  Past the end of m_data all is lost.
DataIn(u) ==
    /\ ByteBoundary
    /\ m_state = "WRITE_DATA" /\ ~LastData
    /\ IF m_write_ptr < DataSize
       THEN /\ m_data' = [m_data EXCEPT ![m_write_ptr] = u]
            /\ m_write_ptr' = m_write_ptr + 1
            /\ UNCHANGED fault
       ELSE /\ fault' = "overrun"
            /\ UNCHANGED <<m_data, m_write_ptr>>
    /\ UNCHANGED <<imageVars, m_ss, m_state, cmdVars, m_xferblk, m_blknext,
                   outVars, m_out_latch>>

\* The last data unit: the block is written and the data response follows at
\* once.  m_image->write takes m_blksize bytes of m_data and may fail: any write to
\* an image on a failing file, and one past the end of a compressed image.
DataComplete(u) ==
    /\ ByteBoundary
    /\ m_state = "WRITE_DATA" /\ LastData
    /\ m_write_ptr' = m_write_ptr + 1
    /\ IF mounted
       THEN \E ok \in BOOLEAN :
            LET full == [m_data EXCEPT ![m_write_ptr] = u]
            IN  /\ ok => m_blknext \in DOMAIN disk \/ m_blknext < LbaLimit
                /\ disk' = IF ok
                           THEN Written(m_blknext,
                                        [i \in Cells0(m_blksize) |-> full[i]])
                           ELSE disk
                /\ m_data' = [full EXCEPT ![0] = IF ok THEN 5 ELSE 13,
                                          ![1] = 1]
                /\ m_out_delay' = 0 /\ m_out_ptr' = 0 /\ m_out_count' = 2
                /\ m_state' = "IDLE"
                /\ UNCHANGED fault
       ELSE /\ fault' = "no image"
            /\ UNCHANGED <<disk, m_data, outVars, m_state>>
    /\ UNCHANGED <<mounted, m_blksize, m_type, m_ss, cmdVars, m_xferblk,
                   m_blknext, m_out_latch>>

-----------------------------------------------------------------------------
(* The other pins *)

\* Variant: the count of units to send is not taken down.
LoadLatch_NoCount ==
    IF m_out_ptr < m_out_delay \/ m_out_count = 0
    THEN UNCHANGED <<m_out_latch, outVars>>
    ELSE /\ m_out_latch' = m_data[m_out_ptr - m_out_delay]
         /\ m_out_ptr' = m_out_ptr + 1
         /\ UNCHANGED <<m_out_delay, m_out_count>>

\* What shift_out does on the first falling edge after a byte.
LoadLatch ==
    IF m_out_ptr < m_out_delay
    THEN /\ m_out_ptr' = m_out_ptr + 1
         /\ m_out_latch' = 255
         /\ UNCHANGED <<m_out_delay, m_out_count>>
    ELSE IF m_out_count > 0
    THEN /\ m_out_latch' = m_data[m_out_ptr - m_out_delay]
         /\ m_out_ptr' = m_out_ptr + 1
         /\ m_out_count' = m_out_count - 1
         /\ UNCHANGED m_out_delay
    ELSE m_out_latch' = 255 /\ UNCHANGED outVars

shift_out ==
    /\ m_ss /\ m_cur_bit = 8
    /\ m_cur_bit' = 0
    /\ LoadLatch
    /\ UNCHANGED <<imageVars, m_ss, m_state, cmdVars, m_xferblk, m_blknext,
                   m_data, m_write_ptr, fault>>

\* spi_ss_w.  Selecting starts afresh; deselecting only stops the clock, at
\* whatever bit the transfer was.
Select ==
    /\ ~m_ss
    /\ m_ss' = TRUE
    /\ m_cmd' = NoCmd
    /\ m_state' = "IDLE"
    /\ m_cur_bit' = 0
    /\ m_out_latch' = 255
    /\ m_out_delay' = 0
    /\ m_out_count' = 0
    /\ UNCHANGED <<imageVars, m_bACMD, m_crc_off, m_xferblk, m_blknext,
                   m_data, m_out_ptr, m_write_ptr, fault>>

Deselect ==
    /\ m_ss
    /\ m_ss' = FALSE
    /\ UNCHANGED <<imageVars, m_cur_bit, m_state, cmdVars, m_xferblk,
                   m_blknext, m_data, outVars, m_out_latch, m_write_ptr,
                   fault>>

\* Machine reset: the devices come first, so the DUART raises the output port and
\* deselects before machine_reset lowers the clock.  The card has no reset.
MachineReset ==
    /\ m_ss
    /\ m_ss' = FALSE
    /\ UNCHANGED <<imageVars, m_cur_bit, m_state, cmdVars, m_xferblk,
                   m_blknext, m_data, outVars, m_out_latch, m_write_ptr,
                   fault>>

\* A step with a host that sends these units and a user with these images.
CardStep(units, data, kinds) ==
    /\ fault = "none"
    /\ \/ \E u \in units : CommandIn(u) \/ OtherIn(u) \/ NextBlock(u)
       \/ \E u \in data : TokenIn(u) \/ DataIn(u) \/ DataComplete(u)
       \/ shift_out
       \/ Select
       \/ Deselect
       \/ MachineReset
       \/ \E k \in kinds : image_loaded(k)
       \/ image_unloaded

Next == CardStep(CmdUnits, DataUnits, Images)

Spec == Init /\ [][Next]_vars

-----------------------------------------------------------------------------
(* Properties *)

\* shift_out only reads cells of m_data, and never runs off the reply.
Unsent == IF m_out_ptr < m_out_delay THEN m_out_count
          ELSE m_out_ptr - m_out_delay + m_out_count
ReplyFits == m_out_count > 0 => Unsent <= DataSize

\* Units and filler still to leave.
Pending == m_out_count +
           (IF m_out_ptr < m_out_delay THEN m_out_delay - m_out_ptr ELSE 0)

\* m_data serves the reply and the incoming block alike: no byte of the R1
\* answer to CMD24 is left to send when the first data byte overwrites it, even
\* if the host sends the token without waiting for R1.
ReplyBeforeData ==
    (m_state = "WRITE_DATA" /\ m_write_ptr > 0) => m_out_count = 0

\* A block is on its way in.
Receiving == m_ss /\ m_state = "WRITE_DATA" /\ fault = "none"

\* Unless the image is changed under a transfer, the write pointer of an
\* incoming block stays inside m_data, and "==" in latch_in is met.
WriteInBounds ==
    ~HotSwap => (Receiving => m_write_ptr < m_xferblk + 2)

\* spi_sdcard.cpp:604 assert(m_type == SD_TYPE_V2) on a partial block read: no
\* sequence of commands and image changes leaves an SDHC card with one.
PartialOnlyOnV2 == m_xferblk # m_blksize => m_type = "V2"

\* Reads ask for the image first: only a block write can meet the null handle
\* of an absent image.
OnlyWriteMeetsNoImage ==
    ~HotSwap => (fault = "no image" => m_state = "WRITE_DATA")

Store == INSTANCE BlockStore WITH
             store  <- disk,
             target <- IF Receiving THEN <<m_blknext>> ELSE <<>>,
             packet <- IF Receiving
                       THEN [i \in 1..m_write_ptr |-> m_data[i - 1]]
                       ELSE <<>>

\* The image changes only by whole blocks: the data that followed one token, at
\* the one block the card held when the token came, and not at all when the write
\* fails or the transfer is cut short by a deselect or a reset.
SdImplementsStore == Store!Spec
=============================================================================
