------------------------------ MODULE AtaDisk ------------------------------
(***************************************************************************)
(* The IDE port of rosco_m68k: up to two disks on one cable.               *)
(*   src/src/devices/bus/ata/ataintf.cpp    the cable                      *)
(*   src/src/devices/machine/atahle.cpp     a device: task file, timers    *)
(*   src/src/devices/machine/atastorage.cpp its disk commands              *)
(*                                                                         *)
(* dev[c] is the device in slot c, a record with a field for each member   *)
(* of the C++ class that decides anything.  A handler is an operator from  *)
(* the old record to the new one; the few that reach over to the other     *)
(* device take and return the whole function.                              *)
(*                                                                         *)
(* Data abstracted: the sector address is one number (AtaAddress has the   *)
(* registers), of the head register only the drive bit is kept, and a      *)
(* command stands for all that are handled alike.  Nothing drives DMACK in *)
(* this machine and DMARQ goes nowhere, so both are left out; a DMA        *)
(* command's data can still be moved through the data register.            *)
(***************************************************************************)
EXTENDS Integers, FiniteSets

CONSTANTS
    Hosts,       \* what sits in the slots and what the host does with it
    SectorSize,  \* IDE_DISK_SECTOR_SIZE: 512 bytes
    MaxSectors,  \* what a sector count of zero stands for: 256
    AddrSpace,   \* number of sector addresses
    DiagTime,    \* DIAGNOSTIC_TIME, and the two other times of 2 ms
    CommandTime, \* the time of any other command
    IntWrap      \* range of m_sectors_until_int: 65536

ReadCmds  == {"read", "readbuf", "readmul", "readdma", "verify"}
WriteCmds == {"write", "writebuf", "writemul", "writedma"}
\* SET FEATURES by what it does; "recalibrate" also stands for CACHE FLUSH,
\* SET CONFIG and READ NATIVE MAX, "idle" for SEEK and SET MAX.
Features  == {"features8", "features16", "features", "badfeatures"}
TimedCmds == {"identify", "recalibrate", "diagnostic"} \cup Features
AllCmds   == ReadCmds \cup WriteCmds \cup TimedCmds
             \cup {"none", "disablepw", "idle", "setblock", "unknown"}

\* A host: the slots in use, the commands it gives, the sector counts, addresses
\* and device control values it writes, whether it waits for BSY, and (a bound)
\* how often it is reset.
HostType == [slots : SUBSET {0, 1}, commands : SUBSET AllCmds,
             counts : SUBSET (0..(MaxSectors - 1)),
             addresses : SUBSET (0..(AddrSpace - 1)),
             controls : SUBSET [srst : BOOLEAN, nien : BOOLEAN],
             patient : BOOLEAN, resets : Nat]

ASSUME AtaAssumption ==
    /\ SectorSize \in Nat \ {0} /\ SectorSize % 2 = 0
    /\ MaxSectors \in Nat \ {0}
    /\ AddrSpace \in Nat \ {0}
    /\ DiagTime \in Nat \ {0}
    /\ CommandTime \in Nat
    /\ IntWrap \in Nat /\ IntWrap > MaxSectors + 1
    /\ Hosts \subseteq HostType

VARIABLES
    host,        \* the host of this behaviour
    dev,         \* the devices, by slot
    resets,      \* machine resets so far
    \* Histories of what the host did, which only the properties read:
    early,       \* it raised SRST before a device had come out of reset
    diagnosed    \* it gave EXECUTE DEVICE DIAGNOSTIC

vars == <<host, dev, resets, early, diagnosed>>

Never  == -1
Params == {"reset", "detect", "diagnostic", "pdiag", "command"}

Device == [
    bsy : BOOLEAN, drq : BOOLEAN, err : BOOLEAN,  \* m_status
    device1 : BOOLEAN,       \* m_error is the diagnostic's code for a failed device
                             \* 1 (as a command's error the bit is BAD_SECTOR)
    command : AllCmds,
    param : Params,          \* of m_busy_timer, also once it has expired
    left : Nat \cup {Never}, \* time to its expiry
    irq : BOOLEAN, irqout : BOOLEAN,
    drv : {0, 1},
    count : 0..(MaxSectors - 1), lba : 0..(AddrSpace - 1),
    srst : BOOLEAN, nien : BOOLEAN,
    single : BOOLEAN, resetting : BOOLEAN,
    ident : BOOLEAN,         \* m_can_identify_device
    remaining : 0..MaxSectors, block : 0..MaxSectors,
    untilint : 0..(IntWrap - 1),
    offset : 0..SectorSize,
    bytewide : BOOLEAN,      \* m_8bit_data_transfers
    dasp : BOOLEAN, pdiag : BOOLEAN,
    \* Histories of the current transfer: where it began, how many sectors were
    \* asked for and moved, how often it signalled, and whether the host moved
    \* data the wrong way.
    base : 0..(AddrSpace - 1), want : 0..MaxSectors, moved : 0..MaxSectors,
    signals : 0..MaxSectors, mixed : BOOLEAN]

\* Every register of both disks keeps its width.
TypeOK ==
    /\ host \in Hosts
    /\ DOMAIN dev = host.slots
    /\ \A c \in DOMAIN dev : dev[c] \in Device
    /\ resets \in 0..host.resets
    /\ early \in BOOLEAN /\ diagnosed \in BOOLEAN

-----------------------------------------------------------------------------
(* Lines and timers *)

Selected(c, r) == r.drv = c

update_irq(c, r) == [r EXCEPT !.irqout = r.irq /\ Selected(c, r) /\ ~r.nien]

set_irq(c, r, state) ==
    IF r.irq = state THEN r ELSE update_irq(c, [r EXCEPT !.irq = state])

start_busy(r, time, param) ==
    [r EXCEPT !.bsy = TRUE, !.left = time, !.param = param]

\* adjust(never) gives the timer its default parameter 0, PARAM_RESET.
stop_busy(r) == [r EXCEPT !.bsy = FALSE, !.left = Never, !.param = "reset"]

\* Device 0 sees the DASP and PDIAG that device 1 drives.
daspin(D)  == 1 \in DOMAIN D /\ D[1].dasp
pdiagin(D) == 1 \in DOMAIN D /\ D[1].pdiag

-----------------------------------------------------------------------------
(* Reset and diagnostic *)

soft_reset(r) ==
    start_busy([r EXCEPT !.drq = FALSE, !.err = FALSE, !.offset = 0],
               DiagTime, "diagnostic")

ClearLines(c, r) == set_irq(c, [r EXCEPT !.dasp = FALSE, !.pdiag = FALSE], FALSE)

\* Variant: device 1 does not announce itself.
interface_post_reset_NoDasp(c, r) ==
    LET q == [ClearLines(c, r) EXCEPT
                !.drq = FALSE, !.err = FALSE, !.bsy = FALSE,
                !.srst = FALSE, !.nien = FALSE, !.resetting = TRUE]
    IN  IF c = 0 THEN start_busy(q, DiagTime, "detect") ELSE soft_reset(q)
interface_post_reset(c, r) ==
    LET q == [ClearLines(c, r) EXCEPT
                !.drq = FALSE, !.err = FALSE, !.bsy = FALSE,
                !.srst = FALSE, !.nien = FALSE, !.resetting = TRUE]
    IN  IF c = 0 THEN start_busy(q, DiagTime, "detect")
                 ELSE soft_reset([q EXCEPT !.dasp = TRUE])

\* The signature of a disk; the head register becomes 0, without update_irq.
signature(r) == [r EXCEPT !.count = 1 % MaxSectors, !.lba = 0, !.drv = 0]

finished_diagnostic(r) ==
    signature([r EXCEPT !.resetting = FALSE])

\* Device 0 hears PDIAG: it stops waiting.  The parameter it looks at is also
\* that of a timer that has expired.  Variant: it does not look at all.
set_pdiag_in_Any(r) == finished_diagnostic(stop_busy(r))
set_pdiag_in(r) ==
    IF r.param = "pdiag" THEN finished_diagnostic(stop_busy(r)) ELSE r

set_pdiag(D) ==
    IF D[1].pdiag THEN D
    ELSE [c \in DOMAIN D |-> IF c = 1 THEN [D[1] EXCEPT !.pdiag = TRUE]
                                      ELSE set_pdiag_in(D[c])]

start_diagnostic(D, c) ==
    LET E == [D EXCEPT ![c].device1 = FALSE]
        F == IF c = 1 /\ D[c].ident THEN set_pdiag(E) ELSE E
    IN  [F EXCEPT ![c] =
          IF c = 0 /\ ~F[c].single /\ ~pdiagin(F)
          THEN start_busy(F[c], DiagTime, "pdiag")
          ELSE finished_diagnostic(F[c])]

-----------------------------------------------------------------------------
(* Sectors.  ok says whether the image could read or write the sector. *)

\* The address registers as one number.  The carry out of the last LBA address,
\* which only an image of the whole address space meets, goes into the drive bit
\* and is left out here: see AtaAddress.
next_sector(r) == [r EXCEPT !.lba = (@ + 1) % AddrSpace]

sectors_remaining(r) == IF r.count # 0 THEN r.count ELSE MaxSectors

\* One less, in uint16_t.  Variant: below zero.
Dec_NoWrap(n) == n - 1
Dec(n) == IF n = 0 THEN IntWrap - 1 ELSE n - 1

OneLess(r) ==
    IF r.remaining = 0 THEN r
    ELSE [r EXCEPT !.remaining = @ - 1, !.count = (r.remaining - 1) % MaxSectors]

\* READ and WRITE BUFFER do not touch the image.
Done(r, ok) == ok \/ r.command \in {"readbuf", "writebuf"}

Failed(c, r) ==
    set_irq(c, [r EXCEPT !.err = TRUE, !.device1 = FALSE], TRUE)

\* The pointers move on, except on the last sector.  Variant: on every sector.
Advance_Always(r) ==
    LET q == next_sector(r)
    IN  [q EXCEPT !.dasp = FALSE, !.untilint = Dec(@),
                  !.moved = IF r.mixed THEN @ ELSE @ + 1]
Advance(r) ==
    LET q == IF r.remaining # 1 THEN next_sector(r) ELSE r
    IN  [q EXCEPT !.dasp = FALSE, !.untilint = Dec(@),
                  !.moved = IF r.mixed THEN @ ELSE @ + 1]

\* The interrupt at the end, or at the start, of a block.
Signal(c, r, multiple, due) ==
    IF due
    THEN set_irq(c, [r EXCEPT !.untilint = IF multiple THEN r.block ELSE 1,
                              !.signals = IF r.mixed THEN @ ELSE @ + 1], TRUE)
    ELSE r

\* fill_buffer for most commands: the next sector after a delay.
FillLater(c, r) ==
    LET q == OneLess(r)
    IN  IF q.remaining > 0
        THEN start_busy([set_irq(c, q, FALSE) EXCEPT !.dasp = TRUE],
                        CommandTime, "command")
        ELSE q

\* Variant: READ MULTIPLE signals its last sector as the others do.
finished_read_MulLast(c, r, ok) ==
    LET a == Advance(r)
        b == Signal(c, a, r.command = "readmul",
                    a.untilint = 0 \/ r.remaining = 1)
    IN  IF ~Done(r, ok) THEN Failed(c, [r EXCEPT !.dasp = FALSE])
        ELSE IF r.command = "verify"
             THEN FillLater(c, [b EXCEPT !.offset = 0, !.drq = FALSE])
             ELSE [b EXCEPT !.drq = TRUE]
finished_read(c, r, ok) ==
    LET a == Advance(r)
        b == Signal(c, a, r.command = "readmul",
                    \/ a.untilint = 0
                    \/ (r.remaining = 1 /\ r.command # "readmul"))
    IN  IF ~Done(r, ok) THEN Failed(c, [r EXCEPT !.dasp = FALSE])
        ELSE IF r.command = "verify"
             THEN FillLater(c, [b EXCEPT !.offset = 0, !.drq = FALSE])
             ELSE [b EXCEPT !.drq = TRUE]

fill_buffer(c, r, ok) ==
    CASE r.command = "identify" -> r
      [] r.command = "readmul"  ->
           LET q == OneLess(r)
           IN  IF q.remaining > 0 THEN finished_read(c, q, ok) ELSE q
      [] r.command = "readbuf"  -> set_irq(c, r, TRUE)
      [] OTHER                  -> FillLater(c, r)

finished_write(c, r, ok) ==
    LET a == Advance(r)
        b == OneLess(Signal(c, a, r.command = "writemul",
                            a.untilint = 0 \/ r.remaining = 1))
    IN  IF ~Done(r, ok) THEN Failed(c, [r EXCEPT !.dasp = FALSE])
        ELSE [b EXCEPT !.drq = @ \/ b.remaining > 0]

process_buffer(c, r, ok) ==
    CASE r.command = "disablepw" -> r
      [] r.command = "writebuf"  -> set_irq(c, r, TRUE)
      [] r.command = "writemul" /\ r.untilint # 1 ->
           finished_write(c, [r EXCEPT !.dasp = TRUE], ok)
      [] OTHER -> start_busy([r EXCEPT !.dasp = TRUE], CommandTime, "command")

\* One access to the data register, and what follows the last of a sector.
Step(r) == IF r.bytewide THEN 1 ELSE 2

Moved(r) == [r EXCEPT !.offset = @ + Step(r)]
Emptied(r) == [r EXCEPT !.offset = 0, !.drq = FALSE]

read_data(c, r, ok) ==
    LET q == [Moved(r) EXCEPT !.mixed = @ \/ r.command \in WriteCmds]
    IN  IF q.offset >= SectorSize THEN fill_buffer(c, Emptied(q), ok) ELSE q

write_data(c, r, ok) ==
    LET q == [Moved(r) EXCEPT !.mixed = @ \/ r.command \in ReadCmds]
    IN  IF q.offset >= SectorSize THEN process_buffer(c, Emptied(q), ok) ELSE q

-----------------------------------------------------------------------------
(* Commands *)

\* How many sectors until the first interrupt.
UntilInt(r) ==
    CASE r.command \in {"verify", "readdma", "writedma"} -> sectors_remaining(r)
      [] r.command = "writemul"                          -> r.block
      [] OTHER                                           -> 1

Transfer(r) ==
    [r EXCEPT !.remaining = sectors_remaining(r), !.untilint = UntilInt(r),
              !.base = r.lba, !.want = sectors_remaining(r),
              !.moved = 0, !.signals = 0, !.mixed = FALSE]

process_command(c, r) ==
    CASE r.command \in ReadCmds ->
           start_busy([Transfer(r) EXCEPT !.dasp = TRUE], CommandTime, "command")
      [] r.command \in WriteCmds   -> [Transfer(r) EXCEPT !.drq = TRUE]
      [] r.command = "disablepw"   ->
           set_irq(c, [r EXCEPT !.untilint = 0, !.drq = TRUE], TRUE)
      [] r.command = "setblock"    ->
           set_irq(c, [r EXCEPT !.untilint = 0,
                                !.block = sectors_remaining(r)], TRUE)
      [] r.command = "idle"        -> set_irq(c, [r EXCEPT !.untilint = 0], TRUE)
      [] r.command \in TimedCmds   ->
           start_busy([r EXCEPT !.untilint = 0],
                      IF r.command = "diagnostic" THEN DiagTime ELSE CommandTime,
                      "command")
      [] OTHER ->
           set_irq(c, [r EXCEPT !.untilint = 0, !.err = TRUE,
                                !.device1 = FALSE], TRUE)

\* The end of a command other than the diagnostic.  Variant: only the commands
\* that move data say so.
CommandEnd_Quiet(c, r, ok) ==
    CASE r.command \in ReadCmds  -> finished_read(c, r, ok)
      [] r.command \in WriteCmds -> finished_write(c, r, ok)
      [] r.command = "identify" /\ r.ident -> set_irq(c, [r EXCEPT !.drq = TRUE], TRUE)
      [] OTHER -> r
CommandEnd(c, r, ok) ==
    CASE r.command \in ReadCmds  -> finished_read(c, r, ok)
      [] r.command \in WriteCmds -> finished_write(c, r, ok)
      [] r.command = "identify"  ->
           set_irq(c, IF r.ident THEN [r EXCEPT !.drq = TRUE]
                                 ELSE [r EXCEPT !.err = TRUE, !.device1 = FALSE], TRUE)
      [] r.command = "features8"   -> set_irq(c, [r EXCEPT !.bytewide = TRUE], TRUE)
      [] r.command = "features16"  -> set_irq(c, [r EXCEPT !.bytewide = FALSE], TRUE)
      [] r.command = "badfeatures" ->
           set_irq(c, [r EXCEPT !.err = TRUE, !.device1 = FALSE], TRUE)
      [] r.command \in {"recalibrate", "features"} -> set_irq(c, r, TRUE)
      [] OTHER                   -> r

finished_command(D, c, ok) ==
    IF D[c].command = "diagnostic"
    THEN LET E == start_diagnostic(D, c)
         IN  IF c = 0 THEN [E EXCEPT ![0] = set_irq(0, E[0], TRUE)] ELSE E
    ELSE [D EXCEPT ![c] = CommandEnd(c, D[c], ok)]

finished_busy(D, c, ok) ==
    CASE D[c].param = "detect" ->
           [D EXCEPT ![c] = soft_reset([D[c] EXCEPT !.single = ~daspin(D)])]
      [] D[c].param = "diagnostic" -> start_diagnostic(D, c)
      [] D[c].param = "pdiag" ->
           [D EXCEPT ![c] =
              finished_diagnostic([D[c] EXCEPT !.device1 = TRUE])]
      [] D[c].param = "command" -> finished_command(D, c, ok)
      [] OTHER -> D

-----------------------------------------------------------------------------
(* Accesses of the host *)

\* The machine has just been reset for the first time; ident is known by then.
Fresh(id) == [
    bsy |-> FALSE, drq |-> FALSE, err |-> FALSE, device1 |-> FALSE,
    command |-> "none", param |-> "reset", left |-> Never,
    irq |-> FALSE, irqout |-> FALSE, drv |-> 0, count |-> 0, lba |-> 0,
    srst |-> FALSE, nien |-> FALSE, single |-> FALSE, resetting |-> FALSE,
    ident |-> id, remaining |-> 0, block |-> 0, untilint |-> 0, offset |-> 0,
    bytewide |-> FALSE, dasp |-> FALSE, pdiag |-> FALSE,
    base |-> 0, want |-> 0, moved |-> 0, signals |-> 0, mixed |-> FALSE]

Init ==
    /\ host \in Hosts
    /\ \E id \in [host.slots -> BOOLEAN] :
         dev = [c \in host.slots |-> interface_post_reset(c, Fresh(id[c]))]
    /\ resets = 0
    /\ early = FALSE /\ diagnosed = FALSE

\* The CPU runs only while no timer has come due.
HostRuns == \A c \in DOMAIN dev : dev[c].left # 0

\* Bit 7 of the status register as the host reads it: 0xff when nobody answers,
\* 0 when a single disk answers for the missing one.
Answering == {c \in DOMAIN dev :
                \/ Selected(c, dev[c])
                \/ dev[c].single /\ c = 0}
SeesBusy == \/ Answering = {}
            \/ \E c \in Answering : Selected(c, dev[c]) /\ dev[c].bsy

\* A patient host writes the task file only when it reads BSY clear, and not
\* during SRST.
HostWrites ==
    /\ HostRuns
    /\ host.patient => ~SeesBusy /\ \A c \in DOMAIN dev : ~dev[c].srst

\* A write elsewhere than to the data register ends a data phase.
Aborted(r) ==
    IF r.drq
    THEN [stop_busy(r) EXCEPT !.drq = FALSE, !.err = TRUE, !.device1 = FALSE]
    ELSE r

\* All devices see a write; a busy one ignores it.
WriteFeature ==
    /\ HostWrites
    /\ dev' = [c \in DOMAIN dev |-> Aborted(dev[c])]
    /\ UNCHANGED <<host, resets, early, diagnosed>>

WriteCount(n) ==
    /\ HostWrites
    /\ dev' = [c \in DOMAIN dev |->
                 LET r == Aborted(dev[c])
                 IN  IF r.bsy THEN r ELSE [r EXCEPT !.count = n]]
    /\ UNCHANGED <<host, resets, early, diagnosed>>

WriteAddress(a) ==
    /\ HostWrites
    /\ dev' = [c \in DOMAIN dev |->
                 LET r == Aborted(dev[c])
                 IN  IF r.bsy THEN r ELSE [r EXCEPT !.lba = a]]
    /\ UNCHANGED <<host, resets, early, diagnosed>>

\* Writing the value the register already has does not end a data phase; same
\* says whether the other bits are the ones it has.  Variant: a device that is
\* not selected ignores the write.
HeadWritten_OnlySelected(c, r0, drv, same) ==
    LET r == IF r0.drv = drv /\ same THEN r0 ELSE Aborted(r0)
        q == [r EXCEPT !.drv = drv]
    IN  IF r.bsy \/ ~Selected(c, r) THEN r
        ELSE IF drv # r.drv THEN update_irq(c, q) ELSE q
HeadWritten(c, r0, drv, same) ==
    LET r == IF r0.drv = drv /\ same THEN r0 ELSE Aborted(r0)
        q == [r EXCEPT !.drv = drv]
    IN  IF r.bsy THEN r
        ELSE IF drv # r.drv THEN update_irq(c, q) ELSE q

WriteHead(drv, same) ==
    /\ HostWrites
    /\ dev' = [c \in DOMAIN dev |-> HeadWritten(c, dev[c], drv, same)]
    /\ UNCHANGED <<host, resets, early, diagnosed>>

\* A device obeys when it is selected - or when its last command was the
\* diagnostic, the one command meant for both.  Variant: the place in the buffer
\* is kept.
CommandWritten_KeepOffset(c, r0, cmd) ==
    LET r == Aborted(r0)
    IN  IF r.bsy \/ ~(Selected(c, r) \/ r.command = "diagnostic") THEN r
        ELSE process_command(c,
               [set_irq(c, r, FALSE) EXCEPT !.command = cmd, !.err = FALSE,
                                            !.device1 = FALSE, !.dasp = FALSE])
CommandWritten(c, r0, cmd) ==
    LET r == Aborted(r0)
    IN  IF r.bsy \/ ~(Selected(c, r) \/ r.command = "diagnostic") THEN r
        ELSE process_command(c,
               [set_irq(c, r, FALSE) EXCEPT !.command = cmd, !.offset = 0,
                                            !.err = FALSE, !.device1 = FALSE,
                                            !.dasp = FALSE])

WriteCommand(cmd) ==
    /\ HostWrites
    /\ dev' = [c \in DOMAIN dev |-> CommandWritten(c, dev[c], cmd)]
    /\ diagnosed' = (diagnosed \/ cmd = "diagnostic")
    /\ UNCHANGED <<host, resets, early>>

InDataPhase(c, r) == Selected(c, r) /\ ~r.bsy /\ r.drq

WriteData(ok) ==
    /\ HostWrites
    /\ \E c \in DOMAIN dev : InDataPhase(c, dev[c])
    /\ dev' = [c \in DOMAIN dev |->
                 IF InDataPhase(c, dev[c]) THEN write_data(c, dev[c], ok)
                                           ELSE dev[c]]
    /\ UNCHANGED <<host, resets, early, diagnosed>>

ReadData(ok) ==
    /\ HostRuns
    /\ \E c \in DOMAIN dev : InDataPhase(c, dev[c])
    /\ dev' = [c \in DOMAIN dev |->
                 IF InDataPhase(c, dev[c]) THEN read_data(c, dev[c], ok)
                                           ELSE dev[c]]
    /\ UNCHANGED <<host, resets, early, diagnosed>>

\* Reading the status takes the interrupt back, unless the device is busy.
ReadStatus ==
    /\ HostRuns
    /\ \E c \in DOMAIN dev : Selected(c, dev[c]) /\ ~dev[c].bsy /\ dev[c].irq
    /\ dev' = [c \in DOMAIN dev |->
                 IF Selected(c, dev[c]) /\ ~dev[c].bsy
                 THEN set_irq(c, dev[c], FALSE) ELSE dev[c]]
    /\ UNCHANGED <<host, resets, early, diagnosed>>

SrstRises(c, r) ==
    IF r.resetting THEN r
    ELSE start_busy(ClearLines(c, r), Never, "reset")

\* Variant: the end of SRST is not noticed.
SrstFalls_Never(c, r) == r
SrstFalls(c, r) == IF r.param = "reset" THEN soft_reset(r) ELSE r

ControlWritten(c, r0, srst, nien) ==
    LET a == [r0 EXCEPT !.srst = srst, !.nien = nien]
        r == IF nien # r0.nien THEN update_irq(c, a) ELSE a
    IN  IF srst = r0.srst THEN r
        ELSE IF srst THEN SrstRises(c, r) ELSE SrstFalls(c, r)

WriteControl(srst, nien) ==
    /\ HostRuns
    /\ dev' = [c \in DOMAIN dev |-> ControlWritten(c, dev[c], srst, nien)]
    /\ early' = (early \/ (srst /\ \E c \in DOMAIN dev : dev[c].resetting))
    /\ UNCHANGED <<host, resets, diagnosed>>

-----------------------------------------------------------------------------
(* Time, and the machine *)

TimePasses ==
    /\ HostRuns
    /\ \E c \in DOMAIN dev : dev[c].left > 0
    /\ dev' = [c \in DOMAIN dev |->
                 [dev[c] EXCEPT !.left = IF @ > 0 THEN @ - 1 ELSE @]]
    /\ UNCHANGED <<host, resets, early, diagnosed>>

busy_tick(c, ok) ==
    /\ c \in DOMAIN dev
    /\ dev[c].left = 0
    /\ dev' = finished_busy([dev EXCEPT ![c].bsy = FALSE, ![c].left = Never],
                            c, ok)
    /\ UNCHANGED <<host, resets, early, diagnosed>>

\* A machine reset, slot by slot; a disk whose image is there by now, one of
\* loaded, can be identified from then on.
MachineReset(loaded) ==
    /\ HostRuns
    /\ resets < host.resets
    /\ resets' = resets + 1
    /\ dev' = [c \in DOMAIN dev |->
                 interface_post_reset(c, [dev[c] EXCEPT !.ident = @ \/ c \in loaded])]
    /\ early' = FALSE
    /\ UNCHANGED <<host, diagnosed>>

Next ==
    \/ \E n \in host.counts : WriteCount(n)
    \/ \E a \in host.addresses : WriteAddress(a)
    \/ WriteFeature
    \/ \E drv \in {0, 1}, same \in BOOLEAN : WriteHead(drv, same)
    \/ \E cmd \in host.commands : WriteCommand(cmd)
    \/ \E ok \in BOOLEAN : WriteData(ok)
    \/ \E ok \in BOOLEAN : ReadData(ok)
    \/ ReadStatus
    \/ \E v \in host.controls : WriteControl(v.srst, v.nien)
    \/ TimePasses
    \/ \E c \in {0, 1}, ok \in BOOLEAN : busy_tick(c, ok)
    \/ \E loaded \in SUBSET DOMAIN dev : MachineReset(loaded)

\* Emulated time goes on and the scheduler runs every expired timer.
Fairness == /\ WF_vars(TimePasses)
            /\ \A c \in {0, 1} : WF_vars(\E ok \in BOOLEAN : busy_tick(c, ok))

Spec == Init /\ [][Next]_vars /\ Fairness

-----------------------------------------------------------------------------
(* Properties *)

\* A patient host that has given SRST only to devices that were out of reset.
Orderly == host.patient /\ ~early

\* A busy device always has its timer running - except one the host holds in
\* SRST - and a timer only runs for a busy device: no sequence of resets,
\* aborts, diagnostics and commands leaves BSY up for good.
BusyTimed ==
    \A c \in DOMAIN dev :
        /\ dev[c].left # Never => dev[c].bsy
        /\ dev[c].bsy => \/ dev[c].left # Never
                         \/ dev[c].srst /\ dev[c].param = "reset"

\* The next access to the data register stays inside m_buffer, whatever the
\* width is switched to in the middle of an abandoned transfer.
BufferInBounds ==
    \A c \in DOMAIN dev : dev[c].drq => dev[c].offset + Step(dev[c]) <= SectorSize

\* Each device keeps a copy of the drive select, drops writes to it while busy
\* and lets signature() clear it without update_irq.  Still, for an orderly host
\* that never gave the diagnostic, the interrupt line is what irq, select and
\* nIEN make it, and the two copies agree whenever nobody is busy.  (After a
\* second diagnostic, with the failing device 1 selected, device 0 ends up with
\* an interrupt nobody sees.)
SelectionSound ==
    (Orderly /\ ~diagnosed) =>
        /\ \A c \in DOMAIN dev :
             dev[c].irqout = (dev[c].irq /\ Selected(c, dev[c]) /\ ~dev[c].nien)
        /\ (\A c \in DOMAIN dev : ~dev[c].bsy) =>
             \A a, b \in DOMAIN dev : dev[a].drv = dev[b].drv

\* Out of reset, device 0 knows whether there is a device 1, and blames it for
\* a failed diagnostic only when it is there and has no image.
DiagnosisRight ==
    (Orderly /\ 0 \in DOMAIN dev /\ ~dev[0].resetting) =>
        /\ dev[0].single <=> 1 \notin DOMAIN dev
        /\ dev[0].device1 => 1 \in DOMAIN dev /\ ~dev[1].ident

\* In a transfer the task file points at the sector that is next, and at the
\* last one when all have been moved; what is left and what was moved add up.
\* Not with two disks and a host that does not wait for BSY: it can leave device
\* 0 in a transfer with the parameter of an expired PDIAG timer, and device 1's
\* set_pdiag then writes the signature into its task file.
InTransfer(r) ==
    /\ r.command \in (ReadCmds \cup WriteCmds) \ {"readbuf", "writebuf"}
    /\ ~r.mixed
    /\ (r.drq /\ ~r.srst) \/ (r.bsy /\ r.param = "command")

TransferInOrder ==
    (~early /\ (host.patient \/ host.slots # {0, 1})) =>
      \A c \in DOMAIN dev : InTransfer(dev[c]) =>
        LET r    == dev[c]
            seen == IF r.moved < r.want THEN r.moved ELSE r.want - 1
            \* A sector being read out has been moved and is still counted.
            held == IF r.drq /\ r.command \in ReadCmds THEN 1 ELSE 0
        IN  /\ r.lba = (r.base + seen) % AddrSpace
            /\ r.remaining + r.moved = r.want + held

\* How often a transfer has signalled after k of n sectors in blocks of b.
Expected(cmd, k, n, b) ==
    CASE cmd \in {"read", "write"}   -> k
      [] cmd = "readmul" /\ b > 0    -> (k + b - 1) \div b
      [] cmd = "readmul" /\ b = 0    -> IF k > 0 THEN 1 ELSE 0
      [] cmd = "writemul" /\ b > 0   ->
           (k \div b) + IF k = n /\ k % b # 0 THEN 1 ELSE 0
      [] OTHER                       -> IF k = n THEN 1 ELSE 0

\* One interrupt per sector, per block (ahead of it when reading, behind it and
\* behind a short last one when writing) or per transfer, as the command has it;
\* without a block count the whole transfer is one block.
InterruptSchedule ==
    \A c \in DOMAIN dev :
        LET r == dev[c]
        IN  (r.command \in (ReadCmds \cup WriteCmds) \ {"readbuf", "writebuf"}
             /\ ~r.mixed /\ r.want > 0)
            => r.signals = Expected(r.command, r.moved, r.want, r.block)

\* The expiry of one device's timer leaves the other alone, unless that one is
\* waiting for PDIAG: set_pdiag_in also looks at the parameter of an expired
\* timer, and would put a disk's signature in the task file of a transfer.
WakesOnlyWaiter ==
    [][Orderly => \A c \in {0, 1} :
         (c \in DOMAIN dev /\ dev[c].left = 0 /\ dev'[c].left # 0) =>
            \A o \in DOMAIN dev \ {c} :
                \/ dev'[o] = dev[o]
                \/ dev[o].bsy /\ dev[o].param = "pdiag"]_vars

\* The end of a command's time is an interrupt, data or the next wait: except
\* for the diagnostic on device 1 (device 0 answers for both) and a password
\* command whose data was read.
NoSilentEnd ==
    [][\A c \in {0, 1} :
         (/\ c \in DOMAIN dev
          /\ dev[c].left = 0 /\ dev'[c].left # 0
          /\ dev[c].param = "command"
          /\ dev[c].command # "disablepw"
          /\ ~(c = 1 /\ dev[c].command = "diagnostic")) =>
            dev'[c].irq \/ dev'[c].drq \/ dev'[c].bsy]_vars

\* A busy device comes to an end, unless the host holds it in SRST.
Busy(c) == c \in DOMAIN dev /\ dev[c].bsy
Held(c) == c \in DOMAIN dev /\ dev[c].srst
BusyEnds == \A c \in {0, 1} : Busy(c) ~> (~Busy(c) \/ Held(c))
=============================================================================
