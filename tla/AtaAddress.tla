----------------------------- MODULE AtaAddress -----------------------------
(***************************************************************************)
(* The sector address in the task file of a disk, and how it moves to the  *)
(* next sector: lba_address and next_sector of                             *)
(* src/src/devices/machine/atastorage.cpp.  AtaDisk counts sectors with    *)
(* one number; this module says when the registers count with it.          *)
(***************************************************************************)
EXTENDS Naturals

CONSTANTS
    Byte,     \* values of an eight bit register: 256
    HeadSize  \* values of the head bits of the device/head register: 16

ASSUME AddressAssumption == Byte \in Nat \ {0} /\ HeadSize \in Nat \ {0}

\* The address registers: LBA or CHS, head, cylinder high and low, sector.
Registers == [L : BOOLEAN, head : 0..(HeadSize - 1), high : 0..(Byte - 1),
              low : 0..(Byte - 1), sector : 0..(Byte - 1)]

\* Heads and sectors per track, of the image or of SET CONFIG, where a count of 0
\* means 256 and is 0 again in the eight bits of m_num_sectors.
Geometry == [heads : 1..(Byte - 1), sectors : 0..(Byte - 1)]

Cylinder(r) == r.high * Byte + r.low

lba_address(r, g) ==
    IF r.L THEN ((r.head * Byte + r.high) * Byte + r.low) * Byte + r.sector
           ELSE (Cylinder(r) * g.heads + r.head) * g.sectors + r.sector - 1

Inc(n) == (n + 1) % Byte

\* The next cylinder, in two eight bit registers.
NextCylinder(r) ==
    [r EXCEPT !.low = Inc(@), !.high = IF Inc(r.low) = 0 THEN Inc(@) ELSE @]

\* The head is incremented as a byte and put back into the register with "or":
\* a head of HeadSize would set the drive bit.
NextLBA(r) ==
    IF Inc(r.sector) # 0 THEN [r EXCEPT !.sector = Inc(@)]
    ELSE [NextCylinder(r) EXCEPT
            !.sector = 0,
            !.head = IF Inc(r.low) = 0 /\ Inc(r.high) = 0 THEN @ + 1 ELSE @]

NextCHS(r, g) ==
    IF Inc(r.sector) <= g.sectors THEN [r EXCEPT !.sector = Inc(@)]
    ELSE IF r.head + 1 < g.heads THEN [r EXCEPT !.sector = 1, !.head = @ + 1]
    ELSE [NextCylinder(r) EXCEPT !.sector = 1, !.head = 0]

NextRegisters(r, g) == IF r.L THEN NextLBA(r) ELSE NextCHS(r, g)

-----------------------------------------------------------------------------
(* When it is right *)

\* The head number fits its four bits, and the sector register can hold one more
\* than the last sector: a track of 255 sectors would wrap it to 0.  A track of 0
\* sectors has no CHS address.
SafeGeometry(g) == g.heads <= HeadSize /\ g.sectors < Byte - 1

\* An address on the disk.
Addresses(r, g) ==
    ~r.L => r.sector \in 1..g.sectors /\ r.head < g.heads

\* The last address the registers can express.
LastAddress(r, g) ==
    /\ r.high = Byte - 1 /\ r.low = Byte - 1
    /\ IF r.L THEN r.head = HeadSize - 1 /\ r.sector = Byte - 1
              ELSE r.head = g.heads - 1 /\ r.sector = g.sectors

\* A transfer of several sectors moves through consecutive blocks of the image
\* and never carries into the drive bit, across every track, cylinder and byte
\* boundary, in CHS and in LBA mode.
ConsecutiveSectors ==
    \A g \in Geometry, r \in Registers :
        SafeGeometry(g) /\ Addresses(r, g) /\ ~LastAddress(r, g) =>
            /\ NextRegisters(r, g) \in Registers
            /\ Addresses(NextRegisters(r, g), g)
            /\ lba_address(NextRegisters(r, g), g) = lba_address(r, g) + 1
=============================================================================
