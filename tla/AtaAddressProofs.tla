-------------------------- MODULE AtaAddressProofs --------------------------
(***************************************************************************)
(* Proofs about AtaAddress, for every register width and every geometry.   *)
(***************************************************************************)
EXTENDS AtaAddress, TLAPS

\* The increment of an eight bit register.
LEMMA IncValue ==
    ASSUME NEW n \in 0..(Byte - 1)
    PROVE  Inc(n) = IF n = Byte - 1 THEN 0 ELSE n + 1
<1> USE AddressAssumption DEF Inc
<1>1. CASE n = Byte - 1
  <2>1. n + 1 = Byte /\ Byte \in Nat /\ Byte > 0
    BY <1>1
  <2>2. Byte % Byte = 0
    BY <2>1
  <2> QED
    BY <1>1, <2>1, <2>2
<1>2. CASE n # Byte - 1
  <2>1. n + 1 \in Nat /\ n + 1 < Byte
    BY <1>2
  <2>2. (n + 1) % Byte = n + 1
    BY <2>1
  <2> QED
    BY <1>2, <2>2
<1> QED
  BY <1>1, <1>2

\* One more than the last digit carries into the next.
LEMMA Carry ==
    ASSUME NEW x \in Nat, NEW b \in Nat
    PROVE  x * b + (b - 1) + 1 = (x + 1) * b /\ x * b \in Nat
OBVIOUS

\* A cylinder number that is not the last moves on by one.
LEMMA CylinderStep ==
    ASSUME NEW r \in Registers, ~(r.high = Byte - 1 /\ r.low = Byte - 1)
    PROVE  /\ NextCylinder(r) \in Registers
           /\ Cylinder(NextCylinder(r)) = Cylinder(r) + 1
           /\ NextCylinder(r).L = r.L
           /\ NextCylinder(r).head = r.head
           /\ NextCylinder(r).sector = r.sector
<1>1. /\ r.low \in 0..(Byte - 1) /\ r.high \in 0..(Byte - 1)
      /\ r.head \in 0..(HeadSize - 1) /\ r.sector \in 0..(Byte - 1)
      /\ r.L \in BOOLEAN
  BY DEF Registers
<1>2. CASE r.low # Byte - 1
  <2>1. Inc(r.low) = r.low + 1 /\ Inc(r.low) # 0
    BY <1>1, <1>2, IncValue
  <2>2. NextCylinder(r) = [r EXCEPT !.low = r.low + 1, !.high = r.high]
    BY <2>1 DEF NextCylinder
  <2>3. r.low + 1 \in 0..(Byte - 1)
    BY <1>1, <1>2, AddressAssumption
  <2>4. /\ NextCylinder(r).low = r.low + 1 /\ NextCylinder(r).high = r.high
        /\ NextCylinder(r).L = r.L /\ NextCylinder(r).head = r.head
        /\ NextCylinder(r).sector = r.sector
        /\ NextCylinder(r) \in Registers
    BY <1>1, <2>2, <2>3 DEF Registers
  <2>5. r.high * Byte \in Nat
    BY <1>1, AddressAssumption, Carry
  <2> QED
    BY <1>1, <2>4, <2>5 DEF Cylinder
<1>3. CASE r.low = Byte - 1
  <2>1. Inc(r.low) = 0 /\ Inc(r.high) = r.high + 1
    BY <1>1, <1>3, IncValue
  <2>2. NextCylinder(r) = [r EXCEPT !.low = 0, !.high = r.high + 1]
    BY <2>1 DEF NextCylinder
  <2>3. r.high + 1 \in 0..(Byte - 1) /\ 0 \in 0..(Byte - 1)
    BY <1>1, <1>3, AddressAssumption
  <2>4. /\ NextCylinder(r).low = 0 /\ NextCylinder(r).high = r.high + 1
        /\ NextCylinder(r).L = r.L /\ NextCylinder(r).head = r.head
        /\ NextCylinder(r).sector = r.sector
        /\ NextCylinder(r) \in Registers
    BY <1>1, <2>2, <2>3 DEF Registers
  <2>5. (r.high + 1) * Byte + 0 = r.high * Byte + (Byte - 1) + 1
    BY <1>1, AddressAssumption, Carry
  <2> QED
    BY <1>3, <2>4, <2>5 DEF Cylinder
<1> QED
  BY <1>2, <1>3

\* The parts of a register file.
LEMMA Parts ==
    ASSUME NEW r \in Registers
    PROVE  /\ r.low \in Nat /\ r.low < Byte
           /\ r.high \in Nat /\ r.high < Byte
           /\ r.head \in Nat /\ r.head < HeadSize
           /\ r.sector \in Nat /\ r.sector < Byte
           /\ r.L \in BOOLEAN
BY AddressAssumption DEF Registers

\* In LBA mode the registers count, with a carry from each into the next.
LEMMA NextLBAStep ==
    ASSUME NEW r \in Registers, NEW g \in Geometry, r.L, ~LastAddress(r, g)
    PROVE  /\ NextLBA(r) \in Registers /\ NextLBA(r).L = TRUE
           /\ lba_address(NextLBA(r), g) = lba_address(r, g) + 1
<1> DEFINE B == Byte
           Upper(h, m, l) == (h * B + m) * B + l
           q == NextLBA(r)
<1>b. B \in Nat /\ B > 0 /\ HeadSize \in Nat
  BY AddressAssumption
<1>p. /\ r.low \in Nat /\ r.low < B /\ r.high \in Nat /\ r.high < B
      /\ r.head \in Nat /\ r.head < HeadSize
      /\ r.sector \in Nat /\ r.sector < B /\ r.L = TRUE
  BY Parts
<1>a. lba_address(r, g) = Upper(r.head, r.high, r.low) * B + r.sector
  BY DEF lba_address
<1>n. /\ r.head * B \in Nat
      /\ (r.head * B + r.high) * B \in Nat
      /\ Upper(r.head, r.high, r.low) \in Nat
      /\ Upper(r.head, r.high, r.low) * B \in Nat
  <2>1. r.head * B \in Nat
    BY <1>b, <1>p, Carry
  <2>2. (r.head * B + r.high) * B \in Nat
    BY <1>b, <1>p, <2>1, Carry
  <2>3. Upper(r.head, r.high, r.low) \in Nat
    BY <1>p, <2>2
  <2> QED
    BY <1>b, <2>1, <2>2, <2>3, Carry
<1>1. CASE r.sector # B - 1
  <2>1. Inc(r.sector) = r.sector + 1 /\ Inc(r.sector) # 0
    BY <1>1, <1>b, <1>p, IncValue
  <2>2. q = [r EXCEPT !.sector = r.sector + 1]
    BY <2>1 DEF NextLBA
  <2>3. /\ q.head = r.head /\ q.high = r.high /\ q.low = r.low /\ q.L = TRUE
        /\ q.sector = r.sector + 1 /\ q \in Registers
    BY <1>1, <1>b, <1>p, <2>2 DEF Registers
  <2>4. lba_address(q, g) = Upper(r.head, r.high, r.low) * B + (r.sector + 1)
    BY <2>3 DEF lba_address
  <2> HIDE DEF q, Upper
  <2> QED
    BY <1>a, <1>n, <1>p, <1>b, <2>3, <2>4 DEF q
<1>2. CASE r.sector = B - 1
  <2>1. Inc(r.sector) = 0
    BY <1>2, <1>b, <1>p, IncValue
  <2>2. q = [NextCylinder(r) EXCEPT
               !.sector = 0,
               !.head = IF Inc(r.low) = 0 /\ Inc(r.high) = 0 THEN @ + 1 ELSE @]
    BY <2>1 DEF NextLBA
  <2>3. q \in Registers /\ q.L = TRUE /\ q.sector = 0
        /\ Upper(q.head, q.high, q.low) = Upper(r.head, r.high, r.low) + 1
    <3>1. CASE ~(r.high = B - 1 /\ r.low = B - 1)
      <4>1. /\ NextCylinder(r) \in Registers
            /\ Cylinder(NextCylinder(r)) = Cylinder(r) + 1
            /\ NextCylinder(r).L = r.L /\ NextCylinder(r).head = r.head
        BY <3>1, CylinderStep
      <4>2. ~(Inc(r.low) = 0 /\ Inc(r.high) = 0)
        BY <1>b, <1>p, <3>1, IncValue
      <4>3. q = [NextCylinder(r) EXCEPT !.sector = 0, !.head = r.head]
        BY <2>2, <4>1, <4>2
      <4>4. /\ q \in Registers /\ q.L = TRUE /\ q.sector = 0
            /\ q.head = r.head /\ q.high = NextCylinder(r).high
            /\ q.low = NextCylinder(r).low
        <5>1. r.head \in 0..(HeadSize - 1) /\ 0 \in 0..(Byte - 1)
          BY <1>b, <1>p
        <5> DEFINE c == NextCylinder(r)
        <5>2. c \in Registers /\ c.L = TRUE
          BY <1>p, <4>1
        <5>3. q = [c EXCEPT !.sector = 0, !.head = r.head]
          BY <4>3
        <5> HIDE DEF q, c
        <5>4. q \in Registers
          BY <5>1, <5>2, <5>3 DEF Registers
        <5>5. /\ q.L = TRUE /\ q.sector = 0 /\ q.head = r.head
              /\ q.high = c.high /\ q.low = c.low
          BY <5>2, <5>3 DEF Registers
        <5> QED
          BY <5>4, <5>5 DEF c
      <4>5. q.high * B + q.low = r.high * B + r.low + 1
        BY <4>1, <4>4 DEF Cylinder
      <4>6. q.high \in Nat /\ q.low \in Nat
        BY <4>4, Parts
      <4>7. Upper(q.head, q.high, q.low) = (r.head * B) * B + (q.high * B + q.low)
        BY <1>b, <1>p, <1>n, <4>4, <4>6
      <4>8. Upper(r.head, r.high, r.low) = (r.head * B) * B + (r.high * B + r.low)
        BY <1>b, <1>p, <1>n
      <4>9. (r.head * B) * B \in Nat /\ r.high * B \in Nat
        BY <1>b, <1>p, <1>n, Carry
      <4> HIDE DEF q, Upper
      <4> QED
        BY <1>p, <4>4, <4>5, <4>7, <4>8, <4>9
    <3>2. CASE r.high = B - 1 /\ r.low = B - 1
      <4>1. Inc(r.low) = 0 /\ Inc(r.high) = 0
        BY <1>b, <1>p, <3>2, IncValue
      <4>2. NextCylinder(r) = [r EXCEPT !.low = 0, !.high = 0]
        BY <4>1 DEF NextCylinder
      <4>3. r.head # HeadSize - 1
        BY <1>2, <3>2 DEF LastAddress
      <4>4. q = [[r EXCEPT !.low = 0, !.high = 0] EXCEPT
                   !.sector = 0, !.head = r.head + 1]
        BY <2>2, <4>1, <4>2 DEF Registers
      <4>5. /\ q \in Registers /\ q.L = TRUE /\ q.sector = 0
            /\ q.head = r.head + 1 /\ q.high = 0 /\ q.low = 0
        <5>1. r.head + 1 \in 0..(HeadSize - 1) /\ 0 \in 0..(Byte - 1)
          BY <1>b, <1>p, <4>3
        <5> DEFINE c == [r EXCEPT !.low = 0, !.high = 0]
        <5>2. c \in Registers /\ c.L = TRUE /\ c.low = 0 /\ c.high = 0
          BY <1>p, <5>1 DEF Registers
        <5>3. q = [c EXCEPT !.sector = 0, !.head = r.head + 1]
          BY <4>4
        <5> HIDE DEF q, c
        <5>4. q \in Registers
          BY <5>1, <5>2, <5>3 DEF Registers
        <5>5. /\ q.L = TRUE /\ q.sector = 0 /\ q.head = r.head + 1
              /\ q.high = 0 /\ q.low = 0
          BY <5>2, <5>3 DEF Registers
        <5> QED
          BY <5>4, <5>5
      <4>6. r.head * B + (B - 1) + 1 = (r.head + 1) * B /\ (r.head + 1) * B \in Nat
        BY <1>b, <1>p, Carry
      <4>7. (r.head * B + (B - 1)) * B + (B - 1) + 1 = (r.head * B + (B - 1) + 1) * B
        BY <1>b, <1>p, <1>n, Carry
      <4>8. Upper(q.head, q.high, q.low) = ((r.head + 1) * B) * B
        BY <1>b, <1>p, <4>5, <4>6
      <4> HIDE DEF q
      <4> QED
        BY <1>b, <1>p, <3>2, <4>5, <4>6, <4>7, <4>8
    <3> QED
      BY <3>1, <3>2
  <2>4. lba_address(q, g) = Upper(q.head, q.high, q.low) * B + 0
    BY <2>3 DEF lba_address
  <2> HIDE DEF q, Upper
  <2>5. (Upper(r.head, r.high, r.low) + 1) * B
          = Upper(r.head, r.high, r.low) * B + (B - 1) + 1
    BY <1>b, <1>n, Carry
  <2>6. lba_address(q, g) = lba_address(r, g) + 1
    BY <1>2, <1>a, <1>b, <1>n, <2>3, <2>4, <2>5
  <2> QED
    BY <2>3, <2>6 DEF q
<1> QED
  BY <1>1, <1>2

\* In CHS mode: the next sector, the first of the next track or of the next
\* cylinder.
LEMMA NextCHSStep ==
    ASSUME NEW r \in Registers, NEW g \in Geometry, r.L = FALSE,
           SafeGeometry(g), Addresses(r, g), ~LastAddress(r, g)
    PROVE  /\ NextCHS(r, g) \in Registers
           /\ Addresses(NextCHS(r, g), g)
           /\ lba_address(NextCHS(r, g), g) = lba_address(r, g) + 1
<1> DEFINE H == g.heads
           T == g.sectors
           C == Cylinder(r)
           q == NextCHS(r, g)
<1>g. /\ H \in Nat /\ H > 0 /\ H <= HeadSize
      /\ T \in Nat /\ T > 0 /\ T < Byte - 1
      /\ Byte \in Nat /\ Byte > 0 /\ HeadSize \in Nat
  <2>1. /\ H \in Nat /\ H > 0 /\ H <= HeadSize /\ T \in Nat /\ T < Byte - 1
        /\ Byte \in Nat /\ Byte > 0 /\ HeadSize \in Nat
    BY AddressAssumption DEF Geometry, SafeGeometry
  <2>2. r.sector \in 1..T
    BY DEF Addresses
  <2> QED
    BY <2>1, <2>2
<1>p. /\ r.low \in Nat /\ r.low < Byte /\ r.high \in Nat /\ r.high < Byte
      /\ r.head \in Nat /\ r.head < H
      /\ r.sector \in Nat /\ r.sector < Byte
      /\ r.sector > 0 /\ r.sector <= T
  BY <1>g, Parts DEF Addresses
<1>n. C \in Nat /\ C * H \in Nat /\ (C * H + r.head) * T \in Nat
  <2>1. C \in Nat
    BY <1>g, <1>p, Carry DEF Cylinder
  <2> HIDE DEF C, H, T
  <2>2. C * H \in Nat
    BY <1>g, <2>1, Carry
  <2> QED
    BY <1>g, <1>p, <2>1, <2>2, Carry
<1>a. lba_address(r, g) = (C * H + r.head) * T + r.sector - 1
  BY DEF lba_address
<1>i. Inc(r.sector) = r.sector + 1
  BY <1>g, <1>p, IncValue
<1>1. CASE r.sector + 1 <= T
  <2>1. q = [r EXCEPT !.sector = r.sector + 1]
    BY <1>1, <1>i DEF NextCHS
  <2>2. r.sector + 1 \in 0..(Byte - 1) /\ r.sector + 1 \in 1..T
    BY <1>1, <1>g, <1>p
  <2> HIDE DEF q
  <2>3. /\ q \in Registers /\ q.L = FALSE /\ q.sector = r.sector + 1
        /\ q.head = r.head /\ q.high = r.high /\ q.low = r.low
    BY <2>1, <2>2 DEF Registers
  <2>4. Addresses(q, g)
    BY <1>p, <2>2, <2>3 DEF Addresses
  <2>5. lba_address(q, g) = (C * H + r.head) * T + (r.sector + 1) - 1
    BY <2>3 DEF lba_address, Cylinder
  <2>6. lba_address(q, g) = lba_address(r, g) + 1
    <3> HIDE DEF C, H, T
    <3> QED
      BY <1>a, <1>n, <1>p, <2>5
  <2> QED
    BY <2>3, <2>4, <2>6 DEF q
<1>2. CASE ~(r.sector + 1 <= T)
  <2>0. r.sector = T
    BY <1>2, <1>g, <1>p
  <2>1. CASE r.head + 1 < H
    <3>1. q = [r EXCEPT !.sector = 1, !.head = r.head + 1]
      BY <1>2, <1>i, <2>1 DEF NextCHS
    <3>2. 1 \in 0..(Byte - 1) /\ r.head + 1 \in 0..(HeadSize - 1) /\ 1 \in 1..T
      BY <1>g, <1>p, <2>1
    <3> HIDE DEF q
    <3>3. /\ q \in Registers /\ q.L = FALSE /\ q.sector = 1
          /\ q.head = r.head + 1 /\ q.high = r.high /\ q.low = r.low
      BY <3>1, <3>2 DEF Registers
    <3>4. Addresses(q, g)
      BY <2>1, <3>2, <3>3 DEF Addresses
    <3>5. lba_address(q, g) = (C * H + (r.head + 1)) * T + 1 - 1
      BY <3>3 DEF lba_address, Cylinder
    <3>6. lba_address(q, g) = lba_address(r, g) + 1
      <4> HIDE DEF C, H, T
      <4>1. (C * H + r.head) * T + (T - 1) + 1 = (C * H + r.head + 1) * T
        BY <1>g, <1>n, <1>p, Carry
      <4>2. C * H + (r.head + 1) = C * H + r.head + 1
        BY <1>n, <1>p
      <4> QED
        BY <1>a, <1>g, <1>n, <1>p, <2>0, <3>5, <4>1, <4>2
    <3> QED
      BY <3>3, <3>4, <3>6 DEF q
  <2>2. CASE ~(r.head + 1 < H)
    <3>0. r.head = H - 1
      BY <2>2, <1>g, <1>p
    <3> DEFINE c == NextCylinder(r)
    <3>1. q = [c EXCEPT !.sector = 1, !.head = 0]
      BY <1>2, <1>i, <2>2 DEF NextCHS
    <3>2. ~(r.high = Byte - 1 /\ r.low = Byte - 1)
      BY <2>0, <3>0 DEF LastAddress
    <3>3. c \in Registers /\ Cylinder(c) = C + 1 /\ c.L = FALSE
      BY <3>2, CylinderStep
    <3>4. 1 \in 0..(Byte - 1) /\ 0 \in 0..(HeadSize - 1) /\ 1 \in 1..T
      BY <1>g, <1>p
    <3> HIDE DEF q, c
    <3>5. q \in Registers
      BY <3>1, <3>3, <3>4 DEF Registers
    <3>6. /\ q.L = FALSE /\ q.sector = 1 /\ q.head = 0
          /\ q.high = c.high /\ q.low = c.low
      BY <3>1, <3>3 DEF Registers
    <3>7. Addresses(q, g)
      BY <1>g, <3>4, <3>6 DEF Addresses
    <3>8. Cylinder(q) = C + 1
      BY <3>3, <3>6 DEF Cylinder
    <3>9. lba_address(q, g) = ((C + 1) * H + 0) * T + 1 - 1
      BY <3>6, <3>8 DEF lba_address
    <3>10. lba_address(q, g) = lba_address(r, g) + 1
      <4> HIDE DEF C, H, T
      <4>1. C * H + (H - 1) + 1 = (C + 1) * H /\ (C + 1) * H \in Nat
        BY <1>g, <1>n, Carry
      <4>2. (C * H + r.head) * T + (T - 1) + 1 = (C * H + r.head + 1) * T
        BY <1>g, <1>n, <1>p, Carry
      <4>3. C * H + r.head + 1 = (C + 1) * H + 0
        BY <1>g, <1>n, <3>0, <4>1
      <4> QED
        BY <1>a, <1>g, <1>n, <1>p, <2>0, <3>9, <4>2, <4>3
    <3> QED
      BY <3>5, <3>7, <3>10 DEF q
  <2> QED
    BY <2>1, <2>2
<1> QED
  BY <1>1, <1>2

\* For every register width and every geometry whose heads fit the head register
\* and whose tracks leave the sector register room to count: next_sector of
\* atastorage.cpp moves to the following block of the image and stays inside the
\* registers, across tracks, cylinders and byte boundaries, in CHS and LBA mode.
THEOREM SectorsConsecutive == ConsecutiveSectors
<1> SUFFICES ASSUME NEW g \in Geometry, NEW r \in Registers,
                    SafeGeometry(g), Addresses(r, g), ~LastAddress(r, g)
             PROVE  /\ NextRegisters(r, g) \in Registers
                    /\ Addresses(NextRegisters(r, g), g)
                    /\ lba_address(NextRegisters(r, g), g) = lba_address(r, g) + 1
  BY DEF ConsecutiveSectors
<1>1. CASE r.L
  <2>1. NextRegisters(r, g) = NextLBA(r)
    BY <1>1 DEF NextRegisters
  <2>2. /\ NextLBA(r) \in Registers /\ NextLBA(r).L = TRUE
        /\ lba_address(NextLBA(r), g) = lba_address(r, g) + 1
    BY <1>1, NextLBAStep
  <2> QED
    BY <2>1, <2>2 DEF Addresses
<1>2. CASE ~r.L
  <2>1. NextRegisters(r, g) = NextCHS(r, g)
    BY <1>2 DEF NextRegisters
  <2>2. r.L = FALSE
    BY <1>2, Parts
  <2> QED
    BY <2>1, <2>2, NextCHSStep
<1> QED
  BY <1>1, <1>2
=============================================================================
