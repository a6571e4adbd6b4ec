------------------------------- MODULE SdCsd -------------------------------
(***************************************************************************)
(* The capacity in the SD card's CSD register: image_loaded of             *)
(* src/src/devices/machine/spi_sdcard.cpp decides whether the size of an   *)
(* image can be expressed at all, as an SD card, as an SDHC card or as     *)
(* both, and spreads it over the bits of five bytes.                       *)
(***************************************************************************)
EXTENDS Integers, FiniteSetsExt

\* Width bits of x from bit n up: the macro BIT.
BIT(x, n, width) == (x \div 2^n) % 2^width

\* block_size_exp and total_exp: the trailing zeros of a positive number (below
\* 2^31, the bound of the checked sizes).
Exponent(n) == Max({e \in 0..30 : n % 2^e = 0})

\* The block count in CSD version 1.0 (twelve bits and a multiplier of up to
\* nine binary places) and in version 2.0 (sixteen bits, 1024 blocks a unit).
sd_ok(blocks) ==
    LET total_exp == Exponent(blocks)
    IN  2 <= total_exp /\ blocks \div 2^Min({total_exp, 9}) <= 2^12
sdhc_ok(blocks, bytes) ==
    bytes = 512 /\ 10 <= Exponent(blocks) /\ blocks \div 2^10 <= 2^16

Accepted(blocks, bytes) ==
    /\ blocks # 0
    /\ bytes \in {512, 1024, 2048}
    /\ sd_ok(blocks) \/ sdhc_ok(blocks, bytes)

TypeOf(blocks, bytes, preferred) ==
    IF sdhc_ok(blocks, bytes) /\ (preferred = "HC" \/ ~sd_ok(blocks))
    THEN "HC" ELSE "V2"

\* The bytes that hold READ_BL_LEN, C_SIZE and C_SIZE_MULT; the other fields
\* that share bytes 8, 9 and 10 are constants.
CsdV2(c_size, bytes) ==
    [b \in 5..10 |->
       CASE b = 5  -> 80 + Exponent(bytes)
         [] b = 6  -> 0
         [] b = 7  -> BIT(c_size, 16, 6)
         [] b = 8  -> BIT(c_size, 8, 8)
         [] b = 9  -> BIT(c_size, 0, 8)
         [] b = 10 -> 63]
CsdV1(c_size, c_size_mult, bytes) ==
    [b \in 5..10 |->
       CASE b = 5  -> 80 + Exponent(bytes)
         [] b = 6  -> 128 + BIT(c_size, 10, 2)
         [] b = 7  -> BIT(c_size, 2, 8)
         [] b = 8  -> BIT(c_size, 0, 2) * 64 + 7 * 8 + 6
         [] b = 9  -> 7 * 32 + 6 * 4 + BIT(c_size_mult, 1, 2)
         [] b = 10 -> BIT(c_size_mult, 0, 1) * 128 + 63]

m_csd(blocks, bytes, type) ==
    IF type = "HC" THEN CsdV2(blocks \div 2^10 - 1, bytes)
    ELSE LET c_size_mult == Min({Exponent(blocks), 9}) - 2
         IN  CsdV1(blocks \div 2^(c_size_mult + 2) - 1, c_size_mult, bytes)

-----------------------------------------------------------------------------
(* What a host makes of it, after the SD physical layer specification *)

ReadBlLen(csd) == 2^BIT(csd[5], 0, 4)
DecodedBlocks(csd, type) ==
    IF type = "HC"
    THEN (BIT(csd[7], 0, 6) * 2^16 + csd[8] * 2^8 + csd[9] + 1) * 2^10
    ELSE LET c_size == BIT(csd[6], 0, 2) * 2^10 + csd[7] * 2^2 + BIT(csd[8], 6, 2)
             mult   == BIT(csd[9], 0, 2) * 2 + BIT(csd[10], 7, 1)
         IN  (c_size + 1) * 2^(mult + 2)

\* Is there a CSD of either version for this size?
Expressible(blocks, bytes) ==
    \/ \E mult \in 0..7 : /\ blocks % 2^(mult + 2) = 0
                          /\ blocks \div 2^(mult + 2) \in 1..2^12
    \/ bytes = 512 /\ blocks % 2^10 = 0 /\ blocks \div 2^10 \in 1..2^16

\* An image is mounted exactly when its size can be expressed, and a host that
\* decodes the CSD finds exactly that size: no image looks larger than it is.
CsdReportsCapacity(Blocks, Sizes) ==
    \A blocks \in Blocks, bytes \in Sizes :
        /\ Accepted(blocks, bytes) <=>
             bytes \in {512, 1024, 2048} /\ Expressible(blocks, bytes)
        /\ Accepted(blocks, bytes) => \A preferred \in {"V2", "HC"} :
             LET type == TypeOf(blocks, bytes, preferred)
                 csd  == m_csd(blocks, bytes, type)
             IN  /\ \A b \in DOMAIN csd : csd[b] \in 0..255
                 /\ ReadBlLen(csd) = bytes
                 /\ DecodedBlocks(csd, type) = blocks
=============================================================================
