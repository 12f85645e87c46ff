----------------------------- MODULE NonceSpace ------------------------------
(***************************************************************************)
(* How the search for a nonce is shared out (api/bnt_api.c): a mask chosen  *)
(* from the numbers of boards and chips says which bits of <<board, chip>>  *)
(* a chip puts on top of the nonces it tries; the nonce it reports has to   *)
(* be corrected by what its pipeline ran ahead.                             *)
(*                                                                          *)
(* A 32-bit nonce is a record: share (the top bits), mid (the bits inside   *)
(* the window of the mask, MidSize values) and low (the bits below it).     *)
(***************************************************************************)
EXTENDS BntBus

CONSTANTS FPGA,     \* the build flag
          MidSize   \* 2 ^ (bits of the window); 2 ^ 12 or more in the code

ASSUME FPGAAssumption == FPGA \in BOOLEAN
ASSUME MidSizeAssumption == MidSize \in Nat /\ MidSize > 3

BoardCounts == {1, 2, 4}
ChipCounts  == {1, 2, 4, 8, 16, 32, 64}

\* Mutant: the row of four boards holds the mask of two.
BoardMask_Row4As2(nboards) == IF nboards = 1 THEN 0 ELSE 64

\* The rows and columns of BNT_CONF_MASK that are filled in.
BoardMask(nboards) == CASE nboards = 1 -> 0
                        [] nboards = 2 -> 64
                        [] nboards = 4 -> 192
ChipMask(nchips) == 64 - 64 \div nchips

\* BNT_CONF_MASK, zero where it is not initialised, for indices inside it.
bnt_get_nonce_mask(nboards, nchips) ==
    IF nboards \in BoardCounts /\ nchips \in ChipCounts
    THEN BoardMask(nboards) + ChipMask(nchips)
    ELSE 0

\* BNT_TOTAL_CHIPS_FROM_MASK, where it is initialised.
TotalChips ==
    [mask \in {0, 32, 48, 56, 60, 62, 63, 64, 96, 112, 120, 124, 126, 127,
               192, 224, 240, 248, 252, 254, 255} |->
        CASE mask = 0               -> 1
          [] mask \in {32, 64}      -> 2
          [] mask \in {48, 96, 192} -> 4
          [] mask \in {56, 112, 224} -> 8
          [] mask \in {60, 120, 240} -> 16
          [] mask \in {62, 124, 248} -> 32
          [] mask \in {63, 126, 252} -> 64
          [] mask \in {127, 254}    -> 128
          [] mask = 255             -> 256]

bnt_get_nchips(mask) ==
    IF mask \in DOMAIN TotalChips THEN TotalChips[mask] ELSE 0

\* The bits of <<board, chip>> under the mask: the share of the nonces a chip
\* tries.  The masks are runs of ones, at most two for the board and from the
\* top for the chip.
ShareOf(board, chip, mask) ==
    <<board % ((mask \div 64) + 1), chip - (chip % (64 - (mask % 64)))>>

\* The chip ids bnt_getnonce polls.
Polled(nchips) == {c \in ChipIds : c % IdStep(nchips) = 0}

-----------------------------------------------------------------------------
\* Where the window of the mask ends: after the eight engines of an FPGA, or
\* after 12 bits; the entries of the other masks are zero.
EightEngines(mask) == FPGA /\ mask \in {0, 48, 112, 240}
LowSize(mask) == IF EightEngines(mask) THEN 8 ELSE 4096

RawNonces(mask, shares) ==
    [share : shares, mid : 0 .. MidSize - 1, low : 0 .. LowSize(mask) - 1]

\* Mutant: the correction goes by the window, which it changes.
Offset_OfWindow(raw) == IF raw.mid % 2 # 0 THEN 2 ELSE 3

\* The correction, 2 or 3, by the low byte of the bits below the window.
Offset(raw) == IF (raw.low % 256) \div 2 # 0 THEN 2 ELSE 3

\* bnt_get_realnonce: the correction is subtracted in steps of one engine
\* round.  Below a 12-bit window it only borrows one from the window.
bnt_get_realnonce(raw, mask) ==
    LET ahead == IF EightEngines(mask) THEN Offset(raw) ELSE 1 IN
    IF mask \in DOMAIN TotalChips
    THEN [raw EXCEPT !.mid = (raw.mid - ahead) % MidSize]
    ELSE raw
=============================================================================
