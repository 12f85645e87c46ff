------------------------------- MODULE BntBus -------------------------------
(***************************************************************************)
(* The SPI register bus of BNT as the host sees it (api/bnt_api.c,          *)
(* api/bnt_def.h).  A register file maps every fitted chip <<board, id>> to *)
(* the value of one register of it.  A transaction may be lost: the driver  *)
(* reports it by a negative return value, which regwrite's callers ignore   *)
(* and on which regread leaves the caller's buffer as it was.               *)
(***************************************************************************)
EXTENDS Integers

MAX_NBOARDS == 4
MAX_NCHIPS_PER_BOARD == 64

Boards == 0 .. MAX_NBOARDS - 1
ChipIds == 0 .. MAX_NCHIPS_PER_BOARD - 1

\* A broadcast reaches every chip behind the chip select, a unicast one chip.
regwrite(file, board, chipid, value, isbcast, ok) ==
    [k \in DOMAIN file |->
        IF ok /\ k[1] = board /\ (isbcast \/ k[2] = chipid)
        THEN value
        ELSE file[k]]

\* What the caller's buffer holds afterwards; nobody drives the line (idle)
\* when no chip answers to chipid.
regread(file, board, chipid, buf, idle, ok) ==
    CASE ~ok -> buf
      [] ok /\ <<board, chipid>> \in DOMAIN file -> file[<<board, chipid>>]
      [] OTHER -> idle

\* 1 << bnt_get_id_shift(nchips): the distance of two chip ids that are polled.
IdStep(nchips) ==
    CASE nchips = 2  -> 32
      [] nchips = 4  -> 16
      [] nchips = 8  -> 8
      [] nchips = 16 -> 4
      [] nchips = 32 -> 2
      [] OTHER       -> 1
=============================================================================
