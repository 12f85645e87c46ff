------------------------------ MODULE MCDevScan ------------------------------
(***************************************************************************)
(* Boards with one chip, two or four at the polled ids, three chips, chips  *)
(* but no chip 0, and none at all.                                          *)
(***************************************************************************)
EXTENDS DevScan

MCLayouts == {{}, {0}, {0, 32}, {0, 16, 32, 48}, {0, 16, 32}, {32}}

MCOptions == {<<1, 2>>, <<2, 2>>, <<4, 1>>, <<2, 0>>, <<0, 2>>}
=============================================================================
