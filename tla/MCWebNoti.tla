----------------------------- MODULE MCWebNoti -----------------------------
(***************************************************************************)
(* One miner and two runs of bnt_setnoti at once; three texts, one of them  *)
(* longer than the others, as "mining" with its time and target is.         *)
(***************************************************************************)
EXTENDS WebNoti

CONSTANTS miner, noti1, noti2, ready, mining, mined

MCLength == [m \in {ready, mining, mined} |-> IF m = mining THEN 3 ELSE 2]
=============================================================================
