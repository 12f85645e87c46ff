------------------------------ MODULE MCDevTest ------------------------------
(***************************************************************************)
(* Board 0 with chips at two polled ids, no node for board 1, one chip on   *)
(* board 2; two registers.  One cell may be stuck at 0, at all ones or at   *)
(* the last pattern.                                                        *)
(***************************************************************************)
EXTENDS DevTest, TLC

MCFitted == {<<0, 0>>, <<0, 48>>, <<2, 0>>}

MCRegs == {6, 7}

MCDefects ==
    {<<>>} \cup {cell :> v : cell \in {<<<<0, 0>>, 6>>, <<<<0, 48>>, 7>>},
                             v \in {0, 90, 255}}

\* bnt_devtest -b0 -n4 and -a -n4, and one chip by its id.
MCOptions ==
    {[all |-> FALSE, nchips |-> 4, board |-> 0, chip |-> 0],
     [all |-> TRUE,  nchips |-> 4, board |-> 0, chip |-> 0],
     [all |-> FALSE, nchips |-> 0, board |-> 0, chip |-> 48]}
=============================================================================
