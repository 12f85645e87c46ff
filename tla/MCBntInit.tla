------------------------------ MODULE MCBntInit ------------------------------
(***************************************************************************)
(* Two boards, nchips = 2: board 0 has both polled ids and one that is not  *)
(* polled, board 1 lacks the second polled id.                              *)
(***************************************************************************)
EXTENDS BntInit

MCFitted == {<<0, 0>>, <<0, 16>>, <<0, 32>>, <<1, 0>>}

\* After power-on, in a soft reset nobody released, configured before.
MCStart == {Cleared, SoftReset, HandleSsr}
=============================================================================
