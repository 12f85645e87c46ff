------------------------------ MODULE MCBntMine ------------------------------
(***************************************************************************)
(* Two boards with a chip each at different polled ids; three headers and   *)
(* two work ids besides 0, so that the third job reuses the first's.  The   *)
(* first header has a good nonce a chip may report, the second has the one  *)
(* a lost read of the registers stands for, the third has none: the hash 0  *)
(* is rejected.  The mantissa of the second target begins with a zero byte, *)
(* and the hash that meets it is above it.                                  *)
(***************************************************************************)
EXTENDS BntMine

MCFitted == {<<0, 0>>, <<1, 16>>}

MCReports == {[mid |-> 1, low |-> 0], [mid |-> 3, low |-> 2]}

Reported(k, r) ==
    bnt_get_realnonce([share |-> ShareOf(k[1], k[2], Mask),
                       mid |-> r.mid, low |-> r.low], Mask)

ZeroReal == bnt_get_realnonce(Zero, Mask)

MCHeaderNonce ==
    <<Reported(<<1, 16>>, [mid |-> 1, low |-> 0]), ZeroReal,
      Reported(<<0, 0>>, [mid |-> 3, low |-> 2])>>

MCTarget == <<[exp |-> 4, mant |-> <<1, 0, 0>>], [exp |-> 4, mant |-> <<0, 17, 112>>],
              [exp |-> 4, mant |-> <<127, 255, 255>>]>>

\* Least significant byte first: just below the target, below it rounded up, 0.
MCDoubleHash ==
    LET Worst == <<255, 255, 255, 255, 255>>
        Of(n, hash) == [k \in Nonces |-> IF k = n THEN hash ELSE Worst]
    IN <<Of(MCHeaderNonce[1], <<255, 255, 255, 0, 0>>),
         Of(MCHeaderNonce[2], <<7, 0, 200, 0, 0>>),
         Of(MCHeaderNonce[3], <<0, 0, 0, 0, 0>>)>>

MCPast == <<0, 200, 1, 0>>

\* Hashes of few different bytes, what may follow them, and targets at and
\* next to the places where the lengths and the mantissas change.
SomePasts == {<<0, 0, 0, 0>>, <<0, 255, 255, 255>>, <<1, 0, 0, 1>>,
              <<255, 255, 255, 255>>}
SomeTargets ==
    [exp : 3 .. HashLen,
     mant : {<<0, 0, 0>>, <<0, 0, 255>>, <<0, 255, 255>>, <<1, 0, 0>>, <<1, 1, 1>>,
             <<127, 255, 255>>, <<128, 0, 0>>, <<255, 255, 255>>}]
MCSamples ==
    [hash : [1 .. HashLen -> {0, 1, 128, 255}], past : SomePasts, target : SomeTargets]
=============================================================================
