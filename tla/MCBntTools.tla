----------------------------- MODULE MCBntTools -----------------------------
(***************************************************************************)
(* The miner has board 0 with a chip at each polled id and board 1 with one *)
(* chip; no node for board 2, and a board 3 that only tools reach.          *)
(***************************************************************************)
EXTENDS BntTools

MCFitted == {<<0, 0>>, <<0, 32>>, <<1, 0>>, <<3, 0>>}

MCStart == {[mask |-> 0, b64 |-> FALSE, rst |-> FALSE]}

Other == [mask |-> 0, b64 |-> TRUE, rst |-> FALSE]

Reset(b, c, sure) == [tool |-> "bnt_reset", b |-> b, c |-> c, sure |-> sure]

Access(b, c, all, do, addr, given) ==
    [tool |-> "bnt_access", b |-> b, c |-> c, all |-> all, do |-> do,
     nchips |-> 2, addr |-> addr, given |-> given, ssr |-> Other, ier |-> {}]

\* bnt_reset -f, -b0, -c32, and "n"; bnt_access -i2 -r SSR, -d -c32, -r IER on
\* board 1, -a -w SSR, -w IER, and -w without a value.
MCCommands ==
    {Reset(None, None, TRUE), Reset(0, None, TRUE), Reset(None, 32, TRUE),
     Reset(0, None, FALSE),
     Access(None, 0, FALSE, "regscan", SSR, 0), Access(0, 32, FALSE, "dump", SSR, 0),
     Access(1, 0, FALSE, "read", IER, 0), Access(2, 0, FALSE, "read", SSR, 0),
     Access(None, 0, TRUE, "write", SSR, 1), Access(0, 32, FALSE, "write", IER, 1),
     Access(0, 0, FALSE, "write", SSR, 0)}
=============================================================================
