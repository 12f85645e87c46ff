----------------------------- MODULE MCGpioIrq -----------------------------
(***************************************************************************)
(* Two lines; both at once or the second alone, configured and polled, only *)
(* configured, or disabled; a line found exported may be an output with its *)
(* polarity inverted.                                                       *)
(***************************************************************************)
EXTENDS GpioIrq

MCCommands ==
    {[all |-> a, board |-> 1, disable |-> m = "-d", poll |-> m = "-p"] :
        a \in BOOLEAN, m \in {"", "-d", "-p"}}

MCStartAttrs == {Default, [dir |-> "out", edge |-> "none", low |-> TRUE],
                 [dir |-> "in", edge |-> "rising", low |-> TRUE]}
=============================================================================
