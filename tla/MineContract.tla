---------------------------- MODULE MineContract ----------------------------
(***************************************************************************)
(* What bnt_getnonce promises about a file of block headers: they are taken *)
(* one at a time and in order, each has one outcome, and a nonce is given   *)
(* out for a header only if it solves it.  A header may be given up, by its *)
(* time or by a key, and only a key ends the program before the file does.  *)
(***************************************************************************)
EXTENDS Naturals, Sequences

CONSTANTS Headers,   \* number of them
          Solutions, \* nonces that solve each header, by build
          NoAnswer

VARIABLES build,    \* DEMO or not
          phase,    \* "ready", "mining", "found", "given up" or "ended"
          header,   \* the header taken last
          answer,   \* the nonce found, until it is recorded
          outcomes  \* of the headers that are over: was a nonce found?

mvars == <<build, phase, header, answer, outcomes>>

MInit ==
    /\ build \in BOOLEAN
    /\ phase = "ready" /\ header = 0 /\ answer = NoAnswer /\ outcomes = <<>>

Take ==
    /\ phase = "ready" /\ header < Headers
    /\ phase' = "mining" /\ header' = header + 1
    /\ UNCHANGED <<build, answer, outcomes>>

Find ==
    /\ phase = "mining"
    /\ answer' \in Solutions[build][header]
    /\ phase' = "found"
    /\ UNCHANGED <<build, header, outcomes>>

GiveUp ==
    /\ phase = "mining"
    /\ phase' = "given up"
    /\ UNCHANGED <<build, header, answer, outcomes>>

\* A key that gave a header up may end the program as well.
Record ==
    /\ phase \in {"found", "given up"}
    /\ outcomes' = Append(outcomes, phase = "found")
    /\ \/ phase' = "ready"
       \/ phase = "given up" /\ build /\ phase' = "ended"
    /\ answer' = NoAnswer
    /\ UNCHANGED <<build, header>>

End ==
    /\ phase = "ready" /\ header = Headers
    /\ phase' = "ended"
    /\ UNCHANGED <<build, header, answer, outcomes>>

MNext == Take \/ Find \/ GiveUp \/ Record \/ End

MSpec == MInit /\ [][MNext]_mvars
=============================================================================
