---------------------------- MODULE BntConfigure ----------------------------
(***************************************************************************)
(* What bnt_init promises its caller: it resets boards first and configures *)
(* them afterwards, never takes a configuration back once it has left the   *)
(* reset phase, and returns only with every open board configured.  Which   *)
(* boards the reset really flushed is left open.                            *)
(***************************************************************************)
CONSTANT AllBoards

VARIABLES phase,       \* "resetting", "configuring" or "returned"
          open,        \* boards with an open SPI device
          configured,  \* open boards whose chips all hold handle->ssr
          flushed      \* open boards whose chips saw the soft reset

cvars == <<phase, open, configured, flushed>>

CInit ==
    /\ phase = "resetting"
    /\ open \in SUBSET AllBoards
    /\ configured \in SUBSET open
    /\ flushed = {}

Reset(b) ==
    /\ phase = "resetting"
    /\ b \in open
    /\ configured' = configured \ {b}
    /\ flushed' \in {flushed, flushed \cup {b}}
    /\ UNCHANGED <<phase, open>>

EndReset ==
    /\ phase = "resetting"
    /\ phase' = "configuring"
    /\ UNCHANGED <<open, configured, flushed>>

Configure(b) ==
    /\ phase = "configuring"
    /\ b \in open
    /\ configured' = configured \cup {b}
    /\ UNCHANGED <<phase, open, flushed>>

Return ==
    /\ phase = "configuring"
    /\ configured = open
    /\ phase' = "returned"
    /\ UNCHANGED <<open, configured, flushed>>

CNext ==
    \/ \E b \in AllBoards : Reset(b) \/ Configure(b)
    \/ EndReset
    \/ Return

CSpec == CInit /\ [][CNext]_cvars
=============================================================================
