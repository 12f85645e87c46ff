------------------------------ MODULE BntInit -------------------------------
(***************************************************************************)
(* bnt_init (app/bnt_getnonce.c), run before every job: reset every open    *)
(* board, write handle->ssr to all of them, optionally speed the PLL up,    *)
(* read SSR back from every polled chip id rewriting it where it differs,   *)
(* and enable the interrupts.  One action per bus transaction; each may be  *)
(* lost.  handle->ssr holds the nonce mask, the 64-bit flag and a clear     *)
(* soft-reset flag.                                                         *)
(***************************************************************************)
EXTENDS BntBus

CONSTANTS NChips,         \* handle->nchips
          Mask,           \* bnt_get_nonce_mask(nboards, nchips)
          Fitted,         \* <<board, id>> of the chips that answer
          StartSsr,       \* SSR values a chip may hold when bnt_init is called
          MaxFaults,      \* lost transactions, boards uniform at the start
          MaxFaultsMixed  \* lost transactions otherwise

Ssr == [mask : 0 .. 255, b64 : BOOLEAN, rst : BOOLEAN]

ASSUME NChipsAssumption == NChips \in 1 .. MAX_NCHIPS_PER_BOARD
ASSUME MaskAssumption == Mask \in 0 .. 255
ASSUME FittedAssumption == Fitted \subseteq Boards \X ChipIds

IntKinds == {"IntOverHeat", "IntMined", "IntResultFifoAlmostFull",
             "IntBHVFifoFull"}
IntAll == IntKinds

HandleSsr == [mask |-> Mask, b64 |-> TRUE, rst |-> FALSE]
SoftReset == [mask |-> 0, b64 |-> FALSE, rst |-> TRUE]
Cleared   == [mask |-> 0, b64 |-> FALSE, rst |-> FALSE]

\* The only value with the reset bit that the code ever writes is 1.
ASSUME StartAssumption ==
    StartSsr \subseteq Ssr /\ \A v \in StartSsr : v.rst => v = SoftReset
ASSUME FaultsAssumption == MaxFaults \in 0 .. 7 /\ MaxFaultsMixed \in 0 .. 2

\* Mutant: the first comparison with the bits of the other one.
And_FF04_DropsFlag(v) == [v EXCEPT !.rst = FALSE, !.b64 = FALSE]

\* ntohs(ssr) & 0xFF04 of the first comparison, & 0xFF00 of the retry's.
And_FF04(v) == [v EXCEPT !.rst = FALSE]
And_FF00(v) == [v EXCEPT !.rst = FALSE, !.b64 = FALSE]

MaxRetry == 5

VARIABLES ssr,      \* SSR of every fitted chip
          ier,      \* IER of every fitted chip
          pll,      \* boards whose PSR was written
          flushed,  \* boards that saw the soft reset
          open,     \* boards with handle->spifd[board] > 0
          fast,     \* info->fast in an FPGA build
          pc, board, chip, retry,  \* control state and loop counters
          buf,      \* the local variable ssr
          mixed,    \* chips of one board differed when bnt_init was called
          faults    \* transactions lost so far

chips == <<ssr, ier, pll, flushed>>
env   == <<open, fast, mixed>>
vars  == <<ssr, ier, pll, flushed, open, fast, pc, board, chip, retry, buf,
           mixed, faults>>

-----------------------------------------------------------------------------
Uniform(b) ==
    \A k, l \in Fitted : k[1] = b /\ l[1] = b => ssr[k] = ssr[l]

\* Every chip of board b, polled or not, holds handle->ssr.
Configured(b) == \A k \in Fitted : k[1] = b => ssr[k] = HandleSsr

\* A board is open when chip 0 of it said hello.
Init ==
    /\ ssr \in [Fitted -> StartSsr]
    /\ \E kinds \in {{}, IntAll} : ier = [k \in Fitted |-> kinds]
    /\ pll = {} /\ flushed = {}
    /\ open \in SUBSET {b \in Boards : <<b, 0>> \in Fitted}
    /\ fast \in BOOLEAN
    /\ pc = "reset" /\ board = 0 /\ chip = 0 /\ retry = 0
    /\ buf = Cleared
    /\ mixed = ~ \A b \in Boards : Uniform(b)
    /\ faults = 0

\* One transaction; the environment may lose it while its budget lasts.
Bus(ok) ==
    /\ ok \/ faults < (IF mixed THEN MaxFaultsMixed ELSE MaxFaults)
    /\ faults' = IF ok THEN faults ELSE faults + 1

\* A pass of a loop over the boards at an open board.
AtBoard(loop) == pc = loop /\ board \in open

-----------------------------------------------------------------------------
\* bnt_softreset, first write.  Whether it clears IER as well the source does
\* not say: both are possible.
ResetSet ==
    /\ AtBoard("reset")
    /\ \E ok \in BOOLEAN :
         /\ Bus(ok)
         /\ ssr' = regwrite(ssr, board, 0, SoftReset, TRUE, ok)
         /\ ier' \in {ier, regwrite(ier, board, 0, {}, TRUE, ok)}
         /\ flushed' = IF ok THEN flushed \cup {board} ELSE flushed
    /\ pc' = "release"
    /\ UNCHANGED <<pll, env, board, chip, retry, buf>>

\* bnt_softreset, second write, 100 ms later.
ResetRelease ==
    /\ pc = "release"
    /\ \E ok \in BOOLEAN :
         /\ Bus(ok)
         /\ ssr' = regwrite(ssr, board, 0, Cleared, TRUE, ok)
    /\ pc' = "reset"
    /\ board' = board + 1
    /\ UNCHANGED <<ier, pll, flushed, env, chip, retry, buf>>

\* bnt_write_all(SSR, htons(handle->ssr)), one board.
WriteSsr ==
    /\ AtBoard("ssr")
    /\ \E ok \in BOOLEAN :
         /\ Bus(ok)
         /\ ssr' = regwrite(ssr, board, 0, HandleSsr, TRUE, ok)
    /\ board' = board + 1
    /\ UNCHANGED <<ier, pll, flushed, env, pc, chip, retry, buf>>

\* bnt_write_all(PSR, htons(1)), one board.
WritePsr ==
    /\ AtBoard("psr")
    /\ \E ok \in BOOLEAN :
         /\ Bus(ok)
         /\ pll' = IF ok THEN pll \cup {board} ELSE pll
    /\ board' = board + 1
    /\ UNCHANGED <<ssr, ier, flushed, env, pc, chip, retry, buf>>

\* The chip is done with: the next polled id, with a cleared buffer.
NextChip ==
    /\ pc' = "verify"
    /\ chip' = chip + IdStep(NChips)
    /\ buf' = Cleared
    /\ retry' = 0

\* First read of a polled id: accepted, or on to the retry loop.
VerifyRead ==
    /\ AtBoard("verify") /\ chip < MAX_NCHIPS_PER_BOARD
    /\ \E ok \in BOOLEAN :
         LET seen == And_FF04(regread(ssr, board, chip, buf, Cleared, ok)) IN
         /\ Bus(ok)
         /\ \/ seen = HandleSsr /\ NextChip
            \/ /\ seen # HandleSsr
               /\ pc' = "retry" /\ buf' = seen /\ UNCHANGED <<chip, retry>>
    /\ UNCHANGED <<chips, env, board>>

VerifyNextBoard ==
    /\ AtBoard("verify") /\ chip >= MAX_NCHIPS_PER_BOARD
    /\ board' = board + 1
    /\ chip' = 0
    /\ UNCHANGED <<chips, env, pc, retry, buf, faults>>

\* Mutant of RetryWrite: the value read is sent back, not handle->ssr.
RetryWriteReadback ==
    /\ pc = "retry"
    /\ \E ok \in BOOLEAN :
         /\ Bus(ok)
         /\ ssr' = regwrite(ssr, board, 0, buf, TRUE, ok)
    /\ buf' = HandleSsr
    /\ pc' = "reread"
    /\ UNCHANGED <<ier, pll, flushed, env, board, chip, retry>>

\* Mutant of RetryWrite: the write reaches chip 0 only.
RetryWriteUnicast ==
    /\ pc = "retry"
    /\ \E ok \in BOOLEAN :
         /\ Bus(ok)
         /\ ssr' = regwrite(ssr, board, 0, HandleSsr, FALSE, ok)
    /\ buf' = HandleSsr
    /\ pc' = "reread"
    /\ UNCHANGED <<ier, pll, flushed, env, board, chip, retry>>

\* The retry loop rewrites the whole board ...
RetryWrite ==
    /\ pc = "retry"
    /\ \E ok \in BOOLEAN :
         /\ Bus(ok)
         /\ ssr' = regwrite(ssr, board, 0, HandleSsr, TRUE, ok)
    /\ buf' = HandleSsr
    /\ pc' = "reread"
    /\ UNCHANGED <<ier, pll, flushed, env, board, chip, retry>>

\* Mutants of RetryRead: the limit is lost, the counter is never advanced.
RetryReadUnlimited ==
    /\ pc = "reread"
    /\ \E ok \in BOOLEAN :
         LET seen == And_FF00(regread(ssr, board, chip, buf, Cleared, ok)) IN
         /\ Bus(ok)
         /\ \/ /\ seen # HandleSsr
               /\ retry' = retry + 1
               /\ pc' = "retry" /\ buf' = seen /\ UNCHANGED chip
            \/ seen = HandleSsr /\ NextChip
    /\ UNCHANGED <<chips, env, board>>

RetryReadUncounted ==
    /\ pc = "reread"
    /\ \E ok \in BOOLEAN :
         LET seen == And_FF00(regread(ssr, board, chip, buf, Cleared, ok)) IN
         /\ Bus(ok)
         /\ \/ /\ seen # HandleSsr /\ retry < MaxRetry
               /\ pc' = "retry" /\ buf' = seen /\ UNCHANGED <<chip, retry>>
            \/ (seen = HandleSsr \/ retry >= MaxRetry) /\ NextChip
    /\ UNCHANGED <<chips, env, board>>

\* ... and reads the same chip again, at most MaxRetry + 1 times.
RetryRead ==
    /\ pc = "reread"
    /\ \E ok \in BOOLEAN :
         LET seen == And_FF00(regread(ssr, board, chip, buf, Cleared, ok)) IN
         /\ Bus(ok)
         /\ \/ /\ seen # HandleSsr /\ retry < MaxRetry
               /\ retry' = retry + 1
               /\ pc' = "retry" /\ buf' = seen /\ UNCHANGED chip
            \/ (seen = HandleSsr \/ retry >= MaxRetry) /\ NextChip
    /\ UNCHANGED <<chips, env, board>>

\* Mutant of SetInterrupt: the write is not a broadcast.
SetInterruptUnicast ==
    /\ AtBoard("irq")
    /\ \E ok \in BOOLEAN, seen \in SUBSET IntKinds :
         /\ Bus(ok)
         /\ ier' = regwrite(ier, board, 0, seen \cup IntAll, FALSE, ok)
    /\ board' = board + 1
    /\ UNCHANGED <<ssr, pll, flushed, env, pc, chip, retry, buf>>

\* bnt_set_interrupt(-1, 0, IntAll, true, true), one board: whatever the read
\* of chip 0 leaves in ier, the value written has all four bits.
SetInterrupt ==
    /\ AtBoard("irq")
    /\ \E ok \in BOOLEAN, seen \in SUBSET IntKinds :
         /\ Bus(ok)
         /\ ier' = regwrite(ier, board, 0, seen \cup IntAll, TRUE, ok)
    /\ board' = board + 1
    /\ UNCHANGED <<ssr, pll, flushed, env, pc, chip, retry, buf>>

SkipBoard ==
    /\ pc \in {"reset", "ssr", "psr", "verify", "irq"}
    /\ board < MAX_NBOARDS /\ board \notin open
    /\ board' = board + 1
    /\ UNCHANGED <<chips, env, pc, chip, retry, buf, faults>>

\* The loop that follows; the local ssr becomes htons(handle->ssr) before the
\* first write of it.
After(loop) ==
    CASE loop = "reset"           -> "ssr"
      [] loop = "ssr" /\ fast     -> "psr"
      [] loop = "ssr" /\ ~fast    -> "verify"
      [] loop = "psr"             -> "verify"
      [] loop = "verify"          -> "irq"
      [] loop = "irq"             -> "done"

EndLoop ==
    /\ pc \in {"reset", "ssr", "psr", "verify", "irq"}
    /\ board = MAX_NBOARDS
    /\ pc' = After(pc)
    /\ board' = 0
    /\ buf' = IF pc = "reset" THEN HandleSsr ELSE buf
    /\ UNCHANGED <<chips, env, chip, retry, faults>>

Next ==
    \/ ResetSet \/ ResetRelease \/ WriteSsr \/ WritePsr
    \/ VerifyRead \/ VerifyNextBoard \/ RetryWrite \/ RetryRead
    \/ SetInterrupt \/ SkipBoard \/ EndLoop

\* One thread, every driver call returns: the code takes a step while it can.
Spec == Init /\ [][Next]_vars /\ WF_vars(Next)

-----------------------------------------------------------------------------
\* The value of every variable is one the code can hold.
TypeOK ==
    /\ ssr \in [Fitted -> Ssr]
    /\ ier \in [Fitted -> SUBSET IntKinds]
    /\ pll \subseteq open /\ flushed \subseteq open
    /\ open \subseteq Boards
    /\ fast \in BOOLEAN /\ mixed \in BOOLEAN
    /\ pc \in {"reset", "release", "ssr", "psr", "verify", "retry", "reread",
               "irq", "done"}
    /\ board \in 0 .. MAX_NBOARDS
    /\ chip \in 0 .. MAX_NCHIPS_PER_BOARD
    /\ retry \in 0 .. MaxRetry
    /\ buf \in Ssr
    /\ faults \in 0 .. MaxFaults + MaxFaultsMixed

\* bnt_init returns 0 without looking: still, with at most MaxFaults lost
\* transactions (MaxFaultsMixed if the chips of a board differed before),
\* every chip of every open board, polled or not, then holds handle->ssr.
ConfiguredAtReturn == pc = "done" => \A b \in open : Configured(b)

\* If nothing was lost, the four loops of broadcasts reached every chip: the
\* open boards were all flushed, sped up if asked for, and interrupts are on.
CleanReturn ==
    pc = "done" /\ faults = 0 =>
        /\ flushed = open
        /\ pll = IF fast THEN open ELSE {}
        /\ \A k \in Fitted : k[1] \in open => ier[k] = IntAll

\* The retry loop is entered for a reason: a transaction was lost, or a polled
\* id has no chip.
RetryMeansFault ==
    pc \in {"retry", "reread"} => faults > 0 \/ <<board, chip>> \notin Fitted

\* bnt_init returns, whatever is lost: the retry loops are bounded.
Termination == <>(pc = "done")

\* Steps bnt_init may still take, if every polled id needs all its tries: what
\* is left of the loop over the boards, of the ids of the board and of the tries.
PolledIds(c) == (MAX_NCHIPS_PER_BOARD - c) \div IdStep(NChips)
PerId        == 2 * (MaxRetry + 1) + 1
PerBoard     == PerId * PolledIds(0) + 1
StepsLeft ==
    LET boards == MAX_NBOARDS - board
        verify == boards * PerBoard - PerId * (PolledIds(0) - PolledIds(chip)) + 6
    IN CASE pc = "reset"   -> 2 * boards + 4 * PerBoard + 17
         [] pc = "release" -> 2 * boards + 4 * PerBoard + 16
         [] pc = "ssr"     -> boards + 4 * PerBoard + 12
         [] pc = "psr"     -> boards + 4 * PerBoard + 7
         [] pc = "verify"  -> verify
         [] pc = "retry"   -> verify - 2 * retry - 1
         [] pc = "reread"  -> verify - 2 * retry - 2
         [] pc = "irq"     -> boards + 1
         [] pc = "done"    -> 0
MaxSteps == 4 * PerBoard + 25

\* bnt_init as its caller needs it: see BntConfigure.
Contract == INSTANCE BntConfigure WITH
    AllBoards  <- Boards,
    phase      <- CASE pc \in {"reset", "release"} -> "resetting"
                    [] pc = "done"                 -> "returned"
                    [] OTHER                       -> "configuring",
    configured <- {b \in open : Configured(b)}

ImplementsContract == Contract!CSpec

-----------------------------------------------------------------------------
\* "while((ssr != handle->ssr) && (retry++ < 5))": a try after which the chip
\* holds handle->ssr, and which was read back without a loss, is the last.
\* The code compares 0xFF00 of it, which drops the 64-bit flag: all six run.
RetryOnlyWhileWrong ==
    [][pc = "reread" /\ pc' = "retry" /\ faults' = faults
         /\ <<board, chip>> \in Fitted => ssr[<<board, chip>>] # HandleSsr]_vars

\* "Verify": the first read of an id accepts it only if the chip there holds
\* handle->ssr.
VerifiedMeansConfigured ==
    [][pc = "verify" /\ pc' = "verify" /\ chip' > chip
         /\ <<board, chip>> \in Fitted => ssr[<<board, chip>>] = HandleSsr]_vars
=============================================================================
