------------------------------- MODULE DevTest -------------------------------
(***************************************************************************)
(* bnt_devtest (app/bnt_devtest.c): for every chip that answers, four       *)
(* patterns are written to the HVR registers and read back, first with      *)
(* unicast writes and then with broadcasts.  Transactions may be lost; a    *)
(* chip may have defective cells, which hold a value of their own.          *)
(*                                                                          *)
(* The byte of HVR0 that cannot be written is left out: it reads as 0 and   *)
(* is compared with 0.                                                      *)
(***************************************************************************)
EXTENDS BntBus, FiniteSets, Sequences

CONSTANTS Fitted,   \* <<board, id>> of the chips
          Nodes,    \* boards with a device node
          Regs,     \* HVR registers
          Defects,  \* each a function from some <<chip, register>> to values
          Options,  \* command lines, see Option
          MaxLost   \* lost transactions

\* Mutant: only two different patterns.
Patterns_Two == <<255, 0, 255, 0>>

Patterns == <<255, 0, 165, 90>>
Values   == {0, 90, 165, 255}

\* -a; -n nchips (0 if it is not given); -b boardid; -c chipid.
Option == [all : BOOLEAN, nchips : 0 .. MAX_NCHIPS_PER_BOARD,
           board : Boards, chip : ChipIds]

ASSUME FittedAssumption == Fitted \subseteq Boards \X ChipIds
ASSUME RegsAssumption == IsFiniteSet(Regs)
ASSUME DefectsAssumption ==
    \A d \in Defects : /\ DOMAIN d \subseteq Fitted \X Regs
                       /\ \A cell \in DOMAIN d : d[cell] \in Values
ASSUME OptionsAssumption == Options \subseteq Option
ASSUME MaxLostAssumption == MaxLost \in Nat

MaxRetry == 5

VARIABLES hvr,     \* HVR registers of every chip
          ssr,     \* its SSR: "set", "reset" or "clear"
          defect,  \* the defective cells
          opt,     \* the command line
          pc, board, chip,
          pattern, bcast,  \* which of the eight memory tests
          rbuf, count,     \* of do_memtest
          verdict, \* what do_memtest printed last
          passed, failed,  \* chips through all tests, chips that failed one
          lost,    \* transactions lost so far
          lostw,   \* history: the write of this memory test was lost
          lostr,   \* history: its lost reads of each register
          unheard  \* history: chips that were greeted in vain

chips   == <<hvr, ssr, defect>>
history == <<lostw, lostr, unheard>>
vars    == <<hvr, ssr, defect, opt, pc, board, chip, pattern, bcast, rbuf, count,
             verdict, passed, failed, lost, lostw, lostr, unheard>>

-----------------------------------------------------------------------------
FirstBoard == IF opt.all THEN 0 ELSE opt.board
LastBoard  == IF opt.all THEN MAX_NBOARDS - 1 ELSE opt.board
FirstChip  == IF opt.all \/ opt.nchips > 0 THEN 0 ELSE opt.chip
LastChip   == IF opt.all THEN MAX_NCHIPS_PER_BOARD - 1
              ELSE IF opt.nchips > 0
                   THEN MAX_NCHIPS_PER_BOARD - MAX_NCHIPS_PER_BOARD \div opt.nchips
                   ELSE opt.chip
ChipStep   == IF opt.nchips > 0 THEN IdStep(opt.nchips) ELSE 1

InRange(k) == /\ k[1] \in FirstBoard .. LastBoard
              /\ k[2] \in FirstChip .. LastChip
              /\ (k[2] - FirstChip) % ChipStep = 0

Zeros == [r \in Regs |-> 0]

Healthy(k) == \A r \in Regs : <<k, r>> \notin DOMAIN defect

\* What a chip holds of what was written to it.
Hold(file) ==
    [k \in Fitted |-> [r \in Regs |->
        IF <<k, r>> \in DOMAIN defect THEN defect[<<k, r>>] ELSE file[k][r]]]

Lose(n) == lost + n <= MaxLost /\ lost' = lost + n

Init ==
    /\ defect \in Defects
    /\ hvr = Hold([k \in Fitted |-> Zeros])
    /\ ssr = [k \in Fitted |-> "set"]
    /\ opt \in Options
    /\ pc = "board" /\ board = FirstBoard /\ chip = FirstChip
    /\ pattern = 1 /\ bcast = FALSE /\ rbuf = Zeros /\ count = 0
    /\ verdict = "none" /\ passed = {} /\ failed = {}
    /\ lost = 0 /\ lostw = FALSE /\ lostr = Zeros /\ unheard = {}

-----------------------------------------------------------------------------
OpenBoard ==
    /\ pc = "board" /\ board \in Nodes
    /\ pc' = "hello"
    /\ chip' = FirstChip
    /\ UNCHANGED <<chips, opt, board, pattern, bcast, rbuf, count, verdict, passed,
                   failed, lost, history>>

\* do ... while(csidx++ < cs_end)
NextBoard ==
    /\ IF board < LastBoard THEN pc' = "board" ELSE pc' = "done"
    /\ board' = board + 1

\* Mutant of NoBoard: the tests end at the first board without a device node.
NoBoard_Ends ==
    /\ pc = "board" /\ board \notin Nodes
    /\ pc' = "done"
    /\ UNCHANGED <<chips, opt, board, chip, pattern, bcast, rbuf, count, verdict,
                   passed, failed, lost, history>>

\* "SPI open error": on to the next board.
NoBoard ==
    /\ pc = "board" /\ board \notin Nodes
    /\ NextBoard
    /\ UNCHANGED <<chips, opt, chip, pattern, bcast, rbuf, count, verdict, passed,
                   failed, lost, history>>

CloseBoard ==
    /\ pc = "hello" /\ chip > LastChip
    /\ NextBoard
    /\ UNCHANGED <<chips, opt, chip, pattern, bcast, rbuf, count, verdict, passed,
                   failed, lost, history>>

\* hello_there answers: the unicast tests of this chip begin after its reset.
Hello ==
    /\ pc = "hello" /\ <<board, chip>> \in Fitted /\ chip <= LastChip
    /\ pc' = "reset"
    /\ UNCHANGED <<chips, opt, board, chip, pattern, bcast, rbuf, count, verdict,
                   passed, failed, lost, history>>

\* No chip, or the greeting is lost: the id is passed over.
NoHello ==
    /\ pc = "hello" /\ chip <= LastChip
    /\ \/ <<board, chip>> \notin Fitted /\ UNCHANGED <<lost, unheard>>
       \/ <<board, chip>> \in Fitted /\ Lose(1)
          /\ unheard' = unheard \cup {<<board, chip>>}
    /\ chip' = chip + ChipStep
    /\ UNCHANGED <<chips, opt, pc, board, pattern, bcast, rbuf, count, verdict,
                   passed, failed, lostw, lostr>>

\* bnt_softreset of the chip, both writes of SSR.  Whether it clears HVR the
\* source does not say.
SoftReset ==
    /\ pc = "reset"
    /\ \E set, unset \in BOOLEAN :
         /\ Lose((IF set THEN 0 ELSE 1) + (IF unset THEN 0 ELSE 1))
         /\ ssr' = regwrite(regwrite(ssr, board, chip, "reset", FALSE, set),
                            board, chip, "clear", FALSE, unset)
         /\ hvr' \in {hvr, Hold(regwrite(hvr, board, chip, Zeros, FALSE, set))}
    /\ pc' = "write"
    /\ pattern' = 1 /\ bcast' = FALSE
    /\ UNCHANGED <<defect, opt, board, chip, rbuf, count, verdict, passed,
                   failed, history>>

\* do_memtest up to its loop: all registers in one write.
Write ==
    /\ pc = "write"
    /\ \E ok \in BOOLEAN :
         /\ Lose(IF ok THEN 0 ELSE 1)
         /\ lostw' = ~ok
         /\ hvr' = Hold(regwrite(hvr, board, chip, [r \in Regs |-> Patterns[pattern]],
                                 bcast, ok))
    /\ pc' = "read"
    /\ rbuf' = Zeros /\ count' = 0 /\ verdict' = "none" /\ lostr' = Zeros
    /\ UNCHANGED <<ssr, defect, opt, board, chip, pattern, bcast, passed, failed,
                   unheard>>

\* Mutant: what an earlier try has read is thrown away.
regreadHVR_Afresh(missed) ==
    [r \in Regs |-> regread([k \in Fitted |-> hvr[k][r]], board, chip, 0, 0,
                            r \notin missed)]

\* One read per register: where it is lost, rbuf keeps what it had.
regreadHVR(missed) ==
    [r \in Regs |-> regread([k \in Fitted |-> hvr[k][r]], board, chip, rbuf[r], 0,
                            r \notin missed)]

\* Mutant: only some of the bytes are compared.
Equal_InPart(buf) == \E r \in Regs : buf[r] = Patterns[pattern]

Equal(buf) == \A r \in Regs : buf[r] = Patterns[pattern]

\* Mutant: one try more.
TriesLeft_OneMore == count <= MaxRetry

TriesLeft == count < MaxRetry

NextChip == pc' = "hello" /\ chip' = chip + ChipStep

\* After a pattern: the next one, the broadcasts, or the next chip.
Verified ==
    /\ verdict' = "VERIFIED"
    /\ \/ /\ pattern < Len(Patterns)
          /\ pc' = "write" /\ pattern' = pattern + 1
          /\ UNCHANGED <<chip, bcast, passed>>
       \/ /\ pattern = Len(Patterns) /\ ~bcast
          /\ pc' = "write" /\ pattern' = 1 /\ bcast' = TRUE
          /\ UNCHANGED <<chip, passed>>
       \/ /\ pattern = Len(Patterns) /\ bcast
          /\ passed' = passed \cup {<<board, chip>>}
          /\ NextChip
          /\ UNCHANGED <<pattern, bcast>>
    /\ UNCHANGED <<count, failed>>

\* A pass of the loop of do_memtest.
Read ==
    /\ pc = "read"
    /\ \E missed \in SUBSET Regs :
         /\ Lose(Cardinality(missed))
         /\ rbuf' = regreadHVR(missed)
         /\ lostr' = [r \in Regs |-> IF r \in missed THEN lostr[r] + 1 ELSE lostr[r]]
    /\ \/ Equal(rbuf') /\ Verified
       \/ /\ ~Equal(rbuf') /\ TriesLeft
          /\ count' = count + 1
          /\ UNCHANGED <<pc, chip, pattern, bcast, verdict, passed, failed>>
       \/ /\ ~Equal(rbuf') /\ ~TriesLeft
          /\ verdict' = "FAILED"
          /\ failed' = failed \cup {<<board, chip>>}
          /\ NextChip
          /\ UNCHANGED <<pattern, bcast, count, passed>>
    /\ UNCHANGED <<chips, opt, board, lostw, unheard>>

Next == \/ OpenBoard \/ NoBoard \/ CloseBoard \/ Hello \/ NoHello
        \/ SoftReset \/ Write \/ Read

Spec == Init /\ [][Next]_vars
-----------------------------------------------------------------------------
TypeOK ==
    /\ hvr \in [Fitted -> [Regs -> Values]]
    /\ ssr \in [Fitted -> {"set", "reset", "clear"}]
    /\ defect \in Defects /\ opt \in Options
    /\ pc \in {"board", "hello", "reset", "write", "read", "done"}
    /\ board \in 0 .. MAX_NBOARDS
    /\ chip \in 0 .. 2 * MAX_NCHIPS_PER_BOARD
    /\ pattern \in DOMAIN Patterns /\ bcast \in BOOLEAN
    /\ rbuf \in [Regs -> Values] /\ count \in 0 .. MaxRetry
    /\ verdict \in {"none", "VERIFIED", "FAILED"}
    /\ passed \subseteq Fitted /\ failed \subseteq Fitted
    /\ lost \in 0 .. MaxLost /\ lostw \in BOOLEAN
    /\ lostr \in [Regs -> 0 .. MaxRetry + 1] /\ unheard \subseteq Fitted

\* The chip under test holds the pattern in all its registers.
Holds == \A r \in Regs : hvr[<<board, chip>>][r] = Patterns[pattern]

\* VERIFIED, for a pattern that is not zero, means that the chip holds it,
\* although rbuf is put together from several tries.
VerifiedIsHeld ==
    [][pc = "read" /\ verdict' = "VERIFIED" /\ Patterns[pattern] # 0 => Holds]_vars

\* FAILED, for a chip without defects, means that the write was lost, or that
\* the reads of one register were lost in all six tries.
NoFalseAlarm ==
    [][pc = "read" /\ verdict' = "FAILED" /\ Healthy(<<board, chip>>)
         => lostw \/ \E r \in Regs : lostr'[r] = MaxRetry + 1]_vars

\* A chip with a defective cell never gets through all eight tests, whatever
\* is lost: no value of the cell passes for two of the patterns that are not 0.
DefectiveFails == \A k \in passed : Healthy(k)

\* No chip of the range is left out: each has passed, or failed, or was
\* greeted in vain; boards that do not open stop nothing.
AllTested ==
    pc = "done" =>
        \A k \in Fitted : k[1] \in Nodes /\ InRange(k)
                            => k \in passed \cup failed \cup unheard

\* Steps the tool may still take, if every id of the range has a chip and every
\* memory test needs all its tries: a write and MaxRetry + 1 reads each.
PerTest   == MaxRetry + 2
PerChip   == 8 * PerTest + 2
PerBoard  == PerChip * (LastChip + 1 - FirstChip) + 2
TestsLeft == (IF bcast THEN 0 ELSE 4) + 4 - pattern
StepsLeft ==
    LET boards == (LastBoard - board) * PerBoard
        ids    == PerChip * (LastChip - chip) + 1
    IN CASE pc = "done"  -> 0
         [] pc = "board" -> boards + PerBoard
         [] pc = "hello" -> boards + IF chip > LastChip THEN 1 ELSE ids + PerChip
         [] pc = "reset" -> boards + ids + 8 * PerTest + 1
         [] pc = "write" -> boards + ids + PerTest * (TestsLeft + 1)
         [] pc = "read"  -> boards + ids + PerTest * (TestsLeft + 1) - 1 - count
MaxSteps == (LastBoard + 1 - FirstBoard) * PerBoard

-----------------------------------------------------------------------------
\* "VERIFIED" is printed for a pattern only if the chip holds it.  For the
\* pattern 0 rbuf matches before anything was read.
VerifiedMeansHeld ==
    [][pc = "read" /\ verdict' = "VERIFIED" => Holds]_vars
=============================================================================
